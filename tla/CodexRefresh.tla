---------------------------- MODULE CodexRefresh ----------------------------
(* Refresh of the Codex host that carries the CAO's MCP bridges              *)
(* (dashboard_lifecycle.py, refresh_codex_app_server_mcp): attest the host   *)
(* behind the control socket, replace it once when it maps a stale image,    *)
(* and submit one reload to the host that was attested. Meanwhile the        *)
(* Desktop may restart its host, the application may be updated, and bridge  *)
(* processes come and go.                                                    *)
EXTENDS Naturals, FiniteSets

CONSTANTS
    MaxHost,     \* bound: generations of the host process
    MaxExe,      \* bound: generations of the bundled executable
    MaxBridge,   \* bound: bridge processes over a behaviour
    Attempts     \* polls of the postcondition of a restart

VARIABLES
    pc, backend,
    exe,      \* generation of the bundled executable
    img,      \* host -> the executable generation it maps
    cur,      \* host that the LaunchAgent runs
    live,     \* hosts that still exist
    sock,     \* host whose socket is at the canonical path
    bridge,   \* live bridge -> host it is a descendant of (0: it is gone)
    made,     \* bridges so far
    prep,     \* what the preflight attested
    kicked,   \* host that the kickstart of this operation reported, 0: there was none
    left,     \* polls left
    conn,     \* host at the other end of the connection
    got       \* host that received the reload, 0: none was sent

host == <<exe, img, cur, live, sock, bridge, made>>
vars == <<pc, backend, host, prep, kicked, left, conn, got>>

ASSUME RefreshAssumption == {MaxHost, MaxExe, MaxBridge, Attempts} \subseteq Nat \ {0}

PlanExe == 1
Host == 1 .. MaxHost
Bridge == 1 .. MaxBridge
Final == {"done", "refused", "unknown", "not_submitted", "reload_unknown"}
NoPrep == [sock |-> 0, exe |-> 0, peer |-> 0, stale |-> FALSE, bridges |-> {}]

Init ==
    /\ pc = "observe" /\ backend \in {"desktop", "managed"}
    /\ exe = 1 /\ \E i \in {0, 1} : img = [h \in Host |-> IF h = 1 THEN i ELSE 0]
    /\ cur = 1 /\ live = {1} /\ sock = 1
    /\ bridge = [b \in Bridge |-> 0] /\ made = 0
    /\ prep = NoPrep /\ kicked = 0 /\ left = Attempts /\ conn = 0 /\ got = 0

BridgesOf(h) == {b \in Bridge : bridge[b] = h}

----------------------------------------------------------------------------
(* The Desktop.                                                              *)

Started(old) ==
    /\ cur < MaxHost /\ cur' = cur + 1 /\ img' = [img EXCEPT ![cur + 1] = exe]
    /\ live' = (live \ old) \cup {cur + 1}
RestartHost ==
    /\ pc \notin Final /\ Started({cur})
    /\ UNCHANGED <<pc, backend, exe, sock, bridge, made, prep, kicked, left, conn, got>>
Listen ==
    /\ pc \notin Final /\ sock # cur /\ cur \in live /\ sock' = cur
    /\ UNCHANGED <<pc, backend, exe, img, cur, live, bridge, made, prep, kicked, left, conn, got>>
Linger(h) ==
    /\ pc \notin Final /\ h \in live \ {cur} /\ live' = live \ {h}
    /\ UNCHANGED <<pc, backend, exe, img, cur, sock, bridge, made, prep, kicked, left, conn, got>>
UpdateApp ==
    /\ pc \notin Final /\ exe < MaxExe /\ exe' = exe + 1
    /\ UNCHANGED <<pc, backend, img, cur, live, sock, bridge, made, prep, kicked, left, conn, got>>
OpenBridge ==
    /\ pc \notin Final /\ made < MaxBridge /\ cur \in live
    /\ made' = made + 1 /\ bridge' = [bridge EXCEPT ![made + 1] = cur]
    /\ UNCHANGED <<pc, backend, exe, img, cur, live, sock, prep, kicked, left, conn, got>>
CloseBridge(b) ==
    /\ pc \notin Final /\ bridge[b] # 0 /\ bridge' = [bridge EXCEPT ![b] = 0]
    /\ UNCHANGED <<pc, backend, exe, img, cur, live, sock, made, prep, kicked, left, conn, got>>

----------------------------------------------------------------------------
(* The refresh.                                                              *)

To(l) == pc' = l /\ UNCHANGED <<backend, host, prep, kicked, left, conn, got>>
\* How an error before the reload request is reported.
Failed == IF kicked = 0 THEN "refused" ELSE "not_submitted"

\* The socket and the signed executable, which must be the one of the plan.
Observe ==
    /\ pc = "observe"
    /\ \/ exe # PlanExe /\ To("refused")
       \/ /\ exe = PlanExe /\ prep' = [NoPrep EXCEPT !.sock = sock, !.exe = exe] /\ pc' = "attest"
          /\ UNCHANGED <<backend, host, kicked, left, conn, got>>
\* The peer of the socket is the process of the LaunchAgent; its mapped image decides.
Peer(s) == s \in live /\ s = cur
Stale(s) == img[s] # exe
Attest ==
    /\ pc = "attest"
    /\ \/ (sock # prep.sock \/ (backend = "desktop" /\ (~Peer(sock) \/ exe # prep.exe))) /\ To("refused")
       \/ /\ sock = prep.sock /\ backend = "managed"
          /\ prep' = [prep EXCEPT !.peer = sock] /\ pc' = "managed"
          /\ UNCHANGED <<backend, host, kicked, left, conn, got>>
       \/ /\ sock = prep.sock /\ backend = "desktop" /\ Peer(sock) /\ exe = prep.exe
          /\ prep' = [prep EXCEPT !.peer = sock, !.stale = Stale(sock),
                                  !.bridges = IF Stale(sock) THEN BridgesOf(sock) ELSE {}]
          /\ pc' = "attested" /\ UNCHANGED <<backend, host, kicked, left, conn, got>>
\* The files of a managed installation are checked, and nothing else.
Managed == pc = "managed" /\ (To("reload") \/ To("refused"))
\* The process and the socket are looked at again.
Attested ==
    /\ pc = "attested"
    /\ IF prep.peer \in live /\ sock = prep.sock
       THEN To(IF prep.stale THEN "fence" ELSE "reload") ELSE To("refused")
\* Every fence is read again immediately before the one effect.
Fence ==
    /\ pc = "fence"
    /\ IF exe = prep.exe /\ sock = prep.sock /\ Peer(prep.peer) /\ BridgesOf(prep.peer) = prep.bridges
       THEN To("kick") ELSE To("refused")
\* launchctl kickstart -kp: the job is killed and started; the old process may take time to go.
Kick ==
    /\ pc = "kick"
    /\ \/ /\ \E old \in {{}, {cur}} : Started(old)
          /\ kicked' = cur + 1 /\ pc' \in {"poll", "unknown"}
          /\ UNCHANGED <<backend, exe, sock, bridge, made, prep, left, conn, got>>
       \/ To("unknown")
\* The old generation is gone, with the bridges that were captured.
Retired == prep.peer \notin live /\ \A b \in prep.bridges : bridge[b] = 0
\* The postcondition of the restart, which includes a whole preflight of the new host.
Poll ==
    /\ pc = "poll"
    /\ \/ /\ sock # prep.sock /\ sock = kicked /\ Peer(sock) /\ Retired /\ exe = PlanExe /\ ~Stale(sock)
          /\ prep' = [prep EXCEPT !.sock = sock, !.peer = sock, !.stale = FALSE] /\ pc' = "reload"
          /\ UNCHANGED <<backend, host, kicked, left, conn, got>>
       \/ /\ left > 1 /\ left' = left - 1 /\ UNCHANGED <<pc, backend, host, prep, kicked, conn, got>>
       \/ left = 1 /\ To("unknown")
\* The executable of the plan and the attested socket, before the connection.
Reload ==
    /\ pc = "reload"
    /\ IF exe = PlanExe /\ sock = prep.sock THEN To("connect") ELSE To(Failed)
Connect ==
    /\ pc = "connect"
    /\ \/ /\ sock \in live /\ conn' = sock /\ pc' = "connected"
          /\ UNCHANGED <<backend, host, prep, kicked, left, got>>
       \/ To(Failed)
\* Mutant of Connected: the socket is not looked at after connecting.
ConnectedBlindly == pc = "connected" /\ IF conn \in live THEN To("send") ELSE To(Failed)
\* The socket at the path is still the one, and its host answers the initialization.
Connected ==
    /\ pc = "connected"
    /\ IF sock = prep.sock /\ conn \in live THEN To("send") ELSE To(Failed)
Send ==
    /\ pc = "send" /\ got' = conn /\ pc' = "sent"
    /\ UNCHANGED <<backend, host, prep, kicked, left, conn>>
\* An acknowledgement, or an error that leaves open whether the reload was applied.
Answer ==
    /\ pc = "sent"
    /\ \/ conn \in live /\ To("done")
       \/ To(IF kicked = 0 THEN "unknown" ELSE "reload_unknown")

\* The operation; each of its steps has a timeout of its own.
Refresh ==
    \/ Observe \/ Attest \/ Managed \/ Attested \/ Fence \/ Kick \/ Poll \/ Reload \/ Connect \/ Connected \/ Send \/ Answer
Next ==
    \/ Refresh
    \/ RestartHost \/ Listen \/ UpdateApp \/ OpenBridge
    \/ \E h \in Host : Linger(h)
    \/ \E b \in Bridge : CloseBridge(b)

Spec == Init /\ [][Next]_vars

----------------------------------------------------------------------------
(* Properties.                                                               *)

\* The steps of the operation and its outcomes, and what it has attested: a host that existed.
Steps == {"observe", "attest", "managed", "attested", "fence", "kick", "poll", "reload", "connect",
          "connected", "send", "sent"} \cup Final
Preps == [sock : Host \cup {0}, exe : {0, PlanExe}, peer : Host \cup {0}, stale : BOOLEAN,
          bridges : SUBSET Bridge]
TypeOK ==
    /\ pc \in Steps /\ backend \in {"desktop", "managed"}
    /\ exe \in 1 .. MaxExe /\ img \in [Host -> 0 .. MaxExe] /\ cur \in Host /\ live \subseteq 1 .. cur
    /\ sock \in 1 .. cur /\ bridge \in [Bridge -> Host \cup {0}] /\ made \in 0 .. MaxBridge
    /\ prep \in Preps /\ {kicked, conn, got} \subseteq 0 .. cur /\ left \in 1 .. Attempts

\* The reload reaches only the host that was attested, and a Desktop host that maps the executable of
\* the plan, although the Desktop may put another one behind the path at any moment.
OnlyTheAttested ==
    got # 0 => got = prep.peer /\ (backend = "desktop" => img[got] = PlanExe)

\* What the operator is told of a stopped operation is true: refused means that nothing was changed,
\* not_submitted that the host was replaced and no reload sent, reload_unknown that both were attempted.
OutcomeTrue ==
    /\ pc = "refused" => kicked = 0 /\ got = 0
    /\ pc = "not_submitted" => kicked # 0 /\ got = 0
    /\ pc = "reload_unknown" => kicked # 0 /\ got # 0

\* After an acknowledged refresh that replaced the host, the host that acknowledged is the one that
\* the kickstart reported, and no bridge that the replaced host had at the preflight serves the CAO.
OldGenerationGone ==
    pc = "done" /\ kicked # 0 => got = kicked /\ \A b \in prep.bridges : bridge[b] = 0

\* refresh_codex_app_server_mcp as a whole: the reload goes to the attested host, the reported outcome
\* is true, and nothing of a replaced host is left after a success.
ReloadToAttested == TypeOK /\ OnlyTheAttested /\ OutcomeTrue /\ OldGenerationGone
=============================================================================
