------------------------- MODULE ConversationBridge -------------------------
(* The stdio bridge between an MCP client and the shared daemon (mcp.py,     *)
(* serve_stdio_proxy). Its read loop answers one request at a time; requests *)
(* with a progress token and subscriptions run as tasks beside it and share  *)
(* its credential. The daemon answers late, credentials expire and are       *)
(* revoked, and a Worker's bridge also keeps its enrollment alive.           *)
EXTENDS Naturals, FiniteSets

CONSTANTS
    Ids,       \* request ids
    Setups     \* how a bridge may be started: its kind, which "pending" (attached by cao_start),
               \* "context" (attached at its start) or "worker" says, the ids and the operations
               \* of its client's requests, the faults its daemon may show beside success, and
               \* two bounds: credentials issued and heartbeats of the enrollment

VARIABLES
    setup,     \* how this bridge was started (the arguments of serve_stdio_proxy)
    pc,        \* what the read loop awaits, or how the bridge ended
    main,      \* the request of the read loop that is under way
    task,      \* id -> the request that runs as a task (active_requests)
    sent, answered, cut,           \* per id: requests, final responses; ids that were cancelled
    bearer, att, mark,             \* credential, attachment and verified connection
    valid, issued,                 \* the daemon: credentials that it accepts
    verified, rejected, degraded,  \* credentials proven, refused, and reported ready without proof
    hb, srv                        \* the heartbeat task with its next sequence, and the durable one

Ops == setup.ops
Faults == setup.faults
MaxIssue == setup.issues
MaxBeat == setup.beats
Worker == setup.kind = "worker"
Pending == setup.kind = "pending"

client == <<sent, cut>>
local == <<bearer, att, mark>>
daemon == <<valid, issued>>
seen == <<verified, rejected, degraded>>
beat == <<hb, srv>>
vars == <<setup, pc, main, task, client, answered, local, daemon, seen, beat>>

\* The requests that run as tasks beside the read loop, and all requests.
TaskOps == {"progress", "close task", "listen"}
AllOps == {"call", "list", "local", "start", "close"} \cup TaskOps
Phases == {"none", "sent", "ok", "err", "lost", "401", "catalog", "stopped"}

\* What the constants may be.
ASSUME BridgeAssumption ==
    /\ "none" \notin Ids
    /\ Setups \subseteq [kind : {"pending", "context", "worker"}, ids : SUBSET Ids, ops : SUBSET AllOps,
                          faults : SUBSET {"err", "lost", "catalog"}, issues : Nat \ {0}, beats : Nat]

NoRequest == [op |-> "none", tok |-> 0, ph |-> "none"]
NoMain == [id |-> "none", op |-> "none", tok |-> 0, ph |-> "none"]
Ended == {"closed", "failed"}

Init ==
    /\ setup \in Setups
    /\ pc = "read" /\ main = NoMain /\ task = [i \in Ids |-> NoRequest]
    /\ sent = [i \in Ids |-> 0] /\ answered = [i \in Ids |-> 0] /\ cut = {}
    /\ bearer = IF Pending THEN 0 ELSE 1
    /\ att = IF setup.kind = "context" THEN 1 ELSE 0
    /\ mark = 0
    /\ valid = IF Pending THEN {} ELSE {1}
    /\ issued = IF Pending THEN 0 ELSE 1
    /\ verified = {} /\ rejected = {} /\ degraded = {}
    /\ hb = [st |-> "none", next |-> 1] /\ srv = 0

Write(i) == answered' = [answered EXCEPT ![i] = @ + 1]
Forget == bearer' = 0 /\ att' = 0 /\ mark' = 0
Await(l, i, o) == pc' = l /\ main' = [id |-> i, op |-> o, tok |-> bearer, ph |-> "sent"]
ToRead == pc' = "read" /\ main' = NoMain
\* The finally clause cancels every task.
Leave(how) == pc' = how /\ main' = NoMain /\ task' = [i \in Ids |-> NoRequest]

----------------------------------------------------------------------------
(* The daemon.                                                               *)

Replies(r) ==
    IF r.tok \in valid THEN {"ok"} \cup (Faults \cap {"err", "lost"}) ELSE {"401"} \cup (Faults \cap {"lost"})
\* _verify_attached_cao_start: the daemon may also turn out to have another catalog.
Verdicts(r) == Replies(r) \cup IF r.tok \in valid THEN Faults \cap {"catalog"} ELSE {}
\* A close revokes the credential it was made with; when its answer is lost, perhaps.
Effect(r, reply) ==
    valid' \in IF r.op \notin {"close", "close task"} \/ reply \in {"401", "err"} THEN {valid}
               ELSE {valid \ {r.tok}} \cup IF reply = "lost" THEN {valid} ELSE {}
DaemonMain ==
    /\ pc \in {"call", "probe"} /\ main.ph = "sent"
    /\ \E reply \in IF pc = "probe" THEN Verdicts(main) ELSE Replies(main) :
         main' = [main EXCEPT !.ph = reply] /\ Effect(main, reply)
    /\ UNCHANGED <<pc, task, client, answered, local, issued, seen, beat>>
DaemonTask(i) ==
    /\ task[i].ph = "sent"
    /\ \E reply \in Replies(task[i]) : task' = [task EXCEPT ![i].ph = reply] /\ Effect(task[i], reply)
    /\ UNCHANGED <<pc, main, client, answered, local, issued, seen, beat>>
\* Capability, attachment and proof; the new credential replaces the one of the connection.
DaemonIssue ==
    /\ pc \in {"issue", "renew"} /\ main.ph = "sent"
    /\ \/ /\ issued < MaxIssue /\ issued' = issued + 1 /\ valid' = {issued + 1}
          /\ \E reply \in {"ok", "stopped"} : main' = [main EXCEPT !.ph = reply, !.tok = issued + 1]
       \/ main' = [main EXCEPT !.ph = "stopped"] /\ UNCHANGED daemon
    /\ UNCHANGED <<pc, task, client, answered, local, seen, beat>>
\* A credential expires, or is revoked by an upgrade or from elsewhere.
Expire(g) ==
    /\ pc \notin Ended /\ g \in valid /\ valid' = valid \ {g}
    /\ UNCHANGED <<pc, main, task, client, answered, local, issued, seen, beat>>

----------------------------------------------------------------------------
(* The read loop.                                                            *)

\* The client's next request; an id is used again at most while it is active.
Receive(i, o) ==
    /\ pc = "read" /\ hb.st # "dead" /\ o \in Ops /\ i \in setup.ids
    /\ sent[i] = 0 \/ (sent[i] = 1 /\ task[i] # NoRequest)
    /\ sent' = [sent EXCEPT ![i] = @ + 1]
AnswerLocally(i) ==
    Write(i) /\ UNCHANGED <<pc, main, task, cut, local, daemon, seen, beat>>
\* Connection control, the Dashboard, and a cao_start for another thread.
Local(i) == Receive(i, "local") /\ AnswerLocally(i)
\* Without attachment only cao_start gets through.
Unattached(i, o) ==
    /\ Receive(i, o) /\ Pending /\ att = 0 /\ o # "local"
    /\ \/ o # "start" /\ AnswerLocally(i)
       \/ o = "start" /\ Await("issue", i, o) /\ UNCHANGED <<task, answered, cut, local, daemon, seen, beat>>
\* The outcome of _issue_verified_cao_attachment.
Issued ==
    /\ pc = "issue" /\ main.ph \in {"ok", "stopped"} /\ Write(main.id) /\ ToRead
    /\ IF main.ph = "ok"
       THEN bearer' = main.tok /\ att' = main.tok /\ mark' = main.tok /\ verified' = verified \cup {main.tok}
       ELSE Forget /\ UNCHANGED verified
    /\ UNCHANGED <<task, client, daemon, rejected, degraded, beat>>
\* cao_start again: the daemon is asked for the catalog and one scoped read.
Again(i) ==
    /\ Receive(i, "start") /\ att # 0 /\ Await("probe", i, "start")
    /\ UNCHANGED <<task, answered, cut, local, daemon, seen, beat>>
\* _can_preserve_degraded_connection
Preservable == mark = att
\* The proof succeeded: there is a result if the attachment is still there.
ProbeOk ==
    /\ pc = "probe" /\ main.ph = "ok" /\ ToRead
    /\ IF att # 0 THEN mark' = att /\ verified' = verified \cup {att} /\ Write(main.id)
                  ELSE UNCHANGED <<mark, verified, answered>>
    /\ UNCHANGED <<task, client, bearer, att, daemon, rejected, degraded, beat>>
\* A failed proof keeps a connection that was proven before; a stale catalog ends it.
ProbeFailed ==
    /\ pc = "probe" /\ main.ph \in {"err", "lost", "catalog"} /\ Write(main.id)
    /\ IF main.ph # "catalog" /\ att = 0 THEN Leave("failed") /\ UNCHANGED <<local, degraded>>
       ELSE /\ ToRead /\ UNCHANGED task
            /\ IF main.ph # "catalog" /\ Preservable
               THEN degraded' = degraded \cup {att} /\ UNCHANGED local
               ELSE Forget /\ UNCHANGED degraded
    /\ UNCHANGED <<client, daemon, verified, rejected, beat>>
\* An expired credential is renewed once, for the thread of the attachment.
ProbeExpired ==
    /\ pc = "probe" /\ main.ph = "401" /\ Forget /\ rejected' = rejected \cup {main.tok}
    /\ \/ Pending /\ att # 0 /\ pc' = "renew" /\ main' = [main EXCEPT !.ph = "sent"] /\ UNCHANGED <<task, answered>>
       \/ Pending /\ att = 0 /\ Write(main.id) /\ Leave("failed")
       \/ ~Pending /\ Write(main.id) /\ ToRead /\ UNCHANGED task
    /\ UNCHANGED <<client, daemon, verified, degraded, beat>>
\* Mutant of Renewed: a renewal that was stopped is not reported.
RenewedSilently ==
    /\ pc = "renew" /\ main.ph \in {"ok", "stopped"} /\ ToRead
    /\ IF main.ph = "ok"
       THEN /\ bearer' = main.tok /\ att' = main.tok /\ mark' = main.tok
            /\ verified' = verified \cup {main.tok} /\ Write(main.id)
       ELSE UNCHANGED <<local, verified, answered>>
    /\ UNCHANGED <<task, client, daemon, rejected, degraded, beat>>
Renewed ==
    /\ pc = "renew" /\ main.ph \in {"ok", "stopped"} /\ Write(main.id) /\ ToRead
    /\ IF main.ph = "ok"
       THEN bearer' = main.tok /\ att' = main.tok /\ mark' = main.tok /\ verified' = verified \cup {main.tok}
       ELSE UNCHANGED <<local, verified>>
    /\ UNCHANGED <<task, client, daemon, rejected, degraded, beat>>

\* Requests for the daemon: an active id is refused, streams become tasks.
Forward(i, o) ==
    /\ Receive(i, o) /\ ~(Pending /\ att = 0) /\ o # "local" /\ ~(o = "start" /\ att # 0)
    /\ IF task[i] # NoRequest THEN AnswerLocally(i)
       ELSE /\ IF o \in TaskOps
               THEN task' = [task EXCEPT ![i] = [op |-> o, tok |-> bearer, ph |-> "sent"]] /\ UNCHANGED <<pc, main>>
               ELSE Await("call", i, o) /\ UNCHANGED task
            /\ UNCHANGED <<answered, cut, local, daemon, seen, beat>>
\* A rejected credential sends the bridge back to where only cao_start helps.
CallExpired ==
    /\ pc = "call" /\ main.ph = "401" /\ Write(main.id) /\ rejected' = rejected \cup {main.tok}
    /\ IF Pending /\ att # 0 THEN Forget /\ ToRead /\ UNCHANGED task ELSE Leave("failed") /\ UNCHANGED local
    /\ UNCHANGED <<client, daemon, verified, degraded, beat>>
FirstBeat == main.op = "list" /\ Worker /\ hb.st = "none"
CallFailed ==
    /\ pc = "call" /\ (main.ph = "lost" \/ (main.ph = "err" /\ main.op = "list" /\ Worker))
    /\ Write(main.id) /\ Leave("failed") /\ UNCHANGED <<client, local, daemon, seen, beat>>
\* The response, and then the reset of a conversation that was closed.
Answer ==
    /\ pc = "call" /\ (main.ph = "ok" \/ (main.ph = "err" /\ ~(main.op = "list" /\ Worker)))
    /\ ~FirstBeat /\ Write(main.id)
    /\ IF hb.st = "dead" THEN Leave("failed") /\ UNCHANGED local
       ELSE /\ ToRead /\ UNCHANGED task
            /\ IF main.op = "close" /\ main.ph = "ok" THEN Forget ELSE UNCHANGED local
    /\ UNCHANGED <<client, daemon, seen, beat>>
\* Mutant of Cancel: the task goes on.
CancelIgnored(i) ==
    /\ pc = "read" /\ hb.st # "dead" /\ task[i] # NoRequest /\ cut' = cut \cup {i}
    /\ UNCHANGED <<pc, main, task, sent, answered, local, daemon, seen, beat>>
Cancel(i) ==
    /\ pc = "read" /\ hb.st # "dead" /\ task[i] # NoRequest
    /\ task' = [task EXCEPT ![i] = NoRequest] /\ cut' = cut \cup {i}
    /\ UNCHANGED <<pc, main, sent, answered, local, daemon, seen, beat>>
EndOfInput ==
    /\ pc = "read" /\ Leave("closed") /\ UNCHANGED <<client, answered, local, daemon, seen, beat>>

----------------------------------------------------------------------------
(* The tasks.                                                                *)

Done(i) == Write(i) /\ task' = [task EXCEPT ![i] = NoRequest]
\* Mutant of RelayExpired: the credential that was rejected is kept.
RelayExpiredKeeps(i) ==
    /\ task[i].op # "listen" /\ task[i].ph = "401" /\ Done(i) /\ rejected' = rejected \cup {task[i].tok}
    /\ UNCHANGED <<pc, main, client, local, daemon, verified, degraded, beat>>
\* Only the credential that is still in use is given up.
RelayExpired(i) ==
    /\ task[i].op # "listen" /\ task[i].ph = "401" /\ Done(i) /\ rejected' = rejected \cup {task[i].tok}
    /\ IF Pending /\ att # 0 /\ bearer = task[i].tok THEN Forget ELSE UNCHANGED local
    /\ UNCHANGED <<pc, main, client, daemon, verified, degraded, beat>>
\* relay_progress_request; a successful close resets the bridge.
Relayed(i) ==
    /\ task[i].op # "listen" /\ task[i].ph \in {"ok", "err", "lost"} /\ Done(i)
    /\ IF task[i].op = "close task" /\ task[i].ph = "ok" THEN Forget ELSE UNCHANGED local
    /\ UNCHANGED <<pc, main, client, daemon, seen, beat>>
Listened(i) ==
    /\ task[i].op = "listen" /\ task[i].ph \in {"ok", "err", "lost", "401"} /\ Done(i)
    /\ UNCHANGED <<pc, main, client, local, daemon, seen, beat>>

----------------------------------------------------------------------------
(* Heartbeats.                                                               *)

\* heartbeat_runtime: the current sequence and the first one are replays, the next one renews.
Accepts(seq) == seq = srv \/ seq = srv + 1 \/ (seq = 1 /\ srv > 1)
Sequence(seq) == IF seq = srv + 1 THEN seq ELSE srv
\* _send_enrollment_heartbeat: the next sequence comes from the answer.
Sent(ok) ==
    /\ srv' = IF Accepts(hb.next) /\ bearer \in valid THEN Sequence(hb.next) ELSE srv
    /\ hb' = IF ok THEN [st |-> "running", next |-> srv' + 1] ELSE [hb EXCEPT !.st = "dead"]
Beats(ok) ==
    /\ srv < MaxBeat /\ Sent(ok)
    /\ IF ok THEN Accepts(hb.next) /\ bearer \in valid
             ELSE "lost" \in Faults \/ ~Accepts(hb.next) \/ bearer \notin valid
\* The first heartbeat follows the first catalog, and starts the task.
HandshakeBeat ==
    /\ pc = "call" /\ main.ph = "ok" /\ FirstBeat /\ Write(main.id)
    /\ \E ok \in BOOLEAN : Beats(ok) /\ IF ok THEN ToRead /\ UNCHANGED task ELSE Leave("failed")
    /\ UNCHANGED <<client, local, daemon, seen>>
PeriodicBeat ==
    /\ pc \notin Ended /\ hb.st = "running" /\ \E ok \in BOOLEAN : Beats(ok)
    /\ UNCHANGED <<pc, main, task, client, answered, local, daemon, seen>>
\* Another child of the same enrollment.
OtherBeat ==
    /\ pc \notin Ended /\ Worker /\ srv < MaxBeat /\ srv' = srv + 1
    /\ UNCHANGED <<pc, main, task, client, answered, local, daemon, seen, hb>>
BeatLost ==
    /\ pc = "read" /\ hb.st = "dead" /\ Leave("failed")
    /\ UNCHANGED <<client, answered, local, daemon, seen, beat>>

Loop ==
    \/ Issued \/ ProbeOk \/ ProbeFailed \/ ProbeExpired \/ Renewed
    \/ CallExpired \/ CallFailed \/ Answer \/ HandshakeBeat \/ BeatLost
Input ==
    \/ EndOfInput
    \/ \E i \in Ids : Local(i) \/ Again(i) \/ Cancel(i) \/ \E o \in AllOps : Unattached(i, o) \/ Forward(i, o)
Step ==
    \/ Loop \/ Input \/ DaemonMain \/ DaemonIssue \/ PeriodicBeat \/ OtherBeat
    \/ \E i \in Ids : DaemonTask(i) \/ RelayExpired(i) \/ Relayed(i) \/ Listened(i)
    \/ \E g \in 1 .. MaxIssue : Expire(g)
\* A bridge keeps the arguments it was started with.
Next == Step /\ UNCHANGED setup

Spec == Init /\ [][Next]_vars

----------------------------------------------------------------------------
(* Properties.                                                               *)

LoopType ==
    /\ pc \in {"read", "issue", "probe", "renew", "call"} \cup Ended
    /\ main \in [id : Ids \cup {"none"}, op : AllOps \cup {"none"}, tok : 0 .. issued, ph : Phases]
TaskType ==
    /\ task \in [Ids -> [op : AllOps \cup {"none"}, tok : 0 .. issued, ph : Phases]]
    /\ sent \in [Ids -> Nat] /\ answered \in [Ids -> Nat] /\ cut \subseteq Ids
CredentialType ==
    /\ issued \in 0 .. MaxIssue /\ valid \subseteq 1 .. issued
    /\ bearer \in 0 .. issued /\ att \in 0 .. issued /\ mark \in 0 .. issued
    /\ verified \subseteq 1 .. issued /\ rejected \subseteq 0 .. issued
BeatType == hb \in [st : {"none", "running", "dead"}, next : Nat] /\ srv \in Nat
TypeOK == setup \in Setups /\ LoopType /\ TaskType /\ CredentialType /\ BeatType

\* The credential, the attachment and the marker of a verified connection belong together.
OneConnection == ~Worker => bearer = att /\ mark \in {0, att}

\* Nothing but cao_start reaches the daemon from a pending bridge: every forwarded request carries a
\* credential whose exact surface was proven before.
ForwardedUnderProof ==
    Pending => /\ pc = "call" => main.tok \in verified
               /\ \A i \in Ids : task[i] # NoRequest => task[i].tok \in verified

\* A credential that the daemon refused to the read loop or to a progress task is not used again.
RejectedGivenUp == Pending => bearer \notin rejected

\* A repeated cao_start reports ready without a fresh proof only for a connection that was proven.
DegradedWasProven == degraded \subseteq verified

\* Every request that a pending bridge forwards, its tasks' included, carries a credential proven
\* before; one that was refused to the read loop or to a task is not used again; and a repeated
\* cao_start of any bridge reports ready without a fresh proof only for a connection once proven.
CredentialProven ==
    TypeOK /\ OneConnection /\ ForwardedUnderProof /\ RejectedGivenUp /\ DegradedWasProven

\* The client makes no request that runs as a task: the read loop is alone with the credential.
Alone == Ops \cap TaskOps = {}

\* When the read loop is back, every request it took was answered.
LoopAnswers ==
    Alone /\ pc = "read" => \A i \in Ids : sent[i] > 0 => answered[i] > 0

\* An expired credential never ends a pending bridge: as long as the daemon can be reached, it stays
\* for the next cao_start.
SurvivesExpiry == Alone /\ "lost" \notin Faults /\ pc = "failed" => ~Pending

\* The read loop of a bridge without tasks, back at its input, owes the client no answer, and no
\* expired credential ends it.
EveryRequestAnswered == LoopAnswers /\ SurvivesExpiry

\* A request gets at most one final response per time it was made, whichever of the read loop and the
\* tasks gives it, and none after its cancellation was handled.
AnsweredOnce ==
    \A i \in Ids : /\ answered'[i] <= sent'[i]
                   /\ i \in cut => answered'[i] = answered[i]

\* An attachment that was reported ready is given up only when the daemon accepts it no longer, or
\* when its proof failed.
ReadyHolds ==
    Alone /\ att # 0 /\ att' # att => att \notin valid \/ (pc = "probe" /\ main.ph # "ok")

\* A Worker whose heartbeat failed gets no further result of the read loop.
BeatFailsClosed ==
    pc = "call" /\ hb.st = "dead" /\ main.ph # "sent" => pc' # "read"

\* A request gets one final response per time it was made and none after its cancellation; a read
\* loop without tasks gives up a ready attachment only when the daemon or a failed proof says so;
\* and a Worker whose heartbeat failed gets no further result.
NoSecondAnswer == [][AnsweredOnce /\ ReadyHolds /\ BeatFailsClosed]_vars
=============================================================================
