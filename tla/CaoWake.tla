------------------------------- MODULE CaoWake -------------------------------
(***************************************************************************)
(* The wakes of one CAO conversation: one attachment, one Work, at most    *)
(* one Boundary.  Messages to the CAO are submitted in order to the queue  *)
(* of the Desktop thread (runtime.py), where they run, end undecided, or   *)
(* are retracted (notification_queue.py); the scans of the Dispatcher      *)
(* re-arm, repair, coalesce, reactivate and settle them (service.py).      *)
(* The Boundary is the obligation, a wake only its transport.              *)
(***************************************************************************)
EXTENDS Integers, Sequences, FiniteSets

CONSTANTS
    Jobs,          \* _process_delivery jobs of the Dispatcher
    MaxMessages,   \* bound: messages to the conversation
    MaxInfos,      \* bound: informational messages
    MaxGen,        \* bound: generations of a delivery
    MaxFaults,     \* bound: Dispatcher crashes, route losses and catalog rollovers
    Topics         \* bound: which independent events a run includes

\* What the constants may be.
WakeConstants ==
    /\ MaxMessages \in Nat \ {0} /\ MaxGen \in Nat \ {0} /\ {MaxInfos, MaxFaults} \subseteq Nat
    /\ Topics \subseteq {"info", "end", "turn", "ack", "activate", "retract"}
ASSUME WakeAssumption == WakeConstants

VARIABLES
    msg,       \* the messages in sequence, each with its delivery row
    prov,      \* what the Desktop thread has of each
    job,       \* the dispatch jobs
    boundary,  \* "none", "open", "decided", "asked" (escalated to the requester)
    turn,      \* the reasoner turn of the Boundary: "none", "leased", "expired"
    done,      \* the Work is completed, canceled or failed
    route,     \* the wake runtime: its number and state
    ready,     \* the connection presented the current catalog
    proof,     \* incomplete-turn observations <<message, generation>>
    scan,      \* the activation candidate being looked at
    retract,   \* the queue retraction under way
    intents,   \* removal requests without a recorded result
    epoch,     \* the Dispatcher's owner token
    faults

wakes == <<msg, prov, job, boundary, turn, done, route, ready, proof, scan, retract, intents, epoch, faults>>

DeliveryStates == {"queued", "leased", "dispatched", "delivered", "acknowledged", "handled", "dead"}
Live == {"queued", "leased", "dispatched", "delivered", "acknowledged"}
IdleJob == [st |-> "idle", m |-> 0, gen |-> 0, tok |-> 0, rt |-> 0]
NoRetract == [st |-> "idle", m |-> 0, gen |-> 0, gone |-> FALSE]
NoScan == [m |-> 0, gen |-> 0, ended |-> FALSE, at |-> "none"]

MsgRows == [kind : {"info", "wake", "repair", "notice", "notice2"}, st : DeliveryStates, gen : 1 .. MaxGen,
            own : Nat, live : BOOLEAN, pol : {"retryable", "terminal"}, sup : BOOLEAN, conf : BOOLEAN, rt : Nat]
ProvRows == [st : {"no", "queued", "running", "ended", "gone"}, subs : Nat]
JobRows == [st : {"idle", "leased", "sending", "accepted", "unknown", "unstarted"},
            m : Nat, gen : Nat, tok : Nat, rt : Nat]
Candidates == [m : Nat, gen : Nat, ended : BOOLEAN, at : {"none", "taken", "seen"}]
Retractions == [st : {"idle", "listed", "asked", "answered"}, m : Nat, gen : Nat, gone : BOOLEAN]

Msgs == 1 .. Len(msg)

WakeTypeOK ==
    /\ msg \in Seq(MsgRows) /\ Len(msg) <= MaxMessages
    /\ \A m \in Msgs : msg[m].st \notin {"leased", "dispatched"} => msg[m].own = 0
    /\ prov \in Seq(ProvRows) /\ Len(prov) = Len(msg)
    /\ job \in [Jobs -> JobRows] /\ scan \in Candidates /\ retract \in Retractions /\ intents \subseteq Msgs
    /\ boundary \in {"none", "open", "decided", "asked"} /\ turn \in {"none", "leased", "expired"}
    /\ turn # "none" => boundary = "open"
    /\ done \in BOOLEAN /\ ready \in BOOLEAN /\ route \in [n : Nat, st : {"waiting", "busy", "missing"}]
    /\ proof \subseteq (1 .. MaxMessages) \X (1 .. MaxGen)
    /\ epoch \in Nat \ {0} /\ faults \in 0 .. MaxFaults

\* A message and its delivery row, bound to the current wake runtime.
NewMessage(k) == [kind |-> k, st |-> "queued", gen |-> 1, own |-> 0, live |-> FALSE,
                  pol |-> "terminal", sup |-> FALSE, conf |-> FALSE, rt |-> route.n]
NotSubmitted == [st |-> "no", subs |-> 0]

WakeInit ==
    /\ \/ msg = <<>> /\ prov = <<>> /\ boundary = "none"
       \* a row of the time when a wake could be handled before its disposition
       \/ /\ msg = <<[kind |-> "wake", st |-> "handled", gen |-> 1, own |-> 0, live |-> FALSE,
                      pol |-> "terminal", sup |-> FALSE, conf |-> TRUE, rt |-> 1]>>
          /\ prov = <<[st |-> "ended", subs |-> 1]>> /\ boundary = "open"
    /\ job = [j \in Jobs |-> IdleJob]
    /\ turn = "none" /\ done = FALSE /\ route = [n |-> 1, st |-> "waiting"] /\ ready = TRUE
    /\ proof = {} /\ scan = NoScan /\ retract = NoRetract /\ intents = {} /\ epoch = 1 /\ faults = 0

Room == Len(msg) < MaxMessages
Obliged == boundary = "open" /\ ~done
IsWake(m) == msg[m].kind \in {"wake", "repair"}
Wakes == {m \in Msgs : IsWake(m)}
\* requester_escalation_delivery_tx: the latest notice of a current escalation.
CurrentNotice(m) == /\ boundary = "asked" /\ ~done /\ msg[m].kind \in {"notice", "notice2"}
                    /\ \A n \in Msgs : msg[n].kind \in {"notice", "notice2"} => n <= m
\* cao_superseding_boundary_sql
Superseding(m) == msg[m].kind = "info" /\ \E n \in Wakes : n > m

-----------------------------------------------------------------------------
(* What the Workers and the requester do *)

Inform ==
    /\ Room /\ ~done /\ boundary = "none" /\ "info" \in Topics
    /\ Cardinality({m \in Msgs : msg[m].kind = "info"}) < MaxInfos
    /\ msg' = Append(msg, NewMessage("info")) /\ prov' = Append(prov, NotSubmitted)
    /\ UNCHANGED <<job, boundary, turn, done, route, ready, proof, scan, retract, intents, epoch, faults>>

RecordBoundary ==
    /\ Room /\ ~done /\ boundary = "none"
    /\ boundary' = "open"
    /\ msg' = Append(msg, NewMessage("wake")) /\ prov' = Append(prov, NotSubmitted)
    /\ UNCHANGED <<job, turn, done, route, ready, proof, scan, retract, intents, epoch, faults>>

EndWork ==
    /\ ~done /\ "end" \in Topics
    /\ done' = TRUE
    /\ UNCHANGED <<msg, prov, job, boundary, turn, route, ready, proof, scan, retract, intents, epoch, faults>>

RequesterReplies ==
    /\ boundary = "asked" /\ ~done
    /\ boundary' = "decided"
    /\ UNCHANGED <<msg, prov, job, turn, done, route, ready, proof, scan, retract, intents, epoch, faults>>

-----------------------------------------------------------------------------
(* What the CAO does in its conversation *)

AcquireTurn ==
    /\ Obliged /\ turn # "leased" /\ "turn" \in Topics
    /\ turn' = "leased"
    /\ UNCHANGED <<msg, prov, job, boundary, done, route, ready, proof, scan, retract, intents, epoch, faults>>

\* The decision settles the notifications the CAO had acknowledged, no others.
Decide ==
    /\ Obliged /\ turn = "leased"
    /\ boundary' = "decided" /\ turn' = "none"
    /\ msg' = [m \in Msgs |-> IF IsWake(m) /\ msg[m].st = "acknowledged"
                              THEN [msg[m] EXCEPT !.st = "handled"] ELSE msg[m]]
    /\ UNCHANGED <<prov, job, done, route, ready, proof, scan, retract, intents, epoch, faults>>

\* The newest owned dispatch of the busy wake runtime.
NewestDispatch(m) ==
    LET owned == {n \in Msgs : msg[n].st = "dispatched" /\ msg[n].own # 0 /\ msg[n].rt = msg[m].rt}
    IN  route.n = msg[m].rt /\ route.st = "busy" /\ owned # {}
        /\ \E n \in owned : (\A o \in owned : o <= n) /\ msg[n].own = msg[m].own

\* An unknown handoff is not available for acknowledgement.
SettledUnknown(m) == msg[m].st = "dispatched" /\ (msg[m].own = 0 \/ (~msg[m].live /\ ~NewestDispatch(m)))

Acknowledge(m) ==
    /\ msg[m].st \in {"queued", "leased", "dispatched", "delivered"}
    /\ ~SettledUnknown(m) /\ "ack" \in Topics
    /\ msg' = [msg EXCEPT ![m].st = "acknowledged", ![m].own = 0, ![m].live = FALSE]
    /\ UNCHANGED <<prov, job, boundary, turn, done, route, ready, proof, scan, retract, intents, epoch, faults>>

\* A late receipt of a dead notification settles it once its Boundary is resolved.
AcknowledgeDead(m) ==
    /\ msg[m].st = "dead"
    /\ IF IsWake(m) THEN boundary \in {"decided", "asked"} ELSE done
    /\ msg' = [msg EXCEPT ![m].st = "handled"]
    /\ UNCHANGED <<prov, job, boundary, turn, done, route, ready, proof, scan, retract, intents, epoch, faults>>

MayHandle(m) == msg[m].st = "acknowledged" /\ (IsWake(m) => boundary \in {"decided", "asked"})

HandleMessage(m) ==
    /\ MayHandle(m)
    /\ msg' = [msg EXCEPT ![m].st = "handled"]
    /\ UNCHANGED <<prov, job, boundary, turn, done, route, ready, proof, scan, retract, intents, epoch, faults>>

LeaseOfTurnExpires ==
    /\ turn = "leased"
    /\ turn' = "expired"
    /\ UNCHANGED <<msg, prov, job, boundary, done, route, ready, proof, scan, retract, intents, epoch, faults>>

-----------------------------------------------------------------------------
(* The Desktop thread: its queue is durable, one turn runs at a time *)

ProviderStarts(m) ==
    /\ prov[m].st = "queued" /\ \A n \in Msgs : prov[n].st # "running"
    /\ prov' = [prov EXCEPT ![m].st = "running"]
    /\ UNCHANGED <<msg, job, boundary, turn, done, route, ready, proof, scan, retract, intents, epoch, faults>>

ProviderEnds(m) ==
    /\ prov[m].st = "running"
    /\ prov' = [prov EXCEPT ![m].st = "ended"]
    /\ UNCHANGED <<msg, job, boundary, turn, done, route, ready, proof, scan, retract, intents, epoch, faults>>

-----------------------------------------------------------------------------
(* Dispatch *)

\* Leases that ran out go back to the queue before every claim.
Requeued == [m \in Msgs |-> IF msg[m].st = "leased" /\ ~msg[m].live
                            THEN [msg[m] EXCEPT !.st = "queued", !.gen = @ + 1, !.own = 0] ELSE msg[m]]

\* cao_notification_dispatch_head_sql
DispatchHead(m) ==
    \A p \in 1 .. m - 1 :
        /\ Requeued[p].st \notin {"queued", "leased"}
        /\ ~(msg[p].st = "dispatched" /\ msg[p].own # 0 /\ (msg[p].live \/ NewestDispatch(p)))

Claim(j, m) ==
    /\ job[j] = IdleJob
    /\ Requeued[m].st = "queued" /\ ready /\ DispatchHead(m)
    /\ \A p \in Msgs : Requeued[p].gen <= MaxGen
    /\ msg' = [Requeued EXCEPT ![m].st = "leased", ![m].own = epoch, ![m].live = TRUE]
    /\ job' = [job EXCEPT ![j] = [st |-> "leased", m |-> m, gen |-> Requeued[m].gen, tok |-> epoch, rt |-> msg[m].rt]]
    /\ UNCHANGED <<prov, boundary, turn, done, route, ready, proof, scan, retract, intents, epoch, faults>>

LeaseRunsOut(m) ==
    /\ msg[m].live
    /\ msg' = [msg EXCEPT ![m].live = FALSE]
    /\ UNCHANGED <<prov, job, boundary, turn, done, route, ready, proof, scan, retract, intents, epoch, faults>>

Holds(j, s) == LET m == job[j].m IN msg[m].st = s /\ msg[m].gen = job[j].gen /\ msg[m].own = job[j].tok
Ends(j) == job' = [job EXCEPT ![j] = IdleJob]
BackToQueue(m) == [msg EXCEPT ![m].st = "queued", ![m].gen = @ + 1, ![m].own = 0, ![m].live = FALSE]

\* The catalog rolled over after the claim: the wake waits for a connection.
Park(j) ==
    /\ job[j].st = "leased" /\ ~ready
    /\ msg[job[j].m].gen < MaxGen
    /\ msg' = IF Holds(j, "leased") THEN BackToQueue(job[j].m) ELSE msg
    /\ Ends(j)
    /\ UNCHANGED <<prov, boundary, turn, done, route, ready, proof, scan, retract, intents, epoch, faults>>

RouteIs(j) == route.n = job[j].rt /\ route.st # "missing"

GaveUp(m) == [msg EXCEPT ![m].st = "dead", ![m].own = 0, ![m].live = FALSE, ![m].pol = "retryable"]

\* No runtime for it: another attempt, or dead when the attempts are used up.
NotPrepared(j) ==
    LET m == job[j].m
    IN  /\ job[j].st = "leased" /\ ready
        /\ \/ ~Holds(j, "leased") /\ UNCHANGED msg
           \/ Holds(j, "leased") /\ msg[m].gen < MaxGen /\ msg' = BackToQueue(m)
           \/ Holds(j, "leased") /\ msg' = GaveUp(m)
        /\ Ends(j)
        /\ UNCHANGED <<prov, boundary, turn, done, route, ready, proof, scan, retract, intents, epoch, faults>>

\* The reservation: dispatched, and the wake runtime busy.
Reserve(j) ==
    /\ job[j].st = "leased" /\ ready
    /\ IF Holds(j, "leased") /\ RouteIs(j)
       THEN /\ msg' = [msg EXCEPT ![job[j].m].st = "dispatched"]
            /\ route' = [route EXCEPT !.st = "busy"]
            /\ job' = [job EXCEPT ![j].st = "sending"]
       ELSE Ends(j) /\ UNCHANGED <<msg, route>>
    /\ UNCHANGED <<prov, boundary, turn, done, ready, proof, scan, retract, intents, epoch, faults>>

\* thread/queue/add: accepted, refused before any input, or the answer is lost.
Submit(j) ==
    LET m == job[j].m
        sent == [prov EXCEPT ![m] = [st |-> "queued", subs |-> @.subs + 1]]
    IN  /\ job[j].st = "sending"
        /\ \/ prov' = sent /\ job' = [job EXCEPT ![j].st = "accepted"]
           \/ prov' = sent /\ job' = [job EXCEPT ![j].st = "unknown"]
           \/ UNCHANGED prov /\ job' = [job EXCEPT ![j].st = "unknown"]
           \/ UNCHANGED prov /\ job' = [job EXCEPT ![j].st = "unstarted"]
        /\ UNCHANGED <<msg, boundary, turn, done, route, ready, proof, scan, retract, intents, epoch, faults>>

\* The acceptance is recorded while the runtime is busy and the row is still
\* this job's, or was acknowledged or handled in between.
SettleAccepted(j) ==
    LET m == job[j].m
        held == Holds(j, "dispatched")
        ok == /\ route.n = job[j].rt /\ route.st = "busy"
              /\ held \/ (msg[m].gen = job[j].gen /\ msg[m].st \in {"delivered", "acknowledged", "handled"})
    IN  /\ job[j].st = "accepted"
        /\ msg' = IF ok /\ held
                  THEN [msg EXCEPT ![m].st = "delivered", ![m].own = 0, ![m].live = FALSE, ![m].conf = TRUE]
                  ELSE msg
        /\ route' = IF ok THEN [route EXCEPT !.st = "waiting"] ELSE route
        /\ Ends(j)
        /\ UNCHANGED <<prov, boundary, turn, done, ready, proof, scan, retract, intents, epoch, faults>>

Freed(j) == IF route.n = job[j].rt /\ route.st = "busy" THEN [route EXCEPT !.st = "waiting"] ELSE route

\* Mutant of SettleUnknown: an unclassified failure is retried.
SettleUnknownRetried(j) ==
    /\ job[j].st = "unknown" /\ msg[job[j].m].gen < MaxGen
    /\ msg' = IF Holds(j, "dispatched") THEN BackToQueue(job[j].m) ELSE msg
    /\ route' = Freed(j)
    /\ Ends(j)
    /\ UNCHANGED <<prov, boundary, turn, done, ready, proof, scan, retract, intents, epoch, faults>>

\* The outcome stays unknown: dispatched, without an owner; only the wake failed.
SettleUnknown(j) ==
    /\ job[j].st = "unknown" \/ (job[j].st = "unstarted" /\ ~(Holds(j, "dispatched") /\ route.n = job[j].rt))
    /\ msg' = IF Holds(j, "dispatched") THEN [msg EXCEPT ![job[j].m].own = 0, ![job[j].m].live = FALSE] ELSE msg
    /\ route' = Freed(j)
    /\ Ends(j)
    /\ UNCHANGED <<prov, boundary, turn, done, ready, proof, scan, retract, intents, epoch, faults>>

\* Provably not submitted: another attempt, without limit.
RetryUnstarted(j) ==
    /\ job[j].st = "unstarted" /\ Holds(j, "dispatched") /\ route.n = job[j].rt /\ msg[job[j].m].gen < MaxGen
    /\ msg' = BackToQueue(job[j].m)
    /\ route' = Freed(j)
    /\ Ends(j)
    /\ UNCHANGED <<prov, boundary, turn, done, ready, proof, scan, retract, intents, epoch, faults>>

-----------------------------------------------------------------------------
(* The scans of the Dispatcher loop *)

\* _supersede_boundary_deliveries_tx
Superseded == [m \in Msgs |-> IF IsWake(m) /\ msg[m].st \in Live
                              THEN [msg[m] EXCEPT !.st = "dead", !.own = 0, !.live = FALSE, !.sup = TRUE]
                              ELSE msg[m]]

HasRepair == \E m \in Msgs : msg[m].kind = "repair"

\* One repair wake per Boundary; when that ends undecided too, the requester.
RepairOrEscalate ==
    /\ Room
    /\ turn' = "none"
    /\ msg' = Append(Superseded, NewMessage(IF HasRepair THEN "notice" ELSE "repair"))
    /\ prov' = Append(prov, NotSubmitted)
    /\ boundary' = IF HasRepair THEN "asked" ELSE boundary

RecoverExpiredTurn ==
    /\ Obliged /\ turn = "expired" /\ ready
    /\ RepairOrEscalate
    /\ UNCHANGED <<job, done, route, ready, proof, scan, retract, intents, epoch, faults>>

\* reconcile_cao_supervision_obligations: no wake left but handled ones.
Rearmable == Obliged /\ ready /\ turn # "leased" /\ \A m \in Wakes : msg[m].st = "handled"

RearmObligation ==
    /\ Rearmable /\ Room
    /\ msg' = Append(msg, NewMessage("wake")) /\ prov' = Append(prov, NotSubmitted)
    /\ UNCHANGED <<job, boundary, turn, done, route, ready, proof, scan, retract, intents, epoch, faults>>

CoalesceProgress(m) ==
    /\ msg[m].st \in {"queued", "acknowledged"} /\ Superseding(m)
    /\ msg' = [msg EXCEPT ![m].st = "dead", ![m].pol = "terminal", ![m].sup = TRUE]
    /\ UNCHANGED <<prov, job, boundary, turn, done, route, ready, proof, scan, retract, intents, epoch, faults>>

\* Terminal Work: acknowledged wakes are handled, the others superseded, but an
\* unknown dispatch is left alone.
SettleTerminalWakes ==
    /\ done /\ \E m \in Msgs : msg[m].st \in Live \ {"dispatched"}
    /\ msg' = [m \in Msgs |->
                CASE msg[m].st = "acknowledged" -> [msg[m] EXCEPT !.st = "handled"]
                  [] msg[m].st \in {"queued", "leased", "delivered"} ->
                        [msg[m] EXCEPT !.st = "dead", !.own = 0, !.live = FALSE, !.pol = "terminal", !.sup = TRUE]
                  [] OTHER -> msg[m]]
    /\ UNCHANGED <<prov, job, boundary, turn, done, route, ready, proof, scan, retract, intents, epoch, faults>>

\* pending_cao_supervision_activations
ActivationCandidate(m) ==
    /\ scan = NoScan /\ ready /\ route.st # "missing" /\ "activate" \in Topics
    /\ msg[m].st \in {"delivered", "acknowledged"}
    /\ scan' = [m |-> m, gen |-> msg[m].gen, ended |-> FALSE, at |-> "taken"]
    /\ UNCHANGED <<msg, prov, job, boundary, turn, done, route, ready, proof, retract, intents, epoch, faults>>

\* activate_desktop_cao_thread: still queued (a cold thread is resumed), running,
\* nothing known, or a turn of exactly this message that has ended.
ObserveThread ==
    /\ scan # NoScan /\ scan.at = "taken"
    /\ scan' = [scan EXCEPT !.at = "seen", !.ended = prov[scan.m].st = "ended"]
    /\ UNCHANGED <<msg, prov, job, boundary, turn, done, route, ready, proof, retract, intents, epoch, faults>>

Latest(m) == \A n \in Wakes : n <= m

\* What the second identical proof does.
RecoverIncomplete(m) ==
    IF IsWake(m) THEN
        IF Latest(m) THEN RepairOrEscalate ELSE UNCHANGED <<msg, prov, boundary, turn>>
    ELSE
        /\ msg[m].kind = "notice" => Room
        /\ LET closed == [msg EXCEPT ![m].st = "dead", ![m].pol = "terminal"]
           IN  IF msg[m].kind = "notice2" THEN msg' = closed /\ UNCHANGED prov
               ELSE msg' = Append(closed, NewMessage("notice2")) /\ prov' = Append(prov, NotSubmitted)
        /\ UNCHANGED <<boundary, turn>>

\* Mutant of ReconcileIncomplete: the terminal proof is forgotten.
ReconcileIncompleteForgets ==
    /\ scan # NoScan /\ scan.at = "seen"
    /\ scan' = NoScan
    /\ UNCHANGED <<msg, prov, job, boundary, turn, done, route, ready, proof, retract, intents, epoch, faults>>

\* reconcile_incomplete_cao_provider_turn: the first proof is recorded, the
\* second acts; a live turn, another generation or a decided Boundary stop it.
ReconcileIncomplete ==
    LET m == scan.m
        due == /\ scan.ended /\ ready /\ route.st # "missing"
               /\ msg[m].gen = scan.gen /\ msg[m].st \in {"delivered", "acknowledged"}
               /\ (IsWake(m) /\ Obliged /\ turn # "leased") \/ CurrentNotice(m)
        seen == <<m, scan.gen>>
    IN  /\ scan # NoScan /\ scan.at = "seen"
        /\ scan' = NoScan
        /\ IF ~due THEN UNCHANGED <<msg, prov, boundary, turn, proof>>
           ELSE IF seen \notin proof THEN proof' = proof \cup {seen} /\ UNCHANGED <<msg, prov, boundary, turn>>
           ELSE RecoverIncomplete(m) /\ UNCHANGED proof
        /\ UNCHANGED <<job, done, route, ready, retract, intents, epoch, faults>>

-----------------------------------------------------------------------------
(* Retraction of obsolete notifications from the provider's queue *)

\* obsolete_queue_notifications
Obsolete(m) ==
    /\ msg[m].conf /\ msg[m].rt = route.n
    /\ \/ msg[m].st = "handled"
       \/ msg[m].st = "dead" /\ msg[m].pol = "terminal"
       \/ msg[m].st \in {"delivered", "acknowledged"} /\ Superseding(m)

ListQueue(m) ==
    /\ retract = NoRetract /\ Obsolete(m) /\ prov[m].st = "queued" /\ "retract" \in Topics
    /\ retract' = [st |-> "listed", m |-> m, gen |-> msg[m].gen, gone |-> FALSE]
    /\ UNCHANGED <<msg, prov, job, boundary, turn, done, route, ready, proof, scan, intents, epoch, faults>>

\* authorize, then the durable intent.
RequestRemoval ==
    /\ retract.st = "listed"
    /\ IF Obsolete(retract.m) /\ msg[retract.m].gen = retract.gen
       THEN retract' = [retract EXCEPT !.st = "asked"] /\ intents' = intents \cup {retract.m}
       ELSE retract' = NoRetract /\ UNCHANGED intents
    /\ UNCHANGED <<msg, prov, job, boundary, turn, done, route, ready, proof, scan, epoch, faults>>

\* thread/queue/delete is atomic with consumption.  The answer may be lost.
DeleteQueued ==
    LET m == retract.m
        gone == prov[m].st = "queued"
    IN  /\ retract.st = "asked"
        /\ prov' = IF gone THEN [prov EXCEPT ![m].st = "gone"] ELSE prov
        /\ \/ retract' = [retract EXCEPT !.st = "answered", !.gone = gone]
           \/ retract' = NoRetract
        /\ UNCHANGED <<msg, job, boundary, turn, done, route, ready, proof, scan, intents, epoch, faults>>

\* Only a delivered or acknowledged informational wake changes state.
RecordRemoval ==
    LET m == retract.m
        closes == /\ retract.gone /\ msg[m].gen = retract.gen
                  /\ msg[m].st \in {"delivered", "acknowledged"} /\ Superseding(m)
    IN  /\ retract.st = "answered"
        /\ intents' = intents \ {m} /\ retract' = NoRetract
        /\ msg' = IF closes THEN [msg EXCEPT ![m].st = "dead", ![m].pol = "terminal", ![m].sup = TRUE] ELSE msg
        /\ UNCHANGED <<prov, job, boundary, turn, done, route, ready, proof, scan, epoch, faults>>

-----------------------------------------------------------------------------
(* Wake routes, connections and crashes *)

\* _reactivate_cao_supervision_deliveries_tx: the earliest wake that died in
\* transport, when nothing else is under way for the Boundary.
Reactivatable(m) ==
    LET failed(n) == msg[n].st = "dead" /\ msg[n].pol = "retryable" /\ ~msg[n].sup
    IN  /\ failed(m)
        /\ \/ /\ IsWake(m) /\ Obliged /\ turn # "leased"
              /\ \A n \in Wakes : msg[n].st \notin Live /\ (failed(n) => m <= n)
           \/ CurrentNotice(m)

Reactivated(rows, n) ==
    [m \in Msgs |-> IF Reactivatable(m) /\ rows[m].gen < MaxGen
                    THEN [rows[m] EXCEPT !.st = "queued", !.gen = @ + 1, !.rt = n, !.pol = "terminal"]
                    ELSE rows[m]]

\* Queued deliveries move to the new wake runtime.
Rebound(n) == [m \in Msgs |-> IF msg[m].st = "queued" /\ msg[m].rt # n
                              THEN [msg[m] EXCEPT !.rt = n, !.gen = @ + 1] ELSE msg[m]]

\* The wake runtime's lease ran out, or it stopped: a new one takes its place.
ReplaceRoute ==
    /\ route.st = "missing"
    /\ \A m \in Msgs : msg[m].st = "queued" => msg[m].gen < MaxGen
    /\ route' = [n |-> route.n + 1, st |-> "waiting"]
    /\ msg' = Reactivated(Rebound(route.n + 1), route.n + 1)
    /\ UNCHANGED <<prov, job, boundary, turn, done, ready, proof, scan, retract, intents, epoch, faults>>

\* A leased row is queued again by the claim scan and then moved by the route scan.
RebindQueued ==
    /\ route.st # "missing" /\ \E m \in Msgs : msg[m].st = "queued" /\ msg[m].rt # route.n
    /\ \A m \in Msgs : msg[m].st = "queued" => msg[m].gen < MaxGen
    /\ msg' = Rebound(route.n)
    /\ UNCHANGED <<prov, job, boundary, turn, done, route, ready, proof, scan, retract, intents, epoch, faults>>

RouteLost ==
    /\ route.st # "missing" /\ faults < MaxFaults
    /\ route' = [route EXCEPT !.st = "missing"] /\ faults' = faults + 1
    /\ UNCHANGED <<msg, prov, job, boundary, turn, done, ready, proof, scan, retract, intents, epoch>>

CatalogRollover ==
    /\ ready /\ faults < MaxFaults
    /\ ready' = FALSE /\ faults' = faults + 1
    /\ UNCHANGED <<msg, prov, job, boundary, turn, done, route, proof, scan, retract, intents, epoch>>

\* A bridge presents the current catalog; the attach reactivates failed wakes.
Reconnect ==
    /\ ~ready /\ route.st # "missing"
    /\ ready' = TRUE
    /\ msg' = Reactivated(msg, route.n)
    /\ UNCHANGED <<prov, job, boundary, turn, done, route, proof, scan, retract, intents, epoch, faults>>

\* The Dispatcher dies with its jobs; its successor has another owner token.
Crash ==
    /\ faults < MaxFaults
    /\ epoch' = epoch + 1 /\ faults' = faults + 1
    /\ job' = [j \in Jobs |-> IdleJob]
    /\ scan' = NoScan /\ retract' = NoRetract
    /\ UNCHANGED <<msg, prov, boundary, turn, done, route, ready, proof, intents>>

-----------------------------------------------------------------------------
CaoActs ==
    \/ AcquireTurn \/ Decide \/ LeaseOfTurnExpires
    \/ \E m \in Msgs : Acknowledge(m) \/ AcknowledgeDead(m) \/ HandleMessage(m)

Environment ==
    \/ Inform \/ RecordBoundary \/ EndWork \/ RequesterReplies
    \/ RouteLost \/ CatalogRollover \/ Reconnect \/ Crash
    \/ \E m \in Msgs : ProviderStarts(m) \/ ProviderEnds(m) \/ LeaseRunsOut(m)

JobStep(j) ==
    \/ Park(j) \/ NotPrepared(j) \/ Reserve(j) \/ Submit(j)
    \/ SettleAccepted(j) \/ SettleUnknown(j) \/ RetryUnstarted(j)

Scans ==
    \/ RecoverExpiredTurn \/ RearmObligation \/ SettleTerminalWakes \/ ReplaceRoute \/ RebindQueued
    \/ ObserveThread \/ ReconcileIncomplete \/ RequestRemoval \/ DeleteQueued \/ RecordRemoval
    \/ \E m \in Msgs : CoalesceProgress(m) \/ ActivationCandidate(m) \/ ListQueue(m)

WakeNext ==
    \/ CaoActs
    \/ Environment
    \/ Scans
    \/ \E j \in Jobs : JobStep(j)
    \/ \E j \in Jobs, m \in Msgs : Claim(j, m)

WakeSpec == WakeInit /\ [][WakeNext]_wakes

-----------------------------------------------------------------------------
(* Properties *)

\* An accepted or unknown wake is never submitted to the conversation again:
\* not by a retry, a replaced route, a reactivation or a restarted Dispatcher.
WakeSubmittedOnce == \A m \in Msgs : prov[m].subs <= 1

\* An open Boundary is never forgotten: it has a wake under way, a decision
\* turn, a wake that died in transport and can be reactivated, or a scan that
\* re-arms it.
ObligationKept ==
    Obliged => \/ turn # "none"
               \/ \E m \in Wakes : msg[m].st \in Live
               \/ \E m \in Wakes : msg[m].st = "dead" /\ msg[m].pol = "retryable" /\ ~msg[m].sup
               \/ \A m \in Wakes : msg[m].st = "handled"

\* The CAO is never woken twice at once for one Boundary.
OneLiveWake == Obliged => \A m, n \in Wakes : msg[m].st \in Live /\ msg[n].st \in Live => m = n

\* Messages reach the conversation in order: while one is being submitted, no earlier one
\* waits for its first offer or is, under its lease, being offered for the first time.  (One
\* that provably did not start is offered again, and then later ones may have passed it.)
WakesInOrder ==
    \A j \in Jobs : job[j].st = "sending" /\ Holds(j, "dispatched") =>
        \A p \in 1 .. job[j].m - 1 :
            msg[p].gen = 1 => ~(msg[p].st \in {"queued", "leased"} \/ (msg[p].st = "dispatched" /\ msg[p].live))

\* Repair and escalation answer a turn that really ended: no repair wake is
\* sent while the wake it replaces is still running in the conversation.
RepairAfterEnd ==
    \A m \in Msgs : Len(msg') > Len(msg) /\ msg'[Len(msg')].kind = "repair" /\ scan # NoScan /\ scan' = NoScan
                     /\ m = scan.m => prov[m].st # "running"

\* A deletion the provider performed stays visible: it is recorded on the
\* message or its intent is unsettled, whatever answer was lost.
RemovalVisible ==
    \A m \in Msgs : prov[m].st = "gone" => m \in intents \/ msg[m].st \in {"handled", "dead"}

\* The wakes of a conversation in any state: none is submitted twice or out of order, an open
\* Boundary always has one wake, a turn or a scan that serves it, never two wakes, and a removal
\* from the provider's queue stays visible.
WakesKept ==
    WakeTypeOK /\ WakeSubmittedOnce /\ WakesInOrder /\ ObligationKept /\ OneLiveWake /\ RemovalVisible

\* A wake whose provider turn ended with the Boundary undecided is followed up:
\* by a repair wake, the requester, a decision turn, or not before the bridge
\* is connected with the current catalog (EndedUndecided leads to FollowedUp).
EndedUndecided(m) ==
    m \in Wakes /\ Latest(m) /\ msg[m].st = "delivered" /\ prov[m].st = "ended" /\ Obliged
FollowedUp(m) ==
    m \notin Msgs \/ ~Obliged \/ turn = "leased" \/ ~ready \/ ~Latest(m) \/ msg[m].st # "delivered"
=============================================================================
