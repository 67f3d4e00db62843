----------------------------- MODULE WorkerThread -----------------------------
(***************************************************************************)
(* One managed Worker thread (service.py): its lifecycle New, Finish,      *)
(* Resume and Delete, the connection epochs behind it, the admission of a  *)
(* command (instruct, continue, replace) to its lane and the purpose the   *)
(* CAO must have read.  Clients retry requests whose answer was lost, the  *)
(* Dispatcher and the Worker act between any two transactions.             *)
(***************************************************************************)
EXTENDS Integers, FiniteSets

CONSTANTS
    Keys,        \* idempotency keys of the requests
    Ops,         \* bound: the operations the requests of a run ask for
    MaxEpochs,   \* bound: connection epochs
    MaxBound,    \* bound: Works
    MaxAtts,     \* bound: Attempts
    MaxMsgs,     \* bound: deliveries to the Worker
    MaxPurpose,  \* bound: purpose revisions
    Topics,      \* bound: which independent events a run includes
    NoGeneration \* expected_generation left out

\* What the constants may be.
ThreadConstants ==
    /\ {MaxBound, MaxAtts, MaxMsgs} \subseteq Nat /\ {MaxEpochs, MaxPurpose} \subseteq Nat \ {0}
    /\ Ops \subseteq {"new", "instruct", "finish", "resume", "delete", "purpose"}
    /\ Topics \subseteq {"lost", "effect", "boundary", "replace"}
ASSUME ThreadAssumption == ThreadConstants

VARIABLES
    thread,    \* the thread row, the state of its spec and the purpose version
    epochs,    \* connection epochs, each with its runtime and its credential
    works,     \* Works bound to the thread, and their undecided boundary
    atts,      \* Attempts and the epoch each is pinned to
    msgs,      \* deliveries, each with the pending launch ticket of its job
    effect,    \* an effect the Worker started
    reqs,      \* what each request asks, as its client saw the thread
    done,      \* keys with an idempotency record
    took       \* how often each request took effect

threads == <<thread, epochs, works, atts, msgs, effect, reqs, done, took>>

NoEpoch == [st |-> "none", gen |-> 0, conn |-> 0, rt |-> "none", cred |-> FALSE]
\* _create_managed_worker_thread_tx: spec, runtime, enrollment and first epoch.
FirstEpoch == [st |-> "live", gen |-> 1, conn |-> 1, rt |-> "starting", cred |-> FALSE]
NoBound == [st |-> "none", gen |-> 0, bd |-> "none", pv |-> 0]
NoPinned == [st |-> "none", work |-> 0, ep |-> 0]
NoMsg == [st |-> "none", at |-> 0, tk |-> FALSE]
NoReq == [op |-> "none", exp |-> NoGeneration, seen |-> 0]

Running == {"assigned", "accepted", "working"}
EndedStates == {"completed", "canceled"}
Unknown == {"dispatched", "delivered"}

ThreadRows == [st : {"none", "active", "archived", "deleted"}, spec : {"none", "enabled", "stopped", "revoked"},
               gen : Nat, pv : 0 .. MaxPurpose]
EpochRows == [st : {"none", "live", "retired"}, gen : Nat, conn : Nat, cred : BOOLEAN,
              rt : {"none", "starting", "ready", "busy", "waiting", "stopped", "missing"}]
BoundRows == [st : {"none", "active", "completed", "canceled"}, gen : Nat, bd : {"none", "open", "recovery"},
              pv : 0 .. MaxPurpose]
PinnedRows == [st : {"none", "waiting"} \cup Running \cup EndedStates, work : 0 .. MaxBound, ep : 0 .. MaxEpochs]
AssignmentRows == [st : {"none", "queued", "leased", "lapsed", "dead"} \cup Unknown, at : 0 .. MaxAtts, tk : BOOLEAN]
RequestRows == [op : {"none"} \cup Ops, exp : Nat \cup {NoGeneration}, seen : 0 .. MaxPurpose]

ThreadTypeOK ==
    /\ thread \in ThreadRows
    /\ epochs \in [1 .. MaxEpochs -> EpochRows] /\ \A e \in 1 .. MaxEpochs : epochs[e].gen <= thread.gen
    /\ works \in [1 .. MaxBound -> BoundRows] /\ atts \in [1 .. MaxAtts -> PinnedRows]
    /\ msgs \in [1 .. MaxMsgs -> AssignmentRows] /\ effect \in {"none", "started", "done"}
    /\ reqs \in [Keys -> RequestRows] /\ took \in [Keys -> 0 .. 2]
    /\ done \subseteq {k \in Keys : reqs[k].op # "none"}

\* No thread yet, or one that was just created, with its purpose.
ThreadInit ==
    /\ \/ /\ thread = [st |-> "none", gen |-> 0, spec |-> "none", pv |-> 0]
          /\ epochs = [e \in 1 .. MaxEpochs |-> NoEpoch]
       \/ /\ thread = [st |-> "active", gen |-> 1, spec |-> "enabled", pv |-> 1]
          /\ epochs = [e \in 1 .. MaxEpochs |-> IF e = 1 THEN FirstEpoch ELSE NoEpoch]
    /\ works = [w \in 1 .. MaxBound |-> NoBound]
    /\ atts = [a \in 1 .. MaxAtts |-> NoPinned]
    /\ msgs = [m \in 1 .. MaxMsgs |-> NoMsg]
    /\ effect = "none"
    /\ reqs = [k \in Keys |-> NoReq] /\ done = {} /\ took = [k \in Keys |-> 0]

-----------------------------------------------------------------------------
\* Rows of a numbered table are inserted in order.
Unused(table) == {i \in DOMAIN table : table[i].st = "none"}
NextUnused(table) == CHOOSE i \in Unused(table) : \A j \in Unused(table) : i <= j
LiveEpochs == {e \in 1 .. MaxEpochs : epochs[e].st = "live"}
Current == CHOOSE e \in LiveEpochs : TRUE
AttOf(m) == IF msgs[m].at = 0 THEN NoPinned ELSE atts[msgs[m].at]
Latest(w) == CHOOSE a \in 1 .. MaxAtts : /\ atts[a].work = w
                                         /\ \A b \in 1 .. MaxAtts : atts[b].work = w => b <= a

\* _managed_worker_thread_tx: a command sees the thread and its unretired epoch of
\* the same generation, and acts only on an active, enabled one.
ThreadUsable ==
    /\ thread.st = "active" /\ thread.spec = "enabled"
    /\ \E e \in LiveEpochs : epochs[e].gen = thread.gen

\* _bind_ready_worker_runtime_tx: connected with its credential, or never started.
ReadyRoute(e) ==
    /\ ThreadUsable /\ e \in LiveEpochs
    /\ \/ epochs[e].rt \in {"ready", "busy"} /\ epochs[e].cred
       \/ epochs[e].rt \in {"starting", "waiting"}

\* A delivery no job can still submit: queued without owner, or its lease ran out.
Unclaimed(m) == msgs[m].st \in {"queued", "lapsed"}

\* _dead_letter_terminal_worker_deliveries_tx: only deliveries of an ended Attempt.
DeadLettered(table, ended) ==
    [m \in 1 .. MaxMsgs |-> IF Unclaimed(m) /\ msgs[m].at \in ended
                            THEN [table[m] EXCEPT !.st = "dead"] ELSE table[m]]
EndedAtts == {a \in 1 .. MaxAtts : atts[a].st \in EndedStates}

\* _worker_has_execution_owned_attempt_tx.
ExecutionOwned == \E a \in 1 .. MaxAtts : atts[a].st \in Running

\* A delivery whose outcome still fences the lane for Work w.
DeliveryBlocks(m, w) ==
    /\ msgs[m].st \notin {"none", "dead"}
    /\ ~ (/\ AttOf(m).work # w /\ AttOf(m).st \in EndedStates
          /\ epochs[AttOf(m).ep].st = "retired")
    /\ \/ msgs[m].st = "dispatched"
       \/ msgs[m].st \in {"queued", "leased", "lapsed"} /\ ~ (AttOf(m).st \in EndedStates /\ Unclaimed(m))
       \/ msgs[m].st = "delivered" /\ AttOf(m).st \in Running

\* _worker_thread_instruction_blocker_tx, for one Work whose boundary is bd.
Blocked(w, bd) ==
    \/ bd = "recovery"
    \/ ExecutionOwned
    \/ \E m \in 1 .. MaxMsgs : DeliveryBlocks(m, w)
    \/ effect = "started"

\* _advance_worker_thread_connection_tx: the epoch is retired, its authority revoked,
\* its runtime stopped, and the next connection of the same generation starts.
NextConnection(e) ==
    [st |-> "live", gen |-> thread.gen, conn |-> epochs[e].conn + 1, rt |-> "starting", cred |-> FALSE]
Advanced(e) ==
    [epochs EXCEPT ![e] = [@ EXCEPT !.st = "retired", !.rt = "stopped", !.cred = FALSE],
                   ![NextUnused(epochs)] = NextConnection(e)]

\* Pending launch tickets of an epoch's enrollment are revoked with it.
TicketsRevoked(table, es) ==
    [m \in 1 .. MaxMsgs |-> IF AttOf(m).ep \in es THEN [table[m] EXCEPT !.tk = FALSE] ELSE table[m]]

\* The route a command gets: the current one when it is ready, otherwise a new one.
RouteEpochs == IF ReadyRoute(Current) THEN epochs ELSE Advanced(Current)
RouteEp == IF ReadyRoute(Current) THEN Current ELSE NextUnused(epochs)
RoutePossible == ReadyRoute(Current) \/ Unused(epochs) # {}
RouteMsgs(table) == IF ReadyRoute(Current) THEN table ELSE TicketsRevoked(table, {Current})

-----------------------------------------------------------------------------
\* A client reads the thread and sends a request; expected_generation is optional.
Send(k, op) ==
    /\ reqs[k].op = "none" /\ op \in Ops
    /\ \E exp \in {NoGeneration, thread.gen} :
          reqs' = [reqs EXCEPT ![k] = [op |-> op, exp |-> exp, seen |-> thread.pv]]
    /\ UNCHANGED <<thread, epochs, works, atts, msgs, effect, done, took>>

\* A request runs when it arrives, first or again: a recorded key answers from the
\* record (_idempotent_get_tx) and a stale generation is refused.
Admitted(k, op) == reqs[k].op = op /\ k \notin done /\ reqs[k].exp \in {NoGeneration, thread.gen}

Applied(k) == /\ done' = done \cup {k} /\ took' = [took EXCEPT ![k] = IF @ = 2 THEN 2 ELSE @ + 1]

\* new_worker_thread.
NewThread(k) ==
    /\ Admitted(k, "new") /\ thread.st = "none"
    /\ thread' = [st |-> "active", gen |-> 1, spec |-> "enabled", pv |-> 0]
    /\ epochs' = [epochs EXCEPT ![1] = FirstEpoch]
    /\ Applied(k) /\ UNCHANGED <<works, atts, msgs, effect, reqs>>

\* confirm_worker_purpose_tx (required): the current version, and there is one.
PurposeConfirmed(k) == thread.pv > 0 /\ reqs[k].seen = thread.pv

\* set_worker_purpose: compare and swap on the version that was read.
SetPurpose(k) ==
    /\ Admitted(k, "purpose") /\ thread.st \in {"active", "archived"}
    /\ reqs[k].seen = thread.pv /\ thread.pv < MaxPurpose
    /\ thread' = [thread EXCEPT !.pv = @ + 1]
    /\ Applied(k) /\ UNCHANGED <<epochs, works, atts, msgs, effect, reqs>>

\* Later Work replaces a lost route, but never under a running Attempt.
CreateRoute ==
    IF ExecutionOwned THEN epochs' = epochs ELSE RoutePossible /\ epochs' = RouteEpochs

\* _create_work_tx: the Work is bound to the thread's generation and to the purpose.
NewWork == [st |-> "active", gen |-> thread.gen, bd |-> "none", pv |-> thread.pv]

\* instruct_worker_thread: admits create_work, which looks at no blocker and keeps
\* the route of a running Attempt, and records Work, Attempt and Assignment.
Instruct(k) ==
    /\ Admitted(k, "instruct") /\ ThreadUsable /\ PurposeConfirmed(k)
    /\ Unused(works) # {} /\ Unused(atts) # {} /\ Unused(msgs) # {}
    /\ CreateRoute
    /\ LET ep == CHOOSE e \in 1 .. MaxEpochs : epochs'[e].st = "live"
           w == NextUnused(works)
           a == NextUnused(atts)
       IN /\ works' = [works EXCEPT ![w] = NewWork]
          /\ atts' = [atts EXCEPT ![a] = [st |-> "assigned", work |-> w, ep |-> ep]]
          /\ msgs' = [TicketsRevoked(msgs, {e \in 1 .. MaxEpochs : epochs'[e].st = "retired"})
                         EXCEPT ![NextUnused(msgs)] = [st |-> "queued", at |-> a, tk |-> FALSE]]
    /\ Applied(k) /\ UNCHANGED <<thread, effect, reqs>>

\* The binding of a Work to its thread and generation is immutable.
WorkBound(w) == works[w].st = "active" /\ works[w].gen = thread.gen /\ ThreadUsable

\* _retry_attempt_tx: the previous Attempt ends, a new one is pinned to the route.
NewAttempt(w, base) ==
    /\ Unused(atts) # {} /\ Unused(msgs) # {}
    /\ LET a == NextUnused(atts)
       IN /\ atts' = [atts EXCEPT ![Latest(w)].st = IF @ \in EndedStates THEN @ ELSE "canceled",
                                  ![a] = [st |-> "assigned", work |-> w, ep |-> RouteEp]]
          /\ msgs' = [RouteMsgs(base) EXCEPT ![NextUnused(msgs)] = [st |-> "queued", at |-> a, tk |-> FALSE]]

\* A Continue or Correct of an ordinary boundary: on the same route the Attempt is
\* reused and gets an instruction, on a new one it is replaced.
ContinueWork(w) ==
    /\ WorkBound(w) /\ works[w].bd = "open" /\ ~Blocked(w, "none") /\ RoutePossible
    /\ works' = [works EXCEPT ![w].bd = "none"]
    /\ epochs' = RouteEpochs
    /\ IF ReadyRoute(Current) /\ atts[Latest(w)].ep = Current
       THEN /\ Unused(msgs) # {}
            /\ atts' = [atts EXCEPT ![Latest(w)].st = "working"]
            /\ msgs' = [DeadLettered(msgs, EndedAtts)
                           EXCEPT ![NextUnused(msgs)] = [st |-> "queued", at |-> Latest(w), tk |-> FALSE]]
       ELSE NewAttempt(w, DeadLettered(msgs, EndedAtts))
    /\ UNCHANGED <<thread, effect, reqs, done, took>>

\* _task_is_unclaimed_queued_tx: nobody ever claimed the Assignment.
UnclaimedTask(w) ==
    /\ atts[Latest(w)].st = "assigned" /\ effect # "started"
    /\ \A m \in 1 .. MaxMsgs : msgs[m].at = Latest(w) => msgs[m].st = "queued" /\ ~msgs[m].tk

\* _replace_goal_tx of an unclaimed Assignment: the running route is not touched.
ReplaceQueued(w) ==
    /\ "replace" \in Topics /\ WorkBound(w) /\ UnclaimedTask(w) /\ atts[Latest(w)].ep = Current
    /\ Unused(atts) # {} /\ Unused(msgs) # {}
    /\ LET a == NextUnused(atts)
       IN /\ atts' = [atts EXCEPT ![Latest(w)].st = "canceled",
                                  ![a] = [st |-> "assigned", work |-> w, ep |-> Current]]
          /\ msgs' = [DeadLettered(msgs, EndedAtts \cup {Latest(w)})
                         EXCEPT ![NextUnused(msgs)] = [st |-> "queued", at |-> a, tk |-> FALSE]]
    /\ UNCHANGED <<thread, epochs, works, effect, reqs, done, took>>

\* _replace_goal_tx of a settled lane: its open boundary is superseded.
ReplaceGoal(w) ==
    /\ "replace" \in Topics /\ WorkBound(w) /\ ~UnclaimedTask(w)
    /\ ~Blocked(w, works[w].bd) /\ RoutePossible
    /\ works' = [works EXCEPT ![w].bd = "none"]
    /\ epochs' = RouteEpochs /\ NewAttempt(w, DeadLettered(msgs, EndedAtts))
    /\ UNCHANGED <<thread, effect, reqs, done, took>>

-----------------------------------------------------------------------------
\* _revoke_worker_thread_epochs_tx and the retirement of every epoch.
AllRevoked ==
    [e \in 1 .. MaxEpochs |-> IF epochs[e].st = "none" THEN NoEpoch
                              ELSE [epochs[e] EXCEPT !.st = "retired", !.rt = "stopped", !.cred = FALSE]]

\* The Works that end with the thread; malformed rows of others are kept as they are.
Unsettled(w) == works[w].st = "active"

\* Mutant of TerminalWorks: an undecided boundary survives its canceled Work.
TerminalWorksOpen ==
    [w \in 1 .. MaxBound |-> IF Unsettled(w) THEN [works[w] EXCEPT !.st = "canceled"] ELSE works[w]]
\* _terminalize_worker_thread_for_delete_tx: unsettled Works are canceled and their
\* boundaries superseded, their Attempts canceled,
TerminalWorks ==
    [w \in 1 .. MaxBound |-> IF Unsettled(w)
                             THEN [works[w] EXCEPT !.st = "canceled", !.bd = "none"] ELSE works[w]]
TerminalAtts ==
    [a \in 1 .. MaxAtts |-> IF atts[a].st \notin EndedStates \cup {"none"} /\ Unsettled(atts[a].work)
                            THEN [atts[a] EXCEPT !.st = "canceled"] ELSE atts[a]]
\* Mutant of TerminalMsgs: whatever is not delivered is dead.
TerminalMsgsUnknown ==
    [m \in 1 .. MaxMsgs |-> [msgs[m] EXCEPT !.st = IF @ \in {"none", "delivered"} THEN @ ELSE "dead", !.tk = FALSE]]
\* and only deliveries nobody claims are dead; every unknown outcome is kept.
TerminalMsgs ==
    [m \in 1 .. MaxMsgs |-> [msgs[m] EXCEPT !.st = IF Unclaimed(m) THEN "dead" ELSE @, !.tk = FALSE]]

Terminalized ==
    /\ works' = TerminalWorks /\ atts' = TerminalAtts /\ msgs' = TerminalMsgs /\ epochs' = AllRevoked

\* _managed_worker_thread_for_delete_tx: the row is found whatever its epochs look like.
Found == thread.st \in {"active", "archived"}

\* _retire_managed_worker_thread_tx.
Retired == [thread EXCEPT !.st = "archived", !.gen = @ + 1, !.spec = "stopped"]

\* finish_worker_thread.
Finish(k) ==
    /\ Admitted(k, "finish") /\ Found /\ thread.st = "active"
    /\ Terminalized
    /\ thread' = Retired
    /\ Applied(k) /\ UNCHANGED <<effect, reqs>>

\* resume_worker_thread: a new generation with one fresh epoch; no Work or delivery changes.
Resume(k) ==
    /\ Admitted(k, "resume") /\ thread.st = "archived" /\ thread.spec = "stopped"
    /\ LiveEpochs = {} /\ Unused(epochs) # {}
    /\ epochs' = [AllRevoked EXCEPT ![NextUnused(epochs)] =
                     [st |-> "live", gen |-> thread.gen + 1, conn |-> 1, rt |-> "starting", cred |-> FALSE]]
    /\ thread' = [thread EXCEPT !.st = "active", !.gen = @ + 1, !.spec = "enabled"]
    /\ Applied(k) /\ UNCHANGED <<works, atts, msgs, effect, reqs>>

\* _delete_worker_thread_ledger_tx.
LedgerDeleted == [thread EXCEPT !.st = "deleted", !.gen = @ + 1, !.spec = "revoked"]

\* delete_worker_thread: the same end of supervision, then the row is removed; the
\* key's record answers a retry after that.
Delete(k) ==
    /\ Admitted(k, "delete") /\ Found
    /\ Terminalized
    /\ thread' = LedgerDeleted
    /\ Applied(k) /\ UNCHANGED <<effect, reqs>>

-----------------------------------------------------------------------------
\* The Dispatcher.  A delivery is leased only on the unretired epoch of an active thread
\* at the generation its Work is bound to, while that runtime runs no turn.
Lease(m) ==
    LET a == AttOf(m) IN
    /\ msgs[m].st = "queued" /\ ThreadUsable
    /\ epochs[a.ep].st = "live" /\ epochs[a.ep].gen = works[a.work].gen
    /\ works[a.work].gen = thread.gen /\ works[a.work].st = "active" /\ a.st \in Running
    /\ epochs[a.ep].rt # "busy"
    /\ msgs' = [msgs EXCEPT ![m].st = "leased"]
    /\ UNCHANGED <<thread, epochs, works, atts, effect, reqs, done, took>>

\* issue_runtime_launch_ticket: the lineage is checked again, in its own transaction,
\* and the runtime is busy from here on: it has one ticket at a time.
IssueLaunchTicket(m) ==
    LET e == AttOf(m).ep IN
    /\ msgs[m].st = "leased" /\ ~msgs[m].tk
    /\ ThreadUsable /\ epochs[e].st = "live" /\ epochs[e].gen = thread.gen
    /\ epochs[e].rt \in {"starting", "ready", "waiting"}
    /\ msgs' = [msgs EXCEPT ![m].tk = TRUE]
    /\ epochs' = [epochs EXCEPT ![e].rt = "busy"]
    /\ UNCHANGED <<thread, works, atts, effect, reqs, done, took>>

\* The reservation and the submission: the lease and the ticket are still good.
SubmitAssignment(m) ==
    /\ msgs[m].st = "leased" /\ msgs[m].tk /\ epochs[AttOf(m).ep].rt = "busy"
    /\ msgs' = [msgs EXCEPT ![m].st = "dispatched", ![m].tk = FALSE]
    /\ epochs' = [epochs EXCEPT ![AttOf(m).ep].cred = TRUE]
    /\ UNCHANGED <<thread, works, atts, effect, reqs, done, took>>

\* The job ends before it submits: its ticket is revoked, which frees the runtime, and its
\* lease runs out; a later lease starts over.
DeliveryLapses(m) ==
    /\ msgs[m].st = "leased" /\ msgs' = [msgs EXCEPT ![m].st = "lapsed", ![m].tk = FALSE]
    /\ epochs' = IF msgs[m].tk THEN [epochs EXCEPT ![AttOf(m).ep].rt = "waiting"] ELSE epochs
    /\ UNCHANGED <<thread, works, atts, effect, reqs, done, took>>
Requeue(m) ==
    /\ msgs[m].st = "lapsed" /\ AttOf(m).st \in Running /\ epochs[AttOf(m).ep].st = "live"
    /\ msgs' = [msgs EXCEPT ![m].st = "queued"]
    /\ UNCHANGED <<thread, epochs, works, atts, effect, reqs, done, took>>

\* The provider returned: the delivery is settled as delivered, or stays unknown behind
\* a recovery boundary; the Worker's credential ends with its turn.
TurnEnds(m) ==
    LET a == msgs[m].at
        e == AttOf(m).ep
    IN
    /\ msgs[m].st = "dispatched" /\ epochs[e].rt = "busy" /\ epochs[e].st = "live" /\ atts[a].st \in Running
    /\ epochs' = [epochs EXCEPT ![e].rt = "waiting", ![e].cred = FALSE]
    /\ msgs' = [msgs EXCEPT ![m].st = "delivered"]
    /\ \/ atts' = [atts EXCEPT ![a].st = "completed"] /\ works' = [works EXCEPT ![atts[a].work].st = "completed"]
       \/ /\ "boundary" \in Topics
          /\ atts' = [atts EXCEPT ![a].st = "waiting"] /\ works' = [works EXCEPT ![atts[a].work].bd = "open"]
    /\ UNCHANGED <<thread, effect, reqs, done, took>>

OutcomeUnknown(m) ==
    LET a == msgs[m].at
        e == AttOf(m).ep
    IN
    /\ "lost" \in Topics
    /\ msgs[m].st = "dispatched" /\ epochs[e].st = "live" /\ epochs[e].rt \in {"busy", "missing"}
    /\ atts[a].st \in Running
    /\ epochs' = [epochs EXCEPT ![e].rt = "missing", ![e].cred = FALSE]
    /\ atts' = [atts EXCEPT ![a].st = "waiting"]
    /\ works' = [works EXCEPT ![atts[a].work].bd = "recovery"]
    /\ UNCHANGED <<thread, msgs, effect, reqs, done, took>>

\* The connection is lost: its lease expires, and a pending ticket with it.
ConnectionLost(e) ==
    /\ "lost" \in Topics /\ e \in LiveEpochs /\ epochs[e].rt \in {"starting", "ready", "busy", "waiting"}
    /\ epochs' = [epochs EXCEPT ![e].rt = "missing", ![e].cred = FALSE]
    /\ msgs' = [m \in 1 .. MaxMsgs |-> IF AttOf(m).ep = e THEN [msgs[m] EXCEPT !.tk = FALSE] ELSE msgs[m]]
    /\ UNCHANGED <<thread, works, atts, effect, reqs, done, took>>

\* A Worker with a credential starts an effect, or reports its result.
Effect ==
    /\ "effect" \in Topics
    /\ \E e \in 1 .. MaxEpochs : epochs[e].cred
    /\ effect' = IF effect = "started" THEN "done" ELSE "started"
    /\ UNCHANGED <<thread, epochs, works, atts, msgs, reqs, done, took>>

ThreadNext ==
    \/ \E k \in Keys : \/ \E op \in Ops : Send(k, op)
                       \/ NewThread(k) \/ SetPurpose(k) \/ Instruct(k)
                       \/ Finish(k) \/ Resume(k) \/ Delete(k)
    \/ \E w \in 1 .. MaxBound : ContinueWork(w) \/ ReplaceQueued(w) \/ ReplaceGoal(w)
    \/ \E m \in 1 .. MaxMsgs : Lease(m) \/ IssueLaunchTicket(m) \/ SubmitAssignment(m) \/ DeliveryLapses(m)
                               \/ Requeue(m) \/ TurnEnds(m) \/ OutcomeUnknown(m)
    \/ \E e \in 1 .. MaxEpochs : ConnectionLost(e)
    \/ Effect

ThreadSpec == ThreadInit /\ [][ThreadNext]_threads

-----------------------------------------------------------------------------
\* Worker authority is held by at most one route: the unretired epoch of the current
\* generation of an active thread, whatever lost routes, finishes and resumes came before.
OneAuthority ==
    /\ Cardinality(LiveEpochs) <= 1
    /\ \A e \in 1 .. MaxEpochs :
          epochs[e].cred \/ (\E m \in 1 .. MaxMsgs : msgs[m].tk /\ AttOf(m).ep = e) =>
             /\ epochs[e].st = "live" /\ thread.st = "active" /\ epochs[e].gen = thread.gen

\* A running Attempt is never stranded: it is pinned to the current route, so the
\* Dispatcher can still serve it, although later commands replace lost routes.
NoStrandedAttempt ==
    \A a \in 1 .. MaxAtts : atts[a].st \in Running => /\ thread.st = "active"
                                                      /\ epochs[atts[a].ep].st = "live"

\* Once a thread is finished or deleted, nothing of it asks for attention or can start:
\* every Work is settled, no boundary is open, and what is still leased can only lapse.
FinishedIsSettled ==
    thread.st \in {"archived", "deleted"} =>
       /\ \A w \in 1 .. MaxBound : works[w].st # "active" /\ works[w].bd = "none"
       /\ \A a \in 1 .. MaxAtts : atts[a].st \in EndedStates \cup {"none"}
       /\ \A m \in 1 .. MaxMsgs : msgs[m].st # "queued"

\* A delivery that was submitted, or that a job may be submitting, and an unknown effect
\* are never rewritten by New, Instruct, Continue, Replace, Finish, Resume or Delete.
UnknownKept ==
    (thread' # thread \/ done' # done \/ \E e \in 1 .. MaxEpochs : epochs'[e].st # epochs[e].st) =>
      /\ effect' = effect
      /\ \A m \in 1 .. MaxMsgs :
         /\ msgs[m].st = "leased" => msgs'[m].st \in {"leased", "dispatched"}
         /\ msgs[m].st = "dispatched" => msgs'[m].st \in {"dispatched", "delivered"}
         /\ msgs[m].st = "delivered" => msgs'[m].st = "delivered"

\* A Worker is never given an instruction of an earlier generation, of a retired route or
\* of an ended Attempt: after a Resume only new instructions run.
NothingRedispatched ==
    \A m \in 1 .. MaxMsgs : msgs[m].st # "dispatched" /\ msgs'[m].st = "dispatched" =>
       /\ AttOf(m).st \in Running /\ epochs[AttOf(m).ep].st = "live"
       /\ works[AttOf(m).work].gen = thread.gen

\* Each request takes effect at most once, although its client retries it after other
\* clients finished, resumed or deleted the thread.
AppliedOnce == \A k \in Keys : took[k] <= 1

\* No Work starts under a purpose its CAO had not read.
PurposeRead ==
    \A w \in 1 .. MaxBound : works[w].st = "none" /\ works'[w].st = "active" =>
       \E k \in Keys : reqs[k].op = "instruct" /\ reqs[k].seen = works'[w].pv

\* A managed Worker thread in any state: one route holds authority, a request takes effect once
\* however often its client repeats it, no running Attempt is left on a route that was replaced,
\* and a finished or deleted thread has nothing left that asks for attention or can start.
ThreadSettled == ThreadTypeOK /\ OneAuthority /\ AppliedOnce /\ NoStrandedAttempt /\ FinishedIsSettled

\* And in any step: no Work starts under a purpose its CAO had not read, nothing of an earlier
\* generation or a retired route is dispatched again, and thread commands rewrite no delivery or
\* effect of unknown outcome.
ThreadMovesOn == [][PurposeRead /\ NothingRedispatched /\ UnknownKept]_threads
=============================================================================
