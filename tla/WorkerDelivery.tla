--------------------------- MODULE WorkerDelivery ---------------------------
(***************************************************************************)
(* The delivery lane of ONE managed Worker runtime: the durable rows of    *)
(* message_deliveries, the launch authority that guards the runtime (its   *)
(* enrollment, one-use launch tickets and short-lived credential), the     *)
(* Dispatcher jobs that claim, launch and settle a row (runtime.py,        *)
(* _claim_delivery and _process_delivery), and the calls of the launched   *)
(* Worker process, of the supervising CAO and of the periodic recovery     *)
(* scans that race with them (service.py).                                 *)
(*                                                                         *)
(* Every action below is one database transaction of the source, or one    *)
(* step of a job that no other actor can see inside.  SQLite serialises    *)
(* transactions (BEGIN IMMEDIATE), so the transaction is the atomic unit;  *)
(* everything between two transactions of one job may interleave.          *)
(***************************************************************************)
EXTENDS Integers, FiniteSets

CONSTANTS
    Disp,         \* owner tokens: one for each Dispatcher instance
    NoOwner,      \* owner_token = ''
    MaxMsgs,      \* bound: messages ever addressed to the runtime
    MaxAttempts,  \* settings.max_dispatch_attempts
    MaxGen,       \* bound: a row at a later generation is not claimed again
    MaxTickets,   \* bound: launch tickets ever issued for the enrollment
    MaxJobs       \* bound: delivery jobs in flight at once

ASSUME DispAssumption == NoOwner \notin Disp
ASSUME BoundAssumption ==
    /\ MaxMsgs \in Nat \ {0}
    /\ MaxAttempts \in Nat \ {0}
    /\ MaxGen \in Nat \ {0}
    /\ MaxTickets \in Nat \ {0}
    /\ MaxJobs \in Nat \ {0}

VARIABLES
    rows,     \* message_deliveries, in message sequence order
    rt,       \* runtime_sessions.state
    enr,      \* worker_enrollments: state, generation, tools discovered
    tick,     \* runtime_enrollment_tickets
    cred,     \* generation of the active runtime_credential, 0 if none
    attempt,  \* state of the latest Attempt together with its Work
    last,     \* metadata.last_dispatch_message_id of a success, 0 otherwise
    up,       \* Dispatcher instances that are running
    jobs,     \* _process_delivery coroutines in flight
    subs,     \* history: times a message was submitted to the provider
    retries   \* history: times an operator resolved it as not delivered

vars == <<rows, rt, enr, tick, cred, attempt, last, up, jobs, subs, retries>>
launch == <<rt, enr, tick, cred>>
history == <<subs, retries>>

Msgs == 1 .. MaxMsgs
Tickets == 1 .. MaxTickets

Kinds == {"bootstrap", "assignment", "instruction", "status_request", "cancel"}
Open == {"queued", "leased", "dispatched", "delivered", "acknowledged"}
RowStates == Open \cup {"none", "handled", "dead"}
Row == [kind : Kinds, st : RowStates, gen : Nat, tries : Nat,
        own : Disp \cup {NoOwner}, pol : {"terminal", "retryable"},
        limited : BOOLEAN]   \* last_error = 'runtime_provider_rate_limited'

RtTerminal == {"stopped", "failed", "missing"}
RtStates == RtTerminal \cup {"starting", "ready", "waiting", "busy"}
EnrLive == {"awaiting_handshake", "ready"}
EnrStates == EnrLive \cup {"failed", "revoked"}
TicketStates == {"none", "pending", "consumed", "revoked", "expired"}
Ticket == [st : TicketStates, gen : Nat, att : BOOLEAN]

\* "waiting" is an open Worker report or captured output (the Work generation
\* is unchanged); "stalled" is a recovery Boundary (the generation advanced).
Active == {"assigned", "accepted", "working"}
AttemptStates == Active \cup {"none", "waiting", "stalled", "canceled"}

Phases == {"claimed", "resolved", "ticketed", "retry", "block", "unreserved",
           "suppressed", "suppressed_revoked", "dispatched", "running",
           "returned", "fenced", "checked", "fail"}
Results == {"none", "success", "unknown", "not_submitted", "rate_limited",
            "private_blocked"}
Job == [d : Disp, m : Msgs, g : Nat, t : 0 .. MaxTickets, ph : Phases,
        res : Results, sub : BOOLEAN, obs : BOOLEAN]

-----------------------------------------------------------------------------
(* The row transitions the handlers share.                                 *)

OfAttempt(m) == rows[m].kind # "bootstrap"

\* runtime_delivery_lane_head_sql: no earlier open row in the runtime's lane.
LaneHead(rs, m) == \A n \in 1 .. m - 1 : rs[n].st \notin Open

\* Mutant of Requeued: the row goes back without a new fencing generation.
RequeuedSameGeneration(r) == [r EXCEPT !.st = "queued", !.own = NoOwner]
Requeued(r) == [r EXCEPT !.st = "queued", !.gen = @ + 1, !.own = NoOwner]
Closed(r, st) == [r EXCEPT !.st = st, !.own = NoOwner]
DeadTerminal(r) == [Closed(r, "dead") EXCEPT !.pol = "terminal"]
\* attempts + 1 together with a new last_error
Spent(r) == [r EXCEPT !.tries = @ + 1, !.limited = FALSE]

\* The rows a claim takes back when their lease ran out: a dispatched row is
\* never one of them.  Mutant: every row that still has an owner.
ExpirableOwned(r) == r.own # NoOwner
Expirable(r) == r.st = "leased"

\* Mutant of Owns: only the generation is compared.
OwnsGeneration(j, st) == rows[j.m].gen = j.g
\* The compare-and-set every Dispatcher update of a row carries.
Owns(j, st) ==
    /\ rows[j.m].st = st
    /\ rows[j.m].gen = j.g
    /\ rows[j.m].own = j.d

SetRow(m, r) == rows' = [rows EXCEPT ![m] = r]

\* _finish_delivery: bounded retry of a row that never left 'leased'.
FinishRow(r) ==
    IF r.tries + 1 >= MaxAttempts
      THEN [Spent(Closed(r, "dead")) EXCEPT !.pol = "retryable"]
      ELSE [Spent(Requeued(r)) EXCEPT !.pol = "terminal"]
FinishDelivery(j) ==
    IF Owns(j, "leased") THEN SetRow(j.m, FinishRow(rows[j.m])) ELSE UNCHANGED rows

\* _defer_provider_rate_limited_delivery (limited) and
\* _defer_pending_launch_ticket_delivery: park without spending a retry.
DeferDelivery(j, limited) ==
    IF Owns(j, "leased")
      THEN SetRow(j.m, [Requeued(rows[j.m]) EXCEPT !.limited = limited])
      ELSE UNCHANGED rows

Step(j, ph) == jobs' = (jobs \ {j}) \cup {[j EXCEPT !.ph = ph]}
End(j) == jobs' = jobs \ {j}

-----------------------------------------------------------------------------
(* Launch authority: the transactions of service.py on the enrollment.     *)

Pending == {t \in Tickets : tick[t].st = "pending"}
ClosePending(st) ==
    [t \in Tickets |-> IF tick[t].st = "pending" THEN [tick[t] EXCEPT !.st = st]
                                                 ELSE tick[t]]

\* Mutant of CanIssue: the runtime state and the running launch are ignored.
CanIssueWhileBusy == enr.st \in EnrLive /\ rt \notin RtTerminal /\ Pending = {}
CanIssue ==
    /\ enr.st \in EnrLive
    /\ rt \in {"starting", "ready", "waiting"}
    /\ Pending = {}
    /\ ~(cred # 0 /\ rt = "starting")

IssueTicket(t, m) ==
    /\ CanIssue
    /\ tick' = [tick EXCEPT ![t] = [st |-> "pending", gen |-> enr.gen + 1,
                                    att |-> OfAttempt(m)]]
    /\ rt' = "busy"
    /\ UNCHANGED <<enr, cred>>

RevokeTicket(t) ==
    /\ IF t \in Pending
         THEN /\ tick' = [tick EXCEPT ![t].st = "revoked"]
              /\ rt' = IF rt = "busy" /\ enr.st \in EnrLive
                         THEN IF enr.st = "ready" THEN "waiting" ELSE "starting"
                         ELSE rt
         ELSE UNCHANGED <<tick, rt>>
    /\ UNCHANGED <<enr, cred>>

ExchangeTicket(t) ==
    /\ rt = "busy"
    /\ t \in Pending
    /\ enr.st \in EnrLive
    /\ tick[t].gen = enr.gen + 1
    /\ cred' = tick[t].gen
    /\ tick' = [tick EXCEPT ![t].st = "consumed"]
    /\ enr' = [st |-> "awaiting_handshake", gen |-> tick[t].gen, disc |-> FALSE]
    /\ UNCHANGED rt

\* Mutant of FailEnrollment: a pending ticket survives the failure.
FailEnrollmentKeepsTicket ==
    IF enr.st \in EnrLive
      THEN /\ enr' = [enr EXCEPT !.st = "failed", !.gen = @ + 1]
           /\ cred' = 0
           /\ rt' = "failed"
           /\ UNCHANGED tick
      ELSE UNCHANGED launch

FailEnrollment ==
    IF enr.st \in EnrLive
      THEN /\ enr' = [enr EXCEPT !.st = "failed", !.gen = @ + 1]
           /\ cred' = 0
           /\ tick' = ClosePending("revoked")
           /\ rt' = "failed"
      ELSE UNCHANGED launch

\* Mutant of RecoverAttempt: a state outside the Attempt's enumeration.
RecoverAttemptToBlocked == attempt' = IF attempt \in Active THEN "blocked" ELSE attempt
\* recover_terminal_worker_attempt: rows stay exactly as recorded.
RecoverAttempt == attempt' = IF attempt \in Active THEN "stalled" ELSE attempt

\* _require_worker_runtime_actor_tx
WorkerActor == cred # 0 /\ cred = enr.gen /\ enr.st \in EnrLive
ReadyWorkerActor == WorkerActor /\ enr.st = "ready" /\ enr.disc
                    /\ rt \in {"ready", "busy", "waiting"}

-----------------------------------------------------------------------------
(* Initial state: a freshly registered managed runtime whose first row is  *)
(* either the enrollment bootstrap or the Assignment that launches it.     *)

NewRow(k) == [kind |-> k, st |-> "queued", gen |-> 1, tries |-> 0,
              own |-> NoOwner, pol |-> "terminal", limited |-> FALSE]
NoRow == [NewRow("bootstrap") EXCEPT !.st = "none"]

Init ==
    /\ \E k \in {"bootstrap", "assignment"} :
         /\ rows = [m \in Msgs |-> IF m = 1 THEN NewRow(k) ELSE NoRow]
         /\ attempt = IF k = "assignment" THEN "assigned" ELSE "none"
    /\ rt = "starting"
    /\ enr = [st |-> "awaiting_handshake", gen |-> 0, disc |-> FALSE]
    /\ tick = [t \in Tickets |-> [st |-> "none", gen |-> 0, att |-> FALSE]]
    /\ cred = 0
    /\ last = 0
    /\ up = Disp
    /\ jobs = {}
    /\ subs = [m \in Msgs |-> 0]
    /\ retries = [m \in Msgs |-> 0]

-----------------------------------------------------------------------------
(* The Dispatcher: _claim_delivery and _process_delivery.                  *)

\* Mutant of Claimable: the lane head is not required.
ClaimableAnywhere(rs, m) ==
    /\ rs[m].st = "queued"
    /\ rs[m].gen <= MaxGen
    /\ rs[m].kind = "assignment" => attempt = "assigned"
    /\ ~(rt = "busy" /\ enr.st = "ready")

\* The rows a claim may lease.  An Assignment needs its Attempt still
\* 'assigned' under active Worker-owned Work at the sealed generation.
Claimable(rs, m) ==
    /\ rs[m].st = "queued"
    /\ rs[m].gen <= MaxGen
    /\ rs[m].kind = "assignment" => attempt = "assigned"
    /\ ~(rt = "busy" /\ enr.st = "ready")
    /\ LaneHead(rs, m)

\* One claim transaction: expired leases (any subset: the clock is free) are
\* requeued, then the head row is leased, if one is due.
ClaimDelivery(d) ==
    /\ d \in up
    /\ \E expired \in SUBSET {m \in Msgs : Expirable(rows[m])} :
         LET rs == [m \in Msgs |-> IF m \in expired THEN Requeued(rows[m])
                                                    ELSE rows[m]]
         IN  \/ /\ expired # {}
                /\ rows' = rs
                /\ UNCHANGED jobs
             \/ \E m \in Msgs :
                  /\ Claimable(rs, m)
                  /\ Cardinality(jobs) < MaxJobs
                  /\ rows' = [rs EXCEPT ![m].st = "leased", ![m].own = d]
                  /\ jobs' = jobs \cup
                       {[d |-> d, m |-> m, g |-> rs[m].gen, t |-> 0,
                         ph |-> "claimed", res |-> "none",
                         sub |-> FALSE, obs |-> FALSE]}
    /\ UNCHANGED <<launch, attempt, last, up, history>>

\* The provider circuit is closed to this launch: park without a retry.
ProviderDefer(j) ==
    /\ j.ph = "claimed"
    /\ DeferDelivery(j, TRUE)
    /\ End(j)
    /\ UNCHANGED <<launch, attempt, last, up, history>>

\* record_assignment_dependency_failure and its guard
DependencyFailure(j) ==
    /\ j.ph = "claimed"
    /\ rows[j.m].kind = "assignment"
    /\ IF Owns(j, "leased") /\ attempt \in Active
         THEN /\ SetRow(j.m, Spent(Closed(rows[j.m], "dead")))
              /\ attempt' = "stalled"
         ELSE UNCHANGED <<rows, attempt>>
    /\ End(j)
    /\ UNCHANGED <<launch, last, up, history>>

\* record_assignment_dependency_ready found the lease or the Work moved on.
DependencyStale(j) ==
    /\ j.ph = "claimed"
    /\ rows[j.m].kind = "assignment"
    /\ ~(Owns(j, "leased") /\ attempt \in Active)
    /\ End(j)
    /\ UNCHANGED <<rows, launch, attempt, last, up, history>>

\* _resolve_runtime: is the pinned runtime usable for this message?
Resolvable(m) ==
    /\ rt \notin RtTerminal
    /\ IF rows[m].kind \in {"bootstrap", "assignment"}
         THEN enr.st \in EnrLive
         ELSE rt # "busy" /\ enr.st = "ready" /\ enr.disc

ResolveRuntime(j) ==
    /\ j.ph = "claimed"
    /\ IF Resolvable(j.m)
         THEN Step(j, "resolved") /\ UNCHANGED rows
         ELSE FinishDelivery(j) /\ End(j)
    /\ UNCHANGED <<launch, attempt, last, up, history>>

\* prepare_launch raised: a bounded pre-start failure; only the last retry
\* goes on to fail the enrollment.
PrepareFailed(j) ==
    /\ j.ph = "resolved"
    /\ FinishDelivery(j)
    /\ IF Owns(j, "leased") /\ rows'[j.m].st = "dead" THEN Step(j, "fail")
                                                      ELSE End(j)
    /\ UNCHANGED <<launch, attempt, last, up, history>>

\* A pending ticket may belong to another live Dispatcher: park behind it.
PendingDefer(j) ==
    /\ j.ph = "resolved"
    /\ Pending # {}
    /\ DeferDelivery(j, FALSE)
    /\ End(j)
    /\ UNCHANGED <<launch, attempt, last, up, history>>

\* issue_runtime_launch_ticket for this job; it does not look at the row.
IssueLaunchTicket(j) ==
    /\ j.ph = "resolved"
    /\ \E t \in Tickets :
         /\ tick[t].st = "none"
         /\ \A u \in 1 .. t - 1 : tick[u].st # "none"
         /\ IssueTicket(t, j.m)
         /\ jobs' = (jobs \ {j}) \cup {[j EXCEPT !.ph = "ticketed", !.t = t]}
    /\ UNCHANGED <<rows, attempt, last, up, history>>

IssueRefused(j) ==
    /\ j.ph = "resolved"
    /\ ~CanIssue
    /\ FinishDelivery(j)
    /\ End(j)
    /\ UNCHANGED <<launch, attempt, last, up, history>>

\* The broker could not start ("retry") or the owner-private policy refused
\* the launch ("block"): the ticket is revoked before the row is settled.
LaunchPreparationFailed(j) ==
    /\ j.ph = "ticketed"
    /\ RevokeTicket(j.t)
    /\ \E ph \in {"retry", "block"} : Step(j, ph)
    /\ UNCHANGED <<rows, attempt, last, up, history>>

RetryUnlaunched(j) ==
    /\ j.ph = "retry"
    /\ FinishDelivery(j)
    /\ End(j)
    /\ UNCHANGED <<launch, attempt, last, up, history>>

BlockUnlaunched(j) ==
    /\ j.ph = "block"
    /\ IF Owns(j, "leased") THEN SetRow(j.m, Spent(DeadTerminal(rows[j.m])))
                            ELSE UNCHANGED rows
    /\ End(j)
    /\ UNCHANGED <<launch, attempt, last, up, history>>

\* The reservation transaction just before the adapter is called.  It checks
\* the launch authority and the row, not the Attempt or the Work.
LaunchIsCurrent(j) ==
    /\ rt = "busy"
    /\ enr.st \in EnrLive
    /\ j.t \in Pending

Reserve(j) ==
    /\ j.ph = "ticketed"
    /\ LaunchIsCurrent(j)
    /\ Owns(j, "leased")
    /\ rows' = [rows EXCEPT ![j.m].st = "dispatched"]
    /\ Step(j, "dispatched")
    /\ UNCHANGED <<launch, attempt, last, up, history>>

ReserveRefused(j) ==
    /\ j.ph = "ticketed"
    /\ ~(LaunchIsCurrent(j) /\ Owns(j, "leased"))
    /\ Step(j, "unreserved")
    /\ UNCHANGED <<rows, launch, attempt, last, up, history>>

\* The row stays leased; its lease runs out.
RevokeUnreserved(j) ==
    /\ j.ph = "unreserved"
    /\ RevokeTicket(j.t)
    /\ End(j)
    /\ UNCHANGED <<rows, attempt, last, up, history>>

\* The provider circuit refused the probe inside the reservation transaction.
ReserveSuppressed(j) ==
    /\ j.ph = "ticketed"
    /\ LaunchIsCurrent(j)
    /\ Step(j, "suppressed")
    /\ UNCHANGED <<rows, launch, attempt, last, up, history>>

RevokeSuppressed(j) ==
    /\ j.ph = "suppressed"
    /\ RevokeTicket(j.t)
    /\ Step(j, "suppressed_revoked")
    /\ UNCHANGED <<rows, attempt, last, up, history>>

DeferSuppressed(j) ==
    /\ j.ph = "suppressed_revoked"
    /\ DeferDelivery(j, TRUE)
    /\ End(j)
    /\ UNCHANGED <<launch, attempt, last, up, history>>

\* begin_worker_output_capture, then the adapter is invoked.  Only a message
\* of an Attempt reserves a capture; losing the fence is a failed dispatch.
BeginCapture(j) ==
    /\ j.ph = "dispatched"
    /\ IF OfAttempt(j.m)
          => Owns(j, "dispatched") /\ j.t \in Pending /\ enr.st \in EnrLive
         THEN Step(j, "running")
         ELSE jobs' = (jobs \ {j}) \cup
                        {[j EXCEPT !.ph = "returned", !.res = "unknown"]}
    /\ UNCHANGED <<rows, launch, attempt, last, up, history>>

\* The enrollment broker exchanges the ticket for the launched process.
ExchangeLaunchTicket(j) ==
    /\ j.ph = "running"
    /\ ExchangeTicket(j.t)
    /\ UNCHANGED <<rows, attempt, last, up, jobs, history>>

\* The broker could not hand the credential over (delivery_failed callback).
BrokerFailed(j) ==
    /\ j.ph = "running"
    /\ tick[j.t].st = "consumed"
    /\ FailEnrollment
    /\ UNCHANGED <<rows, attempt, last, up, jobs, history>>

\* The adapter submits the message to the provider as one turn.
Submit(j) ==
    /\ j.ph = "running"
    /\ ~j.sub
    /\ jobs' = (jobs \ {j}) \cup {[j EXCEPT !.sub = TRUE]}
    /\ subs' = [subs EXCEPT ![j.m] = @ + 1]
    /\ UNCHANGED <<rows, launch, attempt, last, up, retries>>

\* observe_worker_output of a completed turn_end: the provider consumed this
\* exact input.
ObserveTurnEnd(j) ==
    /\ j.ph = "running" /\ j.sub /\ ~j.obs
    /\ OfAttempt(j.m)
    /\ attempt # "canceled"
    /\ enr.st \in EnrLive
    /\ enr.gen \in {tick[j.t].gen - 1, tick[j.t].gen}
    /\ \E t \in Tickets : tick[t].att /\ tick[t].gen = tick[j.t].gen
                         /\ tick[t].st \in {"pending", "consumed"}
    /\ rows[j.m].gen = j.g
    /\ rows[j.m].st \in {"delivered", "acknowledged", "handled"} \/ Owns(j, "dispatched")
    /\ jobs' = (jobs \ {j}) \cup {[j EXCEPT !.obs = TRUE]}
    /\ IF rows[j.m].st = "handled" THEN UNCHANGED rows
                                   ELSE SetRow(j.m, Closed(rows[j.m], "handled"))
    /\ UNCHANGED <<launch, attempt, last, up, history>>

\* The adapter returned or raised.  A private-launch refusal precedes the
\* process; "not submitted" is claimed only before the turn was started.
DispatchReturns(j) ==
    /\ j.ph = "running"
    /\ \E r \in Results \ {"none"} :
         /\ r = "success" => j.sub
         /\ r \in {"not_submitted", "private_blocked"} => ~j.sub
         /\ r = "private_blocked" => tick[j.t].st # "consumed"
         /\ jobs' = (jobs \ {j}) \cup {[j EXCEPT !.ph = "returned", !.res = r]}
    /\ UNCHANGED <<rows, launch, attempt, last, up, history>>

\* finally: the one-use ticket is revoked if it was never exchanged.
FenceTicket(j) ==
    /\ j.ph = "returned"
    /\ RevokeTicket(j.t)
    /\ Step(j, "fenced")
    /\ UNCHANGED <<rows, attempt, last, up, history>>

\* An owner-private refusal inside the adapter: the row is terminally dead.
PrivateBlocked(j) ==
    /\ j.ph = "fenced" /\ j.res = "private_blocked"
    /\ IF Owns(j, "dispatched") THEN SetRow(j.m, Spent(DeadTerminal(rows[j.m])))
                                ELSE UNCHANGED rows
    /\ End(j)
    /\ UNCHANGED <<launch, attempt, last, up, history>>

\* The launch this job's ticket number names completed its handshake.
HandshakeCurrent(j) == enr.st = "ready" /\ enr.disc /\ enr.gen = tick[j.t].gen

CheckHandshake(j) ==
    /\ j.ph = "fenced" /\ j.res = "success"
    /\ IF HandshakeCurrent(j)
         THEN Step(j, "checked")
         ELSE jobs' = (jobs \ {j}) \cup {[j EXCEPT !.res = "unknown"]}
    /\ UNCHANGED <<rows, launch, attempt, last, up, history>>

\* Is some later message of the Attempt still open in the lane?
OpenSuccessor(rs, m) ==
    \E n \in m + 1 .. MaxMsgs : rs[n].kind # "bootstrap" /\ rs[n].st \in Open

\* finalize_capture_tx: an observed completed turn becomes a review Boundary.
FinalizeCapture(rs, a, m, obs) ==
    IF obs /\ a \in Active /\ ~OpenSuccessor(rs, m) THEN "waiting" ELSE a

\* _advance_completed_worker_delivery_lane_tx applies to this completed turn.
Advances(rs, a, m) ==
    /\ rs[m].kind # "bootstrap"
    /\ rs[m].st \in {"delivered", "acknowledged"}
    /\ a \in Active
    /\ OpenSuccessor(rs, m)

AdvanceLane(rs, m) ==
    [rs EXCEPT ![m] = IF @.st = "acknowledged"
                        THEN [Closed(@, "handled") EXCEPT !.pol = "terminal"]
                        ELSE DeadTerminal(@)]

\* _reconcile_completed_worker_turn_tx: a turn that ended without a report.
Stalls(rs, a, m) ==
    /\ rs[m].kind # "bootstrap"
    /\ rs[m].st \in {"delivered", "acknowledged", "handled"}
    /\ a \in Active
    /\ ~OpenSuccessor(rs, m)

ParkUnstarted(rs) ==
    [m \in Msgs |-> IF rs[m].kind # "bootstrap" /\ rs[m].st \in {"queued", "leased"}
                      THEN Closed(rs[m], "dead") ELSE rs[m]]

\* Mutant of SettleTerminalRows: only what was never launched is settled.
SettleUnstartedRows(rs) == ParkUnstarted(rs)

\* _settle_terminal_delivery_rows_tx for a canceled Work
SettleTerminalRows(rs) ==
    [m \in Msgs |->
        IF rs[m].kind = "bootstrap" \/ rs[m].st \notin Open \ {"dispatched"} THEN rs[m]
        ELSE IF rs[m].st = "acknowledged"
               THEN [Closed(rs[m], "handled") EXCEPT !.pol = "terminal"]
               ELSE DeadTerminal(rs[m])]

\* The success transaction may write only while the launch and the row are
\* still the ones this job reserved.
SettleFence(j) ==
    /\ enr.st = "ready" /\ enr.gen = tick[j.t].gen
    /\ rt = "busy"
    /\ rows[j.m].gen = j.g
    /\ \/ Owns(j, "dispatched")
       \/ rows[j.m].st \in {"delivered", "acknowledged", "handled"}

SettleSuccess(j) ==
    /\ j.ph = "checked"
    /\ IF SettleFence(j)
         THEN LET rs == IF rows[j.m].st = "dispatched"
                          THEN [rows EXCEPT ![j.m] = Closed(@, "delivered")]
                          ELSE rows
                  a == FinalizeCapture(rs, attempt, j.m, j.obs)
              IN /\ rt' = "waiting"
                 /\ cred' = IF cred = tick[j.t].gen THEN 0 ELSE cred
                 /\ last' = j.m
                 /\ attempt' = IF Stalls(rs, a, j.m) THEN "stalled" ELSE a
                 /\ rows' = IF Advances(rs, a, j.m) THEN AdvanceLane(rs, j.m)
                            ELSE IF Stalls(rs, a, j.m) THEN ParkUnstarted(rs)
                            ELSE IF a = "canceled" THEN SettleTerminalRows(rs)
                            ELSE rs
         ELSE UNCHANGED <<rows, rt, cred, attempt, last>>
    /\ End(j)
    /\ UNCHANGED <<enr, tick, up, history>>

\* _mark_delivery_unknown: the row is frozen, its owner forgotten.  The failed
\* dispatch was recorded in the runtime's metadata just before (last); only
\* ReconcileCompletedTurns reads it, and the record only disables that.
MarkUnknown(j) ==
    /\ j.ph = "fenced" /\ j.res = "unknown"
    /\ IF Owns(j, "dispatched")
         THEN SetRow(j.m, Spent(Closed(rows[j.m], "dispatched")))
         ELSE UNCHANGED rows
    /\ last' = 0
    /\ Step(j, "fail")
    /\ UNCHANGED <<launch, attempt, up, history>>

\* _mark_delivery_not_submitted; losing the row's fence ends the job.
MarkNotSubmitted(j) ==
    /\ j.ph = "fenced" /\ j.res = "not_submitted"
    /\ IF Owns(j, "dispatched")
         THEN SetRow(j.m, Spent(DeadTerminal(rows[j.m]))) /\ Step(j, "fail")
         ELSE UNCHANGED rows /\ End(j)
    /\ last' = 0
    /\ UNCHANGED <<launch, attempt, up, history>>

\* fail_runtime_enrollment_and_recover_provider_rate_limit: one transaction.
RateLimited(j) ==
    /\ j.ph = "fenced" /\ j.res = "rate_limited"
    /\ last' = 0
    /\ IF /\ ~rows[j.m].limited
          /\ \/ Owns(j, "dispatched")
             \/ /\ rows[j.m].gen = j.g /\ rows[j.m].own = NoOwner
                /\ rows[j.m].st \in {"acknowledged", "handled"}
         THEN /\ LET r == IF rows[j.m].st = "dispatched"
                            THEN Spent(Closed(rows[j.m], "dispatched"))
                            ELSE rows[j.m]
                 IN  SetRow(j.m, [r EXCEPT !.limited = TRUE])
              /\ FailEnrollment
              /\ RecoverAttempt
         ELSE UNCHANGED <<rows, launch, attempt>>
    /\ End(j)
    /\ UNCHANGED <<up, history>>

\* The separate transaction that fences the runtime after a failed dispatch.
FailAndRecover(j) ==
    /\ j.ph = "fail"
    /\ FailEnrollment
    /\ RecoverAttempt
    /\ End(j)
    /\ UNCHANGED <<rows, last, up, history>>

\* A Dispatcher process dies.  Its coroutines are gone; a process it had
\* launched may live on with its credential.
CrashDispatcher(d) ==
    /\ d \in up
    /\ up # {d}
    /\ up' = up \ {d}
    /\ jobs' = {j \in jobs : j.d # d \/ j.ph = "running"}
    /\ UNCHANGED <<rows, launch, attempt, last, history>>

-----------------------------------------------------------------------------
(* The launched Worker process, through its MCP credential.                *)

DiscoverTools ==
    /\ WorkerActor
    /\ ~enr.disc
    /\ enr' = [enr EXCEPT !.disc = TRUE]
    /\ UNCHANGED <<rows, rt, tick, cred, attempt, last, up, jobs, history>>

\* _reactivate_deliveries_tx: exhausted rows are re-armed, unless their
\* Attempt is terminal (a cancel notice always is).
Reactivated(r) ==
    IF /\ r.st = "dead" /\ r.pol = "retryable"
       /\ r.kind \in {"bootstrap", "cancel"} \/ attempt # "canceled"
      THEN [Requeued(r) EXCEPT !.tries = 0, !.pol = "terminal", !.limited = FALSE]
      ELSE r

\* _complete_enrollment_bootstrap_tx
BootstrapHandled(r) ==
    IF r.kind = "bootstrap" /\ r.st \in Open THEN Closed(r, "handled") ELSE r

HeartbeatRuntime ==
    /\ WorkerActor
    /\ enr.disc
    /\ enr' = [enr EXCEPT !.st = "ready"]
    /\ rt' = IF rt = "busy" \/ rt \in RtTerminal THEN rt ELSE "ready"
    /\ rows' = [m \in Msgs |-> Reactivated(BootstrapHandled(rows[m]))]
    /\ UNCHANGED <<tick, cred, attempt, last, up, jobs, history>>

\* acknowledge, one message of the request at a time
Acknowledge(m) ==
    /\ ReadyWorkerActor
    /\ \/ /\ rows[m].st = "dead" /\ OfAttempt(m) /\ attempt = "canceled"
          /\ SetRow(m, Closed(rows[m], "handled"))
          /\ UNCHANGED attempt
       \/ /\ LaneHead(rows, m)
          /\ rows[m].st \in {"queued", "leased", "dispatched", "delivered"}
          /\ SetRow(m, Closed(rows[m], "acknowledged"))
          /\ attempt' = IF rows[m].kind = "assignment" /\ attempt = "assigned"
                          THEN "accepted" ELSE attempt
    /\ UNCHANGED <<launch, last, up, jobs, history>>

MarkMessageHandled(m) ==
    /\ ReadyWorkerActor
    /\ LaneHead(rows, m)
    /\ rows[m].st = "acknowledged"
    /\ rows' = [rows EXCEPT ![m].st = "handled"]
    /\ UNCHANGED <<launch, attempt, last, up, jobs, history>>

\* report: an accepted report consumes the Assignment, the status requests
\* (unless it only carries artifacts) and the head instructions it names.
Report(kind, incorporated) ==
    /\ ReadyWorkerActor
    /\ attempt \in Active
    /\ \A m \in incorporated : rows[m].kind = "instruction"
                               /\ rows[m].st = "acknowledged" /\ LaneHead(rows, m)
    /\ rows' = [m \in Msgs |->
         IF \/ rows[m].kind = "assignment" /\ rows[m].st \in Open
            \/ rows[m].kind = "status_request" /\ kind # "artifact"
               /\ rows[m].st \in Open \cup {"dead"}
            \/ m \in incorporated
           THEN Closed(rows[m], "handled") ELSE rows[m]]
    /\ attempt' = IF kind = "question" THEN "waiting" ELSE "working"
    /\ UNCHANGED <<launch, last, up, jobs, history>>

WorkerCall ==
    \/ DiscoverTools
    \/ HeartbeatRuntime
    \/ \E m \in Msgs : Acknowledge(m)
    \/ \E m \in Msgs : MarkMessageHandled(m)
    \/ \E kind \in {"progress", "artifact", "question"}, s \in SUBSET Msgs :
         Cardinality(s) <= 1 /\ Report(kind, s)

-----------------------------------------------------------------------------
(* The supervising CAO.                                                    *)

\* _message: a new row, queued at generation 1; a terminal runtime refuses.
SendMessage(k) ==
    /\ rt \notin RtTerminal
    /\ \E m \in Msgs :
         /\ rows[m].st = "none"
         /\ \A n \in 1 .. m - 1 : rows[n].st # "none"
         /\ SetRow(m, NewRow(k))

AssignWork ==
    /\ attempt = "none"
    /\ SendMessage("assignment")
    /\ attempt' = "assigned"
    /\ UNCHANGED <<launch, last, up, jobs, history>>

\* A continue/correct disposition of the Worker's open report.
DisposeContinue ==
    /\ attempt = "waiting"
    /\ SendMessage("instruction")
    /\ attempt' = "working"
    /\ UNCHANGED <<launch, last, up, jobs, history>>

RequestStatus ==
    /\ attempt \in Active
    /\ ReadyWorkerActor
    /\ rt \in {"ready", "busy"}
    /\ SendMessage("status_request")
    /\ UNCHANGED <<launch, attempt, last, up, jobs, history>>

\* _cancel_work_tx: a live runtime is sent a notice and every existing row is
\* left alone; otherwise the Attempt's open rows are closed.
CancelWork ==
    /\ attempt \notin {"none", "canceled"}
    /\ attempt' = "canceled"
    /\ IF rt \in RtTerminal
         THEN rows' = [m \in Msgs |-> IF OfAttempt(m) /\ rows[m].st \in Open
                                        THEN Closed(rows[m], "dead") ELSE rows[m]]
         ELSE SendMessage("cancel")
    /\ UNCHANGED <<launch, last, up, jobs, history>>

StopRuntime ==
    /\ rt # "stopped"
    /\ rt' = "stopped"
    /\ cred' = 0
    /\ tick' = ClosePending("revoked")
    /\ enr' = IF enr.st \in EnrLive THEN [enr EXCEPT !.st = "revoked", !.gen = @ + 1]
                                    ELSE enr
    /\ UNCHANGED <<rows, attempt, last, up, jobs, history>>

\* resolve_delivery: an operator settles a dispatched row from evidence.
ResolveDelivery(m, outcome) ==
    /\ rows[m].st = "dispatched"
    /\ LET retry == outcome = "not_delivered"
                    /\ (rows[m].kind = "assignment" => attempt \in Active)
           r == [rows[m] EXCEPT !.limited = FALSE]
       IN  /\ SetRow(m, IF outcome = "delivered" THEN Closed(r, "delivered")
                        ELSE IF retry THEN Requeued(r) ELSE Closed(r, "dead"))
           /\ retries' = IF retry THEN [retries EXCEPT ![m] = @ + 1] ELSE retries
    /\ UNCHANGED <<launch, attempt, last, up, jobs, subs>>

SupervisorCall ==
    \/ AssignWork
    \/ DisposeContinue
    \/ RequestStatus
    \/ CancelWork
    \/ StopRuntime
    \/ \E m \in Msgs, outcome \in {"delivered", "not_delivered", "dead"} :
         ResolveDelivery(m, outcome)

-----------------------------------------------------------------------------
(* The scans of one Dispatcher cycle (run_once).                           *)

\* Mutant of ExpireRuntimeLease: a busy runtime is presumed alive.
ExpireIdleRuntimeLease ==
    /\ rt \notin RtTerminal \cup {"busy"}
    /\ rt' = "missing"
    /\ IF enr.st \in EnrLive
         THEN /\ enr' = [enr EXCEPT !.st = "failed", !.gen = @ + 1]
              /\ cred' = 0
              /\ tick' = ClosePending("expired")
         ELSE UNCHANGED <<enr, cred, tick>>
    /\ RecoverAttempt
    /\ UNCHANGED <<rows, last, up, jobs, history>>

\* expire_runtime_leases: the runtime's lease ran out (the clock is free).
ExpireRuntimeLease ==
    /\ rt \notin RtTerminal
    /\ rt' = "missing"
    /\ IF enr.st \in EnrLive
         THEN /\ enr' = [enr EXCEPT !.st = "failed", !.gen = @ + 1]
              /\ cred' = 0
              /\ tick' = ClosePending("expired")
         ELSE UNCHANGED <<enr, cred, tick>>
    /\ RecoverAttempt
    /\ UNCHANGED <<rows, last, up, jobs, history>>

\* reconcile_completed_worker_turns, from the last successful dispatch
ReconcileCompletedTurns ==
    /\ rt = "waiting" /\ enr.st = "ready" /\ cred = 0
    /\ last # 0
    /\ \/ /\ Advances(rows, attempt, last)
          /\ rows' = AdvanceLane(rows, last)
          /\ UNCHANGED attempt
       \/ /\ Stalls(rows, attempt, last)
          /\ rows' = ParkUnstarted(rows)
          /\ attempt' = "stalled"
    /\ UNCHANGED <<launch, last, up, jobs, history>>

\* reconcile_terminal_headless_delivery_lanes
SettleTerminalLane ==
    /\ rt \in RtTerminal \cup {"waiting"}
    /\ cred = 0
    /\ attempt = "canceled"
    /\ SettleTerminalRows(rows) # rows
    /\ rows' = SettleTerminalRows(rows)
    /\ UNCHANGED <<launch, attempt, last, up, jobs, history>>

\* recover_overdue_unstarted_attempts: an Assignment that was never launched
\* is past the due time of a status request.
RecoverOverdueUnstarted ==
    LET own == {m \in Msgs : OfAttempt(m) /\ rows[m].st # "none"} IN
    /\ attempt = "assigned"
    /\ \A m \in own : rows[m].st = "queued"
    /\ \E m \in own : rows[m].kind = "assignment"
    /\ \E m \in own : rows[m].kind = "status_request"
    /\ enr.st \in EnrLive
    /\ \A t \in Pending : tick[t].att
    /\ \A t \in Tickets : tick[t].att => tick[t].st # "consumed"
    /\ IF rt = "busy" THEN \E t \in Pending : tick[t].gen = enr.gen + 1
                      ELSE rt \notin RtTerminal /\ Pending = {}
    /\ IF cred = 0 THEN FailEnrollment /\ UNCHANGED rows
                   ELSE UNCHANGED launch /\ rows' = ParkUnstarted(rows)
    /\ attempt' = "stalled"
    /\ UNCHANGED <<last, up, jobs, history>>

Scan ==
    \/ ExpireRuntimeLease
    \/ ReconcileCompletedTurns
    \/ SettleTerminalLane
    \/ RecoverOverdueUnstarted

-----------------------------------------------------------------------------

\* One step of a job whose Dispatcher is alive.
PreDispatch(j) ==
    \/ ProviderDefer(j)
    \/ DependencyFailure(j)
    \/ DependencyStale(j)
    \/ ResolveRuntime(j)
    \/ PrepareFailed(j)
    \/ PendingDefer(j)
    \/ IssueLaunchTicket(j)
    \/ IssueRefused(j)
    \/ LaunchPreparationFailed(j)
    \/ RetryUnlaunched(j)
    \/ BlockUnlaunched(j)
    \/ Reserve(j)
    \/ ReserveRefused(j)
    \/ RevokeUnreserved(j)
    \/ ReserveSuppressed(j)
    \/ RevokeSuppressed(j)
    \/ DeferSuppressed(j)

Dispatch(j) ==
    \/ BeginCapture(j)
    \/ ExchangeLaunchTicket(j)
    \/ BrokerFailed(j)
    \/ Submit(j)
    \/ ObserveTurnEnd(j)
    \/ DispatchReturns(j)

PostDispatch(j) ==
    \/ FenceTicket(j)
    \/ PrivateBlocked(j)
    \/ CheckHandshake(j)
    \/ SettleSuccess(j)
    \/ MarkUnknown(j)
    \/ MarkNotSubmitted(j)
    \/ RateLimited(j)
    \/ FailAndRecover(j)

JobStep(j) == j.d \in up /\ (PreDispatch(j) \/ Dispatch(j) \/ PostDispatch(j))

Next ==
    \/ \E d \in Disp : ClaimDelivery(d)
    \/ \E d \in Disp : CrashDispatcher(d)
    \/ \E j \in jobs : JobStep(j)
    \/ WorkerCall
    \/ SupervisorCall
    \/ Scan

Spec == Init /\ [][Next]_vars

-----------------------------------------------------------------------------
(* Properties.                                                             *)

\* Every durable value and every job stays in the domain the schema and the
\* models.py enumerations allow.
TypeOK ==
    /\ rows \in [Msgs -> Row]
    /\ rt \in RtStates
    /\ enr \in [st : EnrStates, gen : Nat, disc : BOOLEAN]
    /\ tick \in [Tickets -> Ticket]
    /\ cred \in Nat
    /\ attempt \in AttemptStates
    /\ last \in 0 .. MaxMsgs
    /\ up \subseteq Disp
    /\ jobs \subseteq Job
    /\ subs \in [Msgs -> Nat]
    /\ retries \in [Msgs -> Nat]

\* A pending launch ticket is the only one, is for the next generation of a
\* live enrollment, and no credential is active beside it.
PendingIsCurrent ==
    \A t \in Pending :
      /\ tick[t].gen = enr.gen + 1
      /\ enr.st \in EnrLive
      /\ cred = 0
      /\ \A u \in Pending : u = t

\* An active credential is the enrollment's own generation and holds the
\* runtime busy.
CredentialIsCurrent == cred # 0 => cred = enr.gen /\ rt = "busy"

\* A generation is consumed by at most one ticket and never reused.
GenerationsConsumedOnce ==
    \A t \in Tickets : tick[t].st = "consumed" =>
      /\ tick[t].gen <= enr.gen
      /\ \A u \in Tickets : tick[u].st = "consumed" /\ tick[u].gen = tick[t].gen => u = t

\* The runtime row and its enrollment die together.
TerminalTogether == rt \in RtTerminal <=> enr.st \notin EnrLive

\* The launch authority of a runtime is never split: whatever order tickets
\* are issued, exchanged, revoked, expired, and the enrollment failed, revoked
\* or timed out, at most one ticket or credential can start or speak for the
\* Worker, and none once the runtime is terminal (issue_runtime_launch_ticket,
\* exchange_runtime_launch_ticket, revoke_runtime_launch_ticket,
\* fail_runtime_enrollment, _stop_runtime_tx, expire_runtime_leases).
AuthorityInv ==
    /\ PendingIsCurrent
    /\ CredentialIsCurrent
    /\ GenerationsConsumedOnce
    /\ TerminalTogether

\* No two jobs ever hold the same fence (message, generation), even after
\* lease expiry, a crash, a re-arm or an operator's retry handed the row to
\* another Dispatcher: the compare-and-set of _finish_delivery and its
\* siblings can then tell every stale job from the current one.
FenceUnique == \A j, k \in jobs : j.m = k.m /\ j.g = k.g => j = k

\* When a message is handed to a new process (the reservation commits), no
\* credential of an earlier launch is active and no other launch is pending:
\* two processes never speak for the runtime at once (_process_delivery).
LaunchExclusive ==
    [][\A m \in Msgs : rows[m].st = "leased" /\ rows'[m].st = "dispatched"
                         => cred = 0 /\ \E t \in Tickets : Pending = {t}]_vars

\* A message reaches the provider at most once for every time an operator
\* said it was not delivered (resolve_delivery): no timeout, crash, lease
\* expiry or recovery scan resubmits a turn whose outcome is unknown.
SubmittedOnce == \A m \in Msgs : subs[m] <= 1 + retries[m]

\* A message that waits for its first offer is never overtaken, although the
\* reservation transaction checks only the row's own lease and not the lane
\* head the claim saw.  A row that was offered before (its generation moved
\* on) can be: a heartbeat may re-arm it behind a claim already made.
NoOvertaking ==
    [][\A m \in Msgs : rows[m].st = "leased" /\ rows'[m].st = "dispatched" =>
         \A n \in 1 .. m - 1 : rows[n].st \in Open => rows[n].gen > 1]_vars

\* What the Worker acknowledged or handled is never offered again: no late
\* result, deferral or scan of the Dispatcher moves such a row back
\* (acknowledge and mark_message_handled race _process_delivery).
NoRegress ==
    [][\A m \in Msgs : rows[m].st \in {"acknowledged", "handled"}
                         => rows'[m].st \in {"acknowledged", "handled", "dead"}]_vars

\* The docstring of fail_runtime_enrollment_and_recover_provider_rate_limit:
\* a typed 429 is atomically fenced, that is, the Dispatcher that still owns
\* the dispatched row leaves no live enrollment behind.
RateLimitFences ==
    [][\A j \in jobs : j.ph = "fenced" /\ j.res = "rate_limited" /\ Owns(j, "dispatched")
                       /\ j \notin jobs' /\ up' = up => enr'.st \notin EnrLive]_vars
=============================================================================
