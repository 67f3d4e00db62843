----------------------------- MODULE Supervision -----------------------------
(***************************************************************************)
(* The supervision of ONE Work item (service.py): its Boundaries, the      *)
(* leased reasoner turns in which the supervising CAO decides them, the    *)
(* dispositions, the WAIT_USER question to the requester and its two-step  *)
(* reply, reviews and requester decisions, pause and resume, retries, goal *)
(* replacement, cancellation, and the recovery of expired or incomplete    *)
(* CAO turns.                                                              *)
(*                                                                         *)
(* Every action is one database transaction.  An operation that raises, in *)
(* the service or in a trigger of database.py, rolls its transaction back: *)
(* it is an action that is not enabled.                                    *)
(*                                                                         *)
(* Left out: hand-over to another Worker, interrupting Works, Worker       *)
(* thread lifecycle, and replays under an idempotency key (no effect).     *)
(***************************************************************************)
EXTENDS Integers, FiniteSets

CONSTANTS
    MaxB,       \* bound: Boundaries ever recorded for the Work
    MaxGen,     \* bound: no operation advances the Work past this generation
    SplitReply  \* whether the two transactions of one reply() are told apart

ASSUME SupervisionBounds ==
    MaxB \in Nat \ {0} /\ MaxGen \in Nat \ {0} /\ SplitReply \in BOOLEAN

VARIABLES
    work,    \* work_items: state, attention_owner, generation, WAIT_USER pointer
    att,     \* the latest Attempt: attempt_number and state
    rt,      \* whether the runtime of that Attempt is usable
    bnd,     \* boundaries, in the order they were recorded
    turn,    \* the leased reasoner_turn of each Boundary, if it has one
    reply    \* one reply() between its two transactions: what the first one read

vars == <<work, att, rt, bnd, turn, reply>>

Bnds == 1 .. MaxB
Gens == 1 .. MaxGen

Terminal == {"completed", "canceled"}
WorkStates == Terminal \cup {"active", "waiting_supervisor", "waiting_review",
                             "waiting_user", "user_needed", "suspended"}
Owners == {"worker", "cao", "user", "none"}
Active == {"assigned", "working"}    \* 'accepted' counts as working
AttStates == Active \cup {"waiting_supervisor", "input_required", "submitted",
                          "completed", "suspended", "canceled"}

\* "failure" is a recovery Boundary whose logical Worker can be continued,
\* "reconcile" one that can only go to the requester.
Recovery == {"failure", "reconcile"}
Claims == {"completion", "worker_output"}
BndKinds == Recovery \cup Claims \cup {"question", "directive", "rejected", "retry_request"}

\* "answered" is a wait_user disposition with a boundary_continuation; the
\* other dispositions are told apart by what they did to the Work.
BndStates == {"none", "open", "disposed", "wait_user", "answered", "superseded"}
Decisions == {"correct", "pause", "wait_user", "accept", "cancel", "retry"}
Boundary == [kind : BndKinds, st : BndStates, gen : Gens, att : Nat,
             wakes : Nat,                          \* recovery messages sent
             review : {"none", "ok", "needs_work"}]
Absent == [kind |-> "question", st |-> "none", gen |-> 1, att |-> 0,
           wakes |-> 0, review |-> "none"]
NoReply == [b |-> 0, g |-> 0]

-----------------------------------------------------------------------------
(* What the transactions read.                                             *)

Open(b) == bnd[b].st = "open"
Current(b) == Open(b) /\ bnd[b].gen = work.gen
Unresolved == {b \in Bnds : Open(b)}
Leased(b) == turn[b] # "none"
NoLiveTurn == \A b \in Bnds : turn[b] # "live"

\* _worker_thread_instruction_blocker_tx: an open recovery Boundary of the
\* Work, or an Attempt that still executes.
Blocked ==
    \/ \E b \in Unresolved : bnd[b].kind \in Recovery
    \/ att.st \in Active

\* recovery_action as _backfill_managed_worker_recovery_actions re-derives it
\* at every decision: executable only while the Work waits for its supervisor.
Executable(b) ==
    /\ bnd[b].kind = "failure"
    /\ work.st = "waiting_supervisor"
    /\ att.st = "waiting_supervisor"

\* The dispositions _dispose_boundary_tx allows for a Boundary: its recovery
\* action, its kind and its review decide ('continue' needs what 'correct'
\* needs and no review; 'fail' is always refused).
Permitted(b) ==
    (CASE bnd[b].kind \in Recovery ->
            IF Executable(b) THEN {"correct", "pause", "wait_user"} ELSE {"wait_user"}
       [] bnd[b].kind = "directive" -> {"correct", "pause"}
       [] bnd[b].kind = "completion" \/ bnd[b].review = "ok" ->
            {"correct", "pause", "wait_user", "retry", "cancel", "accept"}
       [] OTHER -> {"correct", "pause", "wait_user", "retry", "cancel"})
    \cap (CASE bnd[b].review = "none" -> Decisions
            [] bnd[b].review = "ok" -> {"accept"}
            [] bnd[b].review = "needs_work" -> {"correct", "retry", "pause", "wait_user"})

-----------------------------------------------------------------------------
(* What the transactions write.                                            *)

\* _record_boundary_tx: the next Boundary, for the latest Attempt, unless the
\* Work is paused.
NextB == CHOOSE b \in Bnds : bnd[b].st = "none" /\ \A c \in 1 .. b - 1 : bnd[c].st # "none"
CanRecord == work.st # "suspended" /\ bnd[MaxB].st = "none"
Recorded(kind, gen) ==
    [bnd EXCEPT ![NextB] = [Absent EXCEPT !.kind = kind, !.st = "open",
                                          !.gen = gen, !.att = att.n]]

Disposed(b, st) == [bnd EXCEPT ![b].st = st]
Supersede(bs, S) ==
    [b \in Bnds |-> IF b \in S THEN [bs[b] EXCEPT !.st = "superseded"] ELSE bs[b]]

\* Mutant of Fenced: the decision leases of the old generation survive.
FencedNever == turn
\* _fence_reasoner_turns_tx: every leased turn of the Work is abandoned.
Fenced == [b \in Bnds |-> "none"]

SetWork(st, own) == work' = [work EXCEPT !.st = st, !.own = own]

\* _current_user_needed_boundary_tx: a Work in user_needed leaves it only when
\* no Boundary of its generation (bs: after this decision) is unresolved.
WaitConsumable(bs) ==
    work.ptr # 0 => \A c \in Bnds : ~(bs[c].st = "open" /\ bs[c].gen = work.gen)
\* _consume_user_needed_boundary_tx, for the Boundaries.
Answered(bs) ==
    IF work.ptr = 0 THEN bs ELSE [bs EXCEPT ![work.ptr].st = "answered"]

\* _retry_attempt_tx (and the same part of _replace_goal_tx): a new Attempt on
\* a usable route, in a new generation, with every older decision lease fenced.
\* It answers the open requester question, and supersedes no other Boundary.
NewAttempt(bs) ==
    /\ work.gen < MaxGen
    /\ WaitConsumable(bs)
    /\ bnd' = Answered(bs)
    /\ work' = [st |-> "active", own |-> "worker", gen |-> work.gen + 1, ptr |-> 0]
    /\ att' = [n |-> att.n + 1, st |-> "assigned"]
    /\ rt' = "live"
    /\ turn' = Fenced

\* The reuse_current admission: the same Attempt goes on with an Instruction.
\* The trigger work_items_user_needed_contract_update aborts it when the Work
\* still points at a requester question.
ReuseAttempt(bs) ==
    /\ rt = "live"
    /\ work.ptr = 0
    /\ bnd' = bs
    /\ att' = [att EXCEPT !.st = "working"]
    /\ SetWork("active", "worker")
    /\ UNCHANGED rt

\* Mutant of AskRequester: a question is replaced by a later one, as without
\* the trigger work_items_user_needed_boundary_replace_update.
AskRequesterAgain(b) ==
    /\ bnd' = Disposed(b, "wait_user")
    /\ att' = [att EXCEPT !.st = "input_required"]
    /\ work' = [work EXCEPT !.st = "user_needed", !.own = "user", !.ptr = b]
\* The wait_user disposition of a CAO, and _escalate_supervision_tx.
AskRequester(b) ==
    /\ work.ptr = 0
    /\ bnd' = Disposed(b, "wait_user")
    /\ att' = [att EXCEPT !.st = "input_required"]
    /\ work' = [work EXCEPT !.st = "user_needed", !.own = "user", !.ptr = b]

-----------------------------------------------------------------------------
(* The Worker, its runtime and the requester's additional instructions.    *)

\* The Worker starts on its Assignment (acknowledge_message).
StartAttempt ==
    /\ rt = "live" /\ att.st = "assigned" /\ work.st = "active"
    /\ att' = [att EXCEPT !.st = "working"]
    /\ UNCHANGED <<work, rt, bnd, turn, reply>>

\* The guards of report: a live credential, a reporting Attempt without an
\* unresolved Boundary, and no requester question (contract trigger).
CanReport ==
    /\ rt = "live"
    /\ att.st \notin {"suspended", "completed", "canceled"}
    /\ work.st \notin Terminal
    /\ work.ptr = 0
    /\ \A b \in Unresolved : bnd[b].att # att.n

Report(kind) ==
    /\ CanReport
    /\ CanRecord
    /\ att' = [att EXCEPT !.st = "waiting_supervisor"]
    /\ SetWork("waiting_supervisor", "cao")
    /\ bnd' = Recorded(kind, work.gen)
    /\ UNCHANGED <<rt, turn, reply>>

ReportProgress ==
    /\ CanReport
    /\ att' = [att EXCEPT !.st = "working"]
    /\ SetWork("active", "worker")
    /\ UNCHANGED <<rt, bnd, turn, reply>>

\* finalize_worker_output_tx after a successful turn without a report.
SettleOutput ==
    /\ rt = "live" /\ work.st = "active"
    /\ \A b \in Unresolved : bnd[b].att = att.n => bnd[b].gen # work.gen
    /\ CanRecord
    /\ att' = [att EXCEPT !.st = "waiting_supervisor"]
    /\ SetWork("waiting_supervisor", "cao")
    /\ bnd' = Recorded("worker_output", work.gen)
    /\ UNCHANGED <<rt, turn, reply>>

\* Classification of an intent as 'augment': the directive becomes a
\* Boundary and only the attention owner changes, which the contract trigger
\* refuses while the requester is being asked.
Augment ==
    /\ work.st \notin Terminal
    /\ work.ptr = 0
    /\ CanRecord
    /\ bnd' = Recorded("directive", work.gen)
    /\ work' = [work EXCEPT !.own = "cao"]
    /\ UNCHANGED <<att, rt, turn, reply>>

\* The runtime becomes terminal (WorkerDelivery has the ways it does).
EndRuntime ==
    /\ rt = "live"
    /\ rt' = "lost"
    /\ UNCHANGED <<work, att, bnd, turn, reply>>

\* Mutant of PrimaryRecovery: the Boundary is recorded for the generation the
\* recovery has just fenced.
PrimaryRecoveryStale ==
    /\ att.st \in Active /\ work.own = "worker"
    /\ \A b \in Unresolved : bnd[b].att = att.n => bnd[b].kind \notin Recovery
    /\ work.gen < MaxGen
    /\ CanRecord
    /\ work' = [work EXCEPT !.st = "waiting_supervisor", !.own = "cao", !.gen = @ + 1]
    /\ att' = [att EXCEPT !.st = "waiting_supervisor"]
    /\ \E kind \in Recovery : bnd' = Recorded(kind, work.gen)
\* recover_terminal_worker_attempt for Work that the Worker owns: a new
\* generation and one failure Boundary in it.
PrimaryRecovery ==
    /\ att.st \in Active /\ work.own = "worker"
    /\ \A b \in Unresolved : bnd[b].att = att.n => bnd[b].kind \notin Recovery
    /\ work.gen < MaxGen
    /\ CanRecord
    /\ work' = [work EXCEPT !.st = "waiting_supervisor", !.own = "cao", !.gen = @ + 1]
    /\ att' = [att EXCEPT !.st = "waiting_supervisor"]
    /\ \E kind \in Recovery : bnd' = Recorded(kind, work.gen + 1)

RecoverAttempt ==
    /\ rt = "lost"
    /\ PrimaryRecovery
    /\ UNCHANGED <<rt, turn, reply>>

\* A typed 429 ends the runtime and recovers its Attempt in one transaction.
\* After a report it records a secondary Boundary, in the same generation and
\* without touching the Work or the Attempt.
RateLimited ==
    /\ rt = "live"
    /\ rt' = "lost"
    /\ \/ PrimaryRecovery
       \/ /\ ~(att.st \in Active /\ work.own = "worker")
          /\ work.st \notin Terminal
          /\ CanRecord
          /\ bnd' = Recorded("reconcile", work.gen)
          /\ UNCHANGED <<work, att>>
    /\ UNCHANGED <<turn, reply>>

-----------------------------------------------------------------------------
(* Reasoner turns.                                                         *)

\* acquire_reasoner_turn: an expired lease of the Work, also one of another
\* Boundary, is abandoned.
AcquireTurn(b) ==
    /\ Current(b) /\ NoLiveTurn
    /\ work.st \notin Terminal \cup {"suspended"}
    /\ turn' = [Fenced EXCEPT ![b] = "live"]
    /\ UNCHANGED <<work, att, rt, bnd, reply>>

\* The clock passes lease_expires_at.
ExpireTurn(b) ==
    /\ turn[b] = "live"
    /\ turn' = [turn EXCEPT ![b] = "expired"]
    /\ UNCHANGED <<work, att, rt, bnd, reply>>

\* The common part of recover_expired_reasoner_turns and
\* _recover_incomplete_reasoner_delivery_tx: the first interruption sends one
\* recovery message, the second asks the requester.
Repair(b) ==
    /\ IF bnd[b].wakes > 0
         THEN AskRequester(b)
         ELSE bnd' = [bnd EXCEPT ![b].wakes = @ + 1] /\ UNCHANGED <<work, att>>
    /\ turn' = [turn EXCEPT ![b] = "none"]
    /\ UNCHANGED <<rt, reply>>

RecoverExpiredTurn(b) ==
    /\ turn[b] = "expired" /\ Current(b)
    /\ work.st \notin Terminal \cup {"suspended"}
    /\ Repair(b)

\* Mutant of RecoverIncompleteTurn: this path ignores the recovery message
\* the other path already sent.
RecoverIncompleteTurnAlone(b) ==
    /\ Current(b) /\ work.own = "cao" /\ turn[b] # "live"
    /\ work.st \notin Terminal \cup {"suspended"}
    /\ bnd' = [bnd EXCEPT ![b].wakes = @ + 1]
    /\ turn' = [turn EXCEPT ![b] = "none"]
    /\ UNCHANGED <<work, att, rt, reply>>
\* The provider turn that answered the latest wake-up ended undecided.
RecoverIncompleteTurn(b) ==
    /\ Current(b) /\ work.own = "cao" /\ turn[b] # "live"
    /\ work.st \notin Terminal \cup {"suspended"}
    /\ Repair(b)

-----------------------------------------------------------------------------
(* Dispositions: _dispose_boundary_tx under a live lease of the Boundary.  *)

Decides(b, kind) == turn[b] = "live" /\ Current(b) /\ kind \in Permitted(b)
Complete(b) == turn' = [turn EXCEPT ![b] = "none"]

\* A Continue or Correct that goes through.
CorrectEffect(b) ==
    IF Executable(b)
      THEN NewAttempt(Disposed(b, "disposed"))
      ELSE /\ ~Blocked
           /\ \/ ReuseAttempt(Disposed(b, "disposed")) /\ Complete(b)
              \/ rt = "lost" /\ NewAttempt(Disposed(b, "disposed"))

DisposeCorrect(b) ==
    /\ Decides(b, "correct")
    /\ CorrectEffect(b)
    /\ UNCHANGED reply

\* The same decision, denied by an unsettled execution (of the Work, or a
\* delivery or an effect outside this module): it becomes a wait_user.
DisposeDenied(b) ==
    /\ Decides(b, "correct")
    /\ ~Executable(b)
    /\ AskRequester(b)
    /\ Complete(b)
    /\ UNCHANGED <<rt, reply>>

DisposeWaitUser(b) ==
    /\ Decides(b, "wait_user")
    /\ AskRequester(b)
    /\ Complete(b)
    /\ UNCHANGED <<rt, reply>>

\* _require_pause_safe_tx
PauseSafe(b) ==
    /\ work.st \in {"waiting_supervisor", "waiting_review"} /\ work.own = "cao"
    /\ \A c \in Bnds \ {b} : ~Current(c)
DisposePause(b) ==
    /\ Decides(b, "pause")
    /\ PauseSafe(b)
    /\ work.gen < MaxGen
    /\ bnd' = Disposed(b, "disposed")
    /\ att' = [att EXCEPT !.st = "suspended"]
    /\ work' = [work EXCEPT !.st = "suspended", !.own = "none", !.gen = @ + 1]
    /\ Complete(b)
    /\ UNCHANGED <<rt, reply>>

\* Accepting a reviewed claim hands the result to the requester; without a
\* review it only submits the claim.  The contract trigger refuses both while
\* the requester is being asked.
DisposeAccept(b) ==
    /\ Decides(b, "accept")
    /\ work.ptr = 0
    /\ bnd' = Disposed(b, "disposed")
    /\ \/ /\ bnd[b].review = "ok"
          /\ att' = [att EXCEPT !.st = "completed"]
          /\ SetWork("waiting_user", "user")
       \/ /\ bnd[b].review = "none"
          /\ att' = [att EXCEPT !.st = "submitted"]
          /\ SetWork("waiting_review", "cao")
    /\ Complete(b)
    /\ UNCHANGED <<rt, reply>>

\* Mutant of EndCanceled: the Work ends as "failed", a state of work_items that
\* no operation may write any more.
EndFailed(bs) ==
    /\ work.gen < MaxGen
    /\ work' = [st |-> "failed", own |-> "none", gen |-> work.gen + 1, ptr |-> 0]
    /\ att' = [att EXCEPT !.st = "canceled"]
    /\ bnd' = Supersede(bs, {b \in Bnds : bs[b].st = "open"})
    /\ turn' = Fenced
\* The Work ends: leases fenced, the generation advanced, and every Boundary
\* still open superseded.
EndCanceled(bs) ==
    /\ work.gen < MaxGen
    /\ work' = [st |-> "canceled", own |-> "none", gen |-> work.gen + 1, ptr |-> 0]
    /\ att' = [att EXCEPT !.st = "canceled"]
    /\ bnd' = Supersede(bs, {b \in Bnds : bs[b].st = "open"})
    /\ turn' = Fenced

DisposeCancel(b) ==
    /\ Decides(b, "cancel")
    /\ EndCanceled(Disposed(b, "disposed"))
    /\ UNCHANGED <<rt, reply>>

DisposeRetry(b) ==
    /\ Decides(b, "retry")
    /\ ~Blocked
    /\ NewAttempt(Disposed(b, "disposed"))
    /\ UNCHANGED reply

-----------------------------------------------------------------------------
(* Replies, reviews and requester decisions.                               *)

\* reply() outside user_needed: one transaction takes the lease and decides
\* CORRECT; a denied command is refused here, never escalated.
ReplyOpen(b) ==
    /\ Current(b) /\ "correct" \in Permitted(b)
    /\ work.st \notin {"user_needed", "suspended"}
    /\ NoLiveTurn
    /\ IF Executable(b)
         THEN NewAttempt(Disposed(b, "disposed"))
         ELSE /\ ~Blocked
              /\ \/ ReuseAttempt(Disposed(b, "disposed")) /\ turn' = Fenced
                 \/ rt = "lost" /\ NewAttempt(Disposed(b, "disposed"))
    /\ UNCHANGED reply

\* reply() in user_needed reads the current question and generation ...
BeginReply ==
    /\ SplitReply /\ reply = NoReply
    /\ work.st = "user_needed" /\ att.st = "input_required"
    /\ WaitConsumable(bnd)
    /\ reply' = [b |-> work.ptr, g |-> work.gen]
    /\ UNCHANGED <<work, att, rt, bnd, turn>>

\* Mutant of ReplyCurrent: the question is not compared again.
ReplyCurrentGeneration ==
    work.gen = reply.g /\ work.st = "user_needed" /\ att.st = "input_required"
\* ... and _reply_user_needed compares them again in its own transaction.
ReplyCurrent ==
    /\ work.gen = reply.g /\ work.st = "user_needed" /\ att.st = "input_required"
    /\ work.ptr = reply.b

AnswerAndReuse ==
    /\ rt = "live"
    /\ bnd' = Answered(bnd)
    /\ att' = [att EXCEPT !.st = "working"]
    /\ work' = [work EXCEPT !.st = "active", !.own = "worker", !.ptr = 0]
    /\ UNCHANGED <<rt, turn>>

TakeAnswer ==
    /\ WaitConsumable(bnd) /\ ~Blocked
    /\ \/ AnswerAndReuse
       \/ rt = "lost" /\ NewAttempt(bnd)

FinishReply ==
    /\ reply # NoReply
    /\ ReplyCurrent
    /\ TakeAnswer
    /\ reply' = NoReply

\* Any other reply(), whose two transactions agree: its first one writes
\* nothing, so only its second one is a step.
OtherReply ==
    /\ work.st = "user_needed" /\ att.st = "input_required"
    /\ TakeAnswer
    /\ UNCHANGED reply

\* The second transaction is refused, or never runs.
DropReply ==
    /\ reply # NoReply
    /\ reply' = NoReply
    /\ UNCHANGED <<work, att, rt, bnd, turn>>

\* review() of the latest open claim: recorded once, decided later.
ReviewBoundary(b, verdict) ==
    /\ Current(b) /\ bnd[b].kind \in Claims /\ bnd[b].att = att.n
    /\ \A c \in b + 1 .. MaxB : ~(Current(c) /\ bnd[c].kind \in Claims)
    /\ work.st = "waiting_supervisor" /\ att.st = "waiting_supervisor"
    /\ bnd[b].review = "none"
    /\ bnd' = [bnd EXCEPT ![b].review = verdict]
    /\ UNCHANGED <<work, att, rt, turn, reply>>

\* review() of a claim that was accepted without one.
ReviewClaim(verdict) ==
    /\ work.st = "waiting_review" /\ att.st = "submitted"
    /\ \/ /\ verdict = "ok"
          /\ att' = [att EXCEPT !.st = "completed"]
          /\ SetWork("waiting_user", "user")
          /\ UNCHANGED bnd
       \/ /\ verdict = "needs_work"
          /\ CanRecord
          /\ att' = [att EXCEPT !.st = "waiting_supervisor"]
          /\ SetWork("waiting_supervisor", "cao")
          /\ bnd' = Recorded("rejected", work.gen)
    /\ UNCHANGED <<rt, turn, reply>>

\* record_requester_decision on a verified result.
RequesterAccepts ==
    /\ work.st = "waiting_user" /\ att.st = "completed"
    /\ work.gen < MaxGen
    /\ work' = [work EXCEPT !.st = "completed", !.own = "none", !.gen = @ + 1]
    /\ turn' = Fenced
    /\ UNCHANGED <<att, rt, bnd, reply>>

\* Mutant of RequesterRejects: the verified Attempt is not reopened.
RequesterRejectsWork ==
    /\ work.st = "waiting_user" /\ att.st = "completed"
    /\ CanRecord
    /\ SetWork("waiting_supervisor", "cao")
    /\ bnd' = Recorded("rejected", work.gen)
    /\ UNCHANGED <<att, rt, turn, reply>>
RequesterRejects ==
    /\ work.st = "waiting_user" /\ att.st = "completed"
    /\ CanRecord
    /\ att' = [att EXCEPT !.st = "waiting_supervisor"]
    /\ SetWork("waiting_supervisor", "cao")
    /\ bnd' = Recorded("rejected", work.gen)
    /\ UNCHANGED <<rt, turn, reply>>

-----------------------------------------------------------------------------
(* Commands on the Work.                                                   *)

\* create_attempt: a retry outside any decision records and disposes its own
\* Boundary; any unresolved Boundary, of any generation, refuses it.
CreateAttempt ==
    /\ work.st \notin Terminal \cup {"suspended"}
    /\ ~Blocked
    /\ Unresolved = {}
    /\ CanRecord
    /\ NewAttempt([Recorded("retry_request", work.gen) EXCEPT ![NextB].st = "disposed"])
    /\ UNCHANGED reply

\* resume_work consumes the pause.
ResumeWork ==
    /\ work.st = "suspended" /\ att.st = "suspended"
    /\ ~Blocked
    /\ NewAttempt(bnd)
    /\ UNCHANGED reply

\* _replace_goal_tx: a new Goal revision and Attempt.  An Assignment nobody
\* claimed yet may be revised although its Attempt is active.  The Boundaries
\* of the replaced generation are superseded.
ReplaceGoal ==
    /\ work.st \notin Terminal \cup {"suspended"}
    /\ ~Blocked \/ (work.st = "active" /\ att.st = "assigned")
    /\ WaitConsumable(bnd)
    /\ NewAttempt(Supersede(bnd, {b \in Bnds : Current(b)}))
    /\ UNCHANGED reply

\* _cancel_work_tx
CancelWork ==
    /\ work.st \notin Terminal
    /\ EndCanceled(bnd)
    /\ UNCHANGED <<rt, reply>>

-----------------------------------------------------------------------------
Init ==
    /\ work = [st |-> "active", own |-> "worker", gen |-> 1, ptr |-> 0]
    /\ att = [n |-> 1, st |-> "assigned"]
    /\ rt = "live"
    /\ bnd = [b \in Bnds |-> Absent]
    /\ turn = [b \in Bnds |-> "none"]
    /\ reply = NoReply

WorkerStep ==
    \/ StartAttempt \/ ReportProgress \/ SettleOutput
    \/ \E kind \in {"question", "completion"} : Report(kind)
    \/ EndRuntime \/ RecoverAttempt \/ RateLimited

TurnStep ==
    \E b \in Bnds :
        \/ AcquireTurn(b) \/ ExpireTurn(b)
        \/ RecoverExpiredTurn(b) \/ RecoverIncompleteTurn(b)

DisposeStep ==
    \E b \in Bnds :
        \/ DisposeCorrect(b) \/ DisposeDenied(b) \/ DisposeWaitUser(b)
        \/ DisposePause(b) \/ DisposeAccept(b) \/ DisposeCancel(b) \/ DisposeRetry(b)

RequesterStep ==
    \/ \E b \in Bnds : ReplyOpen(b)
    \/ BeginReply \/ FinishReply \/ DropReply \/ OtherReply
    \/ \E verdict \in {"ok", "needs_work"} :
          ReviewClaim(verdict) \/ \E b \in Bnds : ReviewBoundary(b, verdict)
    \/ RequesterAccepts \/ RequesterRejects

CommandStep == Augment \/ CreateAttempt \/ ResumeWork \/ ReplaceGoal \/ CancelWork

Next == WorkerStep \/ TurnStep \/ DisposeStep \/ RequesterStep \/ CommandStep

Spec == Init /\ [][Next]_vars

\* The Dispatcher repeats the scan of expired turns in every background cycle.
FairSpec == Spec /\ WF_vars(\E b \in Bnds : RecoverExpiredTurn(b))

-----------------------------------------------------------------------------
(* Properties.                                                             *)

\* Boundaries are recorded one after the other: the first n exist.
Gapless(bs) == \E n \in 0 .. MaxB : \A b \in Bnds : bs[b].st # "none" <=> b <= n

\* The record types, and Boundaries recorded without gaps.
TypeOK ==
    /\ work \in [st : WorkStates, own : Owners, gen : Gens, ptr : 0 .. MaxB]
    /\ att \in [n : Nat, st : AttStates]
    /\ rt \in {"live", "lost"}
    /\ bnd \in [Bnds -> Boundary] /\ Gapless(bnd)
    /\ turn \in [Bnds -> {"none", "live", "expired"}]
    /\ reply \in [b : 0 .. MaxB, g : 0 .. MaxGen]

\* Decision authority: at most one Boundary of the Work has a leased turn, and
\* that Boundary is still undecided, in a Work that can be decided.  No retry,
\* reply, pause, acceptance, cancellation or replacement may leave a lease
\* behind on something that is already settled.  (The Boundary may be of an
\* older generation: recover_terminal_worker_attempt advances the generation
\* without fencing, and such a lease only keeps others out until it expires.)
DecisionAuthority ==
    /\ \A b, c \in Bnds : Leased(b) /\ Leased(c) => b = c
    /\ \A b \in Bnds : Leased(b) =>
          Open(b) /\ work.st \notin Terminal \cup {"suspended"}

\* Every state the Work can rest in agrees with its Attempt, so that the
\* operation meant to leave that state finds the Attempt state it requires;
\* and a canceled Work leaves no Boundary undecided.
WorkAgreesWithAttempt ==
    /\ work.st = "active" => att.st \in Active
    /\ work.st = "waiting_supervisor" => att.st = "waiting_supervisor"
    /\ work.st = "user_needed" <=> att.st = "input_required"
    /\ work.st = "waiting_review" => att.st = "submitted"
    /\ work.st \in {"waiting_user", "completed"} => att.st = "completed"
    /\ work.st = "suspended" <=> att.st = "suspended"
    /\ work.st = "canceled" => att.st = "canceled" /\ Unresolved = {}

\* Whenever the CAO owns the attention there is something it can act on: an
\* undecided Boundary of the current generation, or a submitted claim to
\* review.  Otherwise no wake-up would ever reach this Work again.
AttentionHasCause ==
    work.own = "cao" => work.st = "waiting_review" \/ \E b \in Bnds : Current(b)

\* No question to the requester is lost: a Boundary disposed wait_user is the
\* one the Work points at, until it is answered or the Work is canceled; and a
\* Work waits for the requester exactly while it points at such a Boundary.
RequesterQuestionKept ==
    /\ \A b \in Bnds : bnd[b].st = "wait_user" => work.ptr = b \/ work.st = "canceled"
    /\ work.ptr # 0 <=> work.st = "user_needed"
    /\ work.ptr # 0 => bnd[work.ptr].st = "wait_user"

\* Both recovery paths together send one recovery message per Boundary.
OneRepairWake == \A b \in Bnds : bnd[b].wakes <= 1

\* A reply continues the very question its first transaction read, although
\* that question may have been answered, and another one asked in the same
\* generation, between its two transactions.
ReplyAnswersItsQuestion ==
    [][reply # NoReply /\ reply' = NoReply /\ work.ptr # 0 /\ work'.ptr = 0
         => work.ptr = reply.b]_vars

\* The scan of expired turns settles every expired decision lease.
ExpiredTurnSettles ==
    \A b \in Bnds : (turn[b] = "expired") ~> (turn[b] # "expired")
=============================================================================
