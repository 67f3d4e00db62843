---------------------------- MODULE RetryCommand ----------------------------
(* create_attempt of service.py: the CAO's RETRY command, its idempotency    *)
(* record, and the proof of a historical RETRY that left no such record.     *)
(* Answers are lost and commands repeated at will; in between the Work moves *)
(* on, an ordinary reasoner turn may decide the same Boundary, and prune     *)
(* removes the messages and events the proof reads.                          *)
(*                                                                           *)
(* A digest is the tuple of the fields it is computed from.  Every Boundary  *)
(* here is a RETRY_REQUEST of this CAO whose source is retry:<key>.          *)
EXTENDS Naturals, Sequences, FiniteSets

CONSTANTS
    Works, RetryKeys, Workers,
    Managed,        \* the Workers with a managed spec
    Reasons,
    LegacyKeys,     \* keys of commands an earlier release ran, which kept no result
    NoWorker,       \* a request that names no Worker
    NoKey,          \* the empty idempotency key, and Attempts no key asked for
    MaxAttempts,    \* bound: Attempts of a Work
    MaxLane         \* bound: generations of a managed thread

VARIABLES
    work,      \* work_items: goal version, generation, state, last Attempt
    att,       \* attempts, by Work and number
    bnd,       \* boundaries with source retry:<key>, with their disposition and turn
    open,      \* Works with another undisposed Boundary
    asg,       \* Assignment messages, by the Attempt they assign
    created,   \* attempt.created events, by Attempt
    disposed,  \* boundary.disposed events, by key
    results,   \* idempotency_results of create_attempt
    lane,      \* current generation of each managed Worker's thread
    answer     \* history: the last answer given

retrying == <<work, att, bnd, open, asg, created, disposed, results, lane, answer>>

\* What the constants may be.
RetryAssumption ==
    /\ Managed \subseteq Workers /\ LegacyKeys \subseteq RetryKeys
    /\ NoWorker \notin Workers /\ NoKey \notin RetryKeys
    /\ MaxAttempts \in Nat \ {0} /\ MaxLane \in Nat \ {0} /\ Workers # {}
ASSUME RetryConstants == RetryAssumption

Requests == [w : Works, worker : Workers \cup {NoWorker}, lane : 0 .. MaxLane, reason : Reasons]
Attempts == Works \X (1 .. MaxAttempts)
FirstWorker == CHOOSE p \in Workers : TRUE
NoAtt == [worker |-> NoWorker, lane |-> 0, goal |-> 0, gen |-> 0, by |-> NoKey, reason |-> ""]
NoBnd == [at |-> <<>>, goal |-> 0, gen |-> 0, worker |-> NoWorker, lane |-> 0, reason |-> "",
          disp |-> "none", turn |-> FALSE, sup |-> FALSE]
NoRes == [req |-> <<>>, n |-> 0]
Lane(p) == IF p \in Managed THEN lane[p] ELSE 0

RetryInit ==
    /\ lane = [p \in Managed |-> 1]
    /\ work = [w \in Works |-> [goal |-> 1, gen |-> 1, state |-> "active", last |-> 1]]
    /\ att = [a \in Attempts |->
                IF a[2] = 1 THEN [NoAtt EXCEPT !.worker = FirstWorker, !.lane = Lane(FirstWorker),
                                               !.goal = 1, !.gen = 1]
                ELSE NoAtt]
    /\ asg = [a \in Attempts |-> IF a[2] = 1 THEN "queued" ELSE "none"]
    /\ bnd = [k \in RetryKeys |-> NoBnd] /\ open = {}
    /\ created = {a \in Attempts : a[2] = 1} /\ disposed = {}
    /\ results = [k \in RetryKeys |-> NoRes]
    /\ answer = [ok |-> FALSE, k |-> NoKey, req |-> <<>>, n |-> 0]

Exists(k) == bnd[k] # NoBnd

AttemptRows == [worker : Workers \cup {NoWorker}, lane : 0 .. MaxLane, goal : 0 .. MaxAttempts,
                gen : 0 .. MaxAttempts, by : RetryKeys \cup {NoKey}, reason : Reasons \cup {""}]
BoundaryRows == [at : Attempts, goal : 1 .. MaxAttempts, gen : 1 .. MaxAttempts, worker : Workers,
                 lane : 0 .. MaxLane, reason : Reasons, disp : {"none", "retry", "turn"},
                 turn : BOOLEAN, sup : BOOLEAN]

\* The rows of a retry: every Attempt up to the last one exists, with its Worker, and none after it.
RetryTypeOK ==
    /\ work \in [Works -> [goal : 1 .. MaxAttempts, gen : 1 .. MaxAttempts, last : 1 .. MaxAttempts,
                           state : {"active", "suspended", "completed"}]]
    /\ att \in [Attempts -> AttemptRows]
    /\ \A a \in Attempts : att[a].worker = NoWorker <=> a[2] > work[a[1]].last
    /\ bnd \in [RetryKeys -> BoundaryRows \cup {NoBnd}] /\ open \subseteq Works
    /\ asg \in [Attempts -> {"none", "queued", "handled"}]
    /\ created \subseteq Attempts /\ disposed \subseteq RetryKeys
    /\ results \in [RetryKeys -> [req : Requests, n : 2 .. MaxAttempts] \cup {NoRes}]
    /\ lane \in [Managed -> 1 .. MaxLane]
    /\ answer.ok => answer \in [ok : {TRUE}, k : RetryKeys \cup {NoKey}, req : Requests, n : 2 .. MaxAttempts]

----------------------------------------------------------------------------
(* The rows a request stands for.                                            *)

\* The Worker and the lane the Boundary's metadata records.
TargetWorker(r) == IF r.worker = NoWorker THEN att[<<r.w, work[r.w].last>>].worker ELSE r.worker

\* _record_boundary_tx with the fields create_attempt gives it.  A legacy Boundary has no
\* thread in its metadata.
RetryBoundary(r, legacy) ==
    [at |-> <<r.w, work[r.w].last>>, goal |-> work[r.w].goal, gen |-> work[r.w].gen,
     worker |-> TargetWorker(r), lane |-> IF legacy THEN 0 ELSE r.lane, reason |-> r.reason,
     disp |-> "none", turn |-> FALSE, sup |-> FALSE]

\* The request digest: the thread's fields are part of it; without them the legacy digest,
\* which has no thread, is accepted too.
AcceptedDigest(k, r) == results[k].req = r

Undecided(w) == w \in open \/ \E k \in RetryKeys : /\ Exists(k) /\ bnd[k].at[1] = w
                                              /\ bnd[k].disp = "none" /\ ~bnd[k].sup

\* The Attempt _retry_attempt_tx makes for the Work, its Assignment (retry:<prior>) and its event.
Materialize(r, by) ==
    LET w == r.w
        a == <<w, work[w].last + 1>>
        p == TargetWorker(r)
    IN /\ work' = [work EXCEPT ![w].last = @ + 1, ![w].gen = @ + 1, ![w].state = "active"]
       /\ att' = [att EXCEPT ![a] = [worker |-> p, lane |-> Lane(p), goal |-> work[w].goal,
                                     gen |-> work[w].gen + 1, by |-> by, reason |-> r.reason]]
       /\ asg' = [asg EXCEPT ![a] = "queued"]
       /\ created' = created \cup {a}

----------------------------------------------------------------------------
(* _disposed_retry_residue_result_tx.                                        *)

\* The Boundary is this request's: target Worker, thread, reason, digest.
BoundaryProvenance(k, r) ==
    /\ r.worker # NoWorker => r.worker = bnd[k].worker
    /\ bnd[k].lane # 0 => r.lane = bnd[k].lane
    /\ bnd[k].reason = r.reason

\* The disposition is the one create_attempt writes, with its synthetic completed turn.
\* One that a reasoner turn decided has another request digest.
DispositionProvenance(k) == bnd[k].disp = "retry"

\* Exactly one Attempt has the next number, it carries the Boundary's goal and Worker.
SuccessorExact(k) ==
    LET w == bnd[k].at[1]
        a == <<w, bnd[k].at[2] + 1>>
    IN /\ a[2] <= work[w].last
       /\ work[w].gen >= bnd[k].gen + 1 /\ work[w].goal >= bnd[k].goal
       /\ att[a].goal = bnd[k].goal /\ att[a].worker = bnd[k].worker

\* Its one Assignment is still there, with the key retry:<prior>, the generation and reason.
AssignmentExact(k) ==
    LET a == <<bnd[k].at[1], bnd[k].at[2] + 1>> IN
    asg[a] # "none" /\ att[a].gen = bnd[k].gen + 1 /\ att[a].reason = bnd[k].reason

\* One boundary.disposed and one attempt.created event, which the same transaction wrote first.
EventsExact(k) == k \in disposed /\ <<bnd[k].at[1], bnd[k].at[2] + 1>> \in created

\* The successor runs in the lane that the Boundary and the request name.
LaneExact(k, r) ==
    LET a == <<bnd[k].at[1], bnd[k].at[2] + 1>> IN
    IF att[a].worker \in Managed
    THEN (bnd[k].lane # 0 => bnd[k].lane = att[a].lane) /\ (r.lane # 0 => r.lane = att[a].lane)
    ELSE bnd[k].lane = 0 /\ r.lane = 0

ResidueProven(k, r) ==
    /\ BoundaryProvenance(k, r) /\ DispositionProvenance(k)
    /\ SuccessorExact(k) /\ AssignmentExact(k) /\ EventsExact(k) /\ LaneExact(k, r)

----------------------------------------------------------------------------
(* create_attempt.                                                           *)

Answer(k, r, n) == answer' = [ok |-> TRUE, k |-> k, req |-> r, n |-> n]
\* _idempotent_put.
Put(k, r, n) == results' = [results EXCEPT ![k] = [req |-> r, n |-> n]]

\* The key has a result: the stored answer, for the same parameters only.
Replay(k, r) ==
    /\ results[k] # NoRes /\ AcceptedDigest(k, r)
    /\ Answer(k, r, results[k].n)
    /\ UNCHANGED <<work, att, bnd, open, asg, created, disposed, results, lane>>

\* Mutant of PriorOf: a disposed Boundary whose successor cannot be proven is run again.
PriorOfAgain(k, r) ==
    IF Exists(k) /\ ~(bnd[k].disp # "none" /\ ~ResidueProven(k, r)) THEN bnd[k] ELSE NoBnd

\* The preexisting Boundary of the key.
PriorOf(k, r) == bnd[k]

\* No result, but a disposed Boundary of the same Work: proven and recorded, or refused.
ReplayResidue(k, r) ==
    /\ results[k] = NoRes /\ PriorOf(k, r) # NoBnd
    /\ bnd[k].at[1] = r.w /\ bnd[k].disp # "none"
    /\ ResidueProven(k, r)
    /\ Put(k, r, bnd[k].at[2] + 1) /\ Answer(k, r, bnd[k].at[2] + 1)
    /\ UNCHANGED <<work, att, bnd, open, asg, created, disposed, lane>>

\* Terminal and suspended Work refuse; a managed target takes the lane it is asked for, or
\* its current one.
Retryable(r) ==
    /\ work[r.w].state = "active" /\ work[r.w].last < MaxAttempts
    /\ r.lane \in {0, Lane(TargetWorker(r))}

\* A recorded and undisposed Boundary is taken over only when it is exactly the one this
\* request would record, and no turn is deciding it.
ExactUndisposed(k, r) ==
    /\ bnd[k].disp = "none" /\ ~bnd[k].turn
    /\ \E legacy \in BOOLEAN :
          /\ legacy => r.lane = 0
          /\ [bnd[k] EXCEPT !.sup = FALSE] = RetryBoundary(r, legacy)

\* The first run of the command: Boundary, synthetic turn and disposition, Attempt,
\* Assignment, events and result in one transaction.
FirstRetry(k, r) ==
    /\ results[k] = NoRes /\ Retryable(r)
    /\ \/ PriorOf(k, r) = NoBnd /\ ~Undecided(r.w)
       \/ PriorOf(k, r) # NoBnd /\ ExactUndisposed(k, r)
    /\ Materialize(r, k)
    /\ bnd' = [bnd EXCEPT ![k] =
                 [(IF PriorOf(k, r) = NoBnd THEN RetryBoundary(r, FALSE) ELSE bnd[k])
                    EXCEPT !.disp = "retry"]]
    /\ disposed' = disposed \cup {k}
    /\ Put(k, r, work[r.w].last + 1) /\ Answer(k, r, work[r.w].last + 1)
    /\ UNCHANGED <<open, lane>>

\* Without a key the source is a digest of the Work's Attempt and generation: a new one.
RetryUnkeyed(r) ==
    /\ Retryable(r) /\ ~Undecided(r.w)
    /\ Materialize(r, NoKey)
    /\ Answer(NoKey, r, work[r.w].last + 1)
    /\ UNCHANGED <<bnd, open, disposed, results, lane>>

\* What an earlier release did: the same transition, thread fields and result not stored.
LegacyRetry(k, r) ==
    /\ k \in LegacyKeys /\ ~Exists(k) /\ r.lane = 0
    /\ Retryable(r) /\ ~Undecided(r.w)
    /\ Materialize(r, k)
    /\ bnd' = [bnd EXCEPT ![k] = [RetryBoundary(r, TRUE) EXCEPT !.disp = "retry"]]
    /\ disposed' = disposed \cup {k}
    /\ UNCHANGED <<open, results, lane, answer>>

----------------------------------------------------------------------------
(* What happens between two calls.                                           *)

\* record_boundary by the CAO with the same source: recorded, not disposed.
RecordBoundary(k, r) ==
    /\ ~Exists(k) /\ Retryable(r) /\ ~Undecided(r.w)
    /\ \E legacy \in {l \in BOOLEAN : l => k \in LegacyKeys} :
          bnd' = [bnd EXCEPT ![k] = RetryBoundary(r, legacy)]
    /\ UNCHANGED <<work, att, open, asg, created, disposed, results, lane, answer>>

\* acquire_reasoner_turn on it, and the turn's lease running out.
AcquireTurn(k) ==
    /\ Exists(k) /\ bnd[k].disp = "none" /\ ~bnd[k].sup /\ ~bnd[k].turn
    /\ bnd[k].gen = work[bnd[k].at[1]].gen
    /\ bnd' = [bnd EXCEPT ![k].turn = TRUE]
    /\ UNCHANGED <<work, att, open, asg, created, disposed, results, lane, answer>>
TurnLapses(k) ==
    /\ Exists(k) /\ bnd[k].turn /\ bnd[k].disp = "none"
    /\ bnd' = [bnd EXCEPT ![k].turn = FALSE]
    /\ UNCHANGED <<work, att, open, asg, created, disposed, results, lane, answer>>

\* apply_disposition RETRY by that turn: the same Attempt, another digest.
TurnRetries(k) ==
    LET b == bnd[k]
        r == [w |-> b.at[1], worker |-> b.worker, lane |-> b.lane, reason |-> b.reason]
    IN /\ Exists(k) /\ b.turn /\ b.disp = "none" /\ b.gen = work[b.at[1]].gen
       /\ Retryable(r)
       /\ Materialize(r, NoKey)
       /\ bnd' = [bnd EXCEPT ![k].disp = "turn", ![k].turn = FALSE]
       /\ disposed' = disposed \cup {k}
       /\ UNCHANGED <<open, results, lane, answer>>

\* A report opens a Boundary of its own; its disposition closes it.
Report(w) ==
    /\ work[w].state = "active" /\ w \notin open
    /\ open' = open \cup {w}
    /\ UNCHANGED <<work, att, bnd, asg, created, disposed, results, lane, answer>>
Dispose(w) ==
    /\ w \in open
    /\ open' = open \ {w}
    /\ UNCHANGED <<work, att, bnd, asg, created, disposed, results, lane, answer>>

\* _replace_goal_tx: the next goal, a new Attempt, the old goal's open Boundaries superseded.
ReviseGoal(w) ==
    LET a == <<w, work[w].last + 1>> IN
    /\ work[w].state = "active" /\ work[w].last < MaxAttempts
    /\ work' = [work EXCEPT ![w].goal = @ + 1, ![w].gen = @ + 1, ![w].last = @ + 1]
    /\ att' = [att EXCEPT ![a] = [att[<<w, work[w].last>>] EXCEPT
                                    !.goal = work[w].goal + 1, !.gen = work[w].gen + 1, !.by = NoKey,
                                    !.reason = "", !.lane = Lane(att[<<w, work[w].last>>].worker)]]
    /\ asg' = [asg EXCEPT ![a] = "queued"]
    /\ bnd' = [k \in RetryKeys |-> IF /\ Exists(k) /\ bnd[k].at[1] = w /\ bnd[k].disp = "none"
                                 /\ bnd[k].gen = work[w].gen
                              THEN [bnd[k] EXCEPT !.sup = TRUE, !.turn = FALSE] ELSE bnd[k]]
    /\ open' = open \ {w}
    /\ UNCHANGED <<created, disposed, results, lane, answer>>

\* The Work is suspended by an interrupting Work, resumes, or completes.
SetState(w, from, to) ==
    /\ work[w].state = from
    /\ work' = [work EXCEPT ![w].state = to]
    /\ UNCHANGED <<att, bnd, open, asg, created, disposed, results, lane, answer>>
Suspend(w) == SetState(w, "active", "suspended")
Resume(w) == SetState(w, "suspended", "active")
Complete(w) == SetState(w, "active", "completed")

\* The Worker handles its Assignment; its thread is restarted in a fresh epoch.
Handle(a) ==
    /\ asg[a] = "queued"
    /\ asg' = [asg EXCEPT ![a] = "handled"]
    /\ UNCHANGED <<work, att, bnd, open, created, disposed, results, lane, answer>>
RestartLane(p) ==
    /\ lane[p] < MaxLane
    /\ lane' = [lane EXCEPT ![p] = @ + 1]
    /\ UNCHANGED <<work, att, bnd, open, asg, created, disposed, results, answer>>

\* Database.prune with a cutoff after everything this Work has recorded so far: handled
\* Assignments and the two events of a RETRY are kept by no rule of it.
Prune(w) ==
    /\ \/ \E a \in created : a[1] = w
       \/ \E k \in disposed : bnd[k].at[1] = w
       \/ \E a \in Attempts : a[1] = w /\ asg[a] = "handled"
    /\ asg' = [a \in Attempts |-> IF a[1] = w /\ asg[a] = "handled" THEN "none" ELSE asg[a]]
    /\ created' = {a \in created : a[1] # w}
    /\ disposed' = {k \in disposed : bnd[k].at[1] # w}
    /\ UNCHANGED <<work, att, bnd, open, results, lane, answer>>

RetryNext ==
    \/ \E k \in RetryKeys, r \in Requests :
          Replay(k, r) \/ ReplayResidue(k, r) \/ FirstRetry(k, r) \/ LegacyRetry(k, r)
             \/ RecordBoundary(k, r)
    \/ \E r \in Requests : RetryUnkeyed(r)
    \/ \E k \in RetryKeys : AcquireTurn(k) \/ TurnLapses(k) \/ TurnRetries(k)
    \/ \E w \in Works :
          Report(w) \/ Dispose(w) \/ ReviseGoal(w) \/ Suspend(w) \/ Resume(w) \/ Complete(w)
             \/ Prune(w)
    \/ \E a \in Attempts : Handle(a)
    \/ \E p \in Managed : RestartLane(p)

RetrySpec == RetryInit /\ [][RetryNext]_retrying

----------------------------------------------------------------------------

\* A RETRY decides the Boundary of the Attempt it succeeds: the successor has the next number,
\* the Boundary's own goal version and the generation right after it, so no decision taken for an
\* older goal or generation of the Work makes an Attempt.
RetryOfCurrent ==
    \A k \in RetryKeys : Exists(k) /\ bnd[k].disp # "none" =>
        LET a == att[<<bnd[k].at[1], bnd[k].at[2] + 1>>] IN
        a # NoAtt /\ a.gen = bnd[k].gen + 1 /\ a.goal = bnd[k].goal

\* One key makes at most one Attempt, however often the command is repeated and whatever the
\* Work, the retention run and an earlier release have done in between.
AppliedOnce ==
    \A k \in RetryKeys : Cardinality({a \in Attempts : att[a].by = k}) <= 1

\* create_attempt answers a keyed command only with the Attempt that this very command made:
\* its Worker where one is named, its thread where one is named, its reason.
AnsweredAsApplied ==
    answer.ok /\ answer.k # NoKey =>
        LET a == <<answer.req.w, answer.n>>
            r == answer.req
        IN /\ att[a].by = answer.k /\ att[a].reason = r.reason
           /\ r.worker # NoWorker => att[a].worker = r.worker
           /\ r.lane # 0 => att[a].lane = r.lane

\* One key of create_attempt makes at most one Attempt, which succeeds the Attempt, goal and
\* generation of the Boundary it decides, and the command is answered only with that Attempt.
RetriedOnce == RetryTypeOK /\ AppliedOnce /\ RetryOfCurrent /\ AnsweredAsApplied
=============================================================================
