----------------------------- MODULE IntentLog -----------------------------
(* Submitted intents, their one classification, the Directives and Works     *)
(* they make, and the chain of Works that interrupt each other (service.py). *)
(* A CAO may lose an answer and repeat a command, two CAO conversations may  *)
(* classify one intent, and the Work a command names may have moved on.      *)
(*                                                                           *)
(* An intent is named by its source identity; the two compatibility facades  *)
(* assign_work and revise_goal use their idempotency key as that identity.   *)
EXTENDS Naturals, FiniteSets

CONSTANTS
    Sources,       \* source identities of submitted intents
    Payloads,      \* submitted payloads, told apart by their digest
    Caos,          \* enabled CAO principals
    Relations,     \* the classifications this instance explores
    MaxWorks,      \* bound: Works
    MaxGen         \* bound: generations of a Work

VARIABLES
    intent,    \* submitted intents with their disposition
    wakes,     \* CAO deliveries of the classify_submitted_intent message still unsettled
    sent,      \* intents whose wake message exists
    work,      \* work_items with their latest attempt
    used,      \* Works created so far
    bnd,       \* open Boundaries
    dirs,      \* augment Directives that are pending, as intents
    deferred,  \* Works with a work.resume_deferred event of their current interrupter
    results,   \* idempotency_results of assign_work and revise_goal
    applied    \* history: domain transitions an intent has made

intents == <<intent, wakes, sent, work, used, bnd, dirs, deferred, results, applied>>

\* What the constants may be.
ASSUME IntentAssumption ==
    /\ MaxWorks \in Nat \ {0} /\ MaxGen \in Nat \ {0}
    /\ Relations \subseteq {"independent", "interrupt", "replace", "cancel", "augment", "noop"}

Works == 1 .. MaxWorks
Requests == [rel : Relations, target : 0 .. MaxWorks]
NoIntent == [state |-> "none", payload |-> "none", via |-> "none",
             req |-> [rel |-> "none", target |-> 0], result |-> 0]
NoWork == [state |-> "none", gen |-> 0, goal |-> 0, att |-> "none", by |-> 0, paused |-> FALSE,
           interrupts |-> 0, owner |-> "none"]
NoResult == [req |-> <<>>, w |-> 0]
Terminal == {"completed", "canceled"}
AttemptOver == {"completed", "canceled", "none"}

IntentInit ==
    /\ intent = [s \in Sources |-> NoIntent]
    /\ wakes = [s \in Sources |-> {}] /\ sent = {}
    /\ work = [w \in Works |-> NoWork] /\ used = 0
    /\ bnd = {} /\ dirs = {} /\ deferred = {}
    /\ results = [s \in Sources |-> NoResult]
    /\ applied = [s \in Sources |-> 0]

Open(w) == work[w].state \notin Terminal \cup {"none"}
Recordable(w) == Open(w) /\ ~work[w].paused /\ work[w].gen < MaxGen

Intents ==
    [state : {"none", "open", "done"}, payload : Payloads \cup {"none"},
     via : {"none", "compat", "assign", "revise"}, result : 0 .. MaxWorks,
     req : [rel : Relations \cup {"none", "independent", "replace"}, target : 0 .. MaxWorks]]
WorkRows ==
    [state : {"none", "active", "waiting", "user_needed", "suspended"} \cup Terminal,
     gen : Nat, goal : Nat, att : {"assigned", "working", "suspended"} \cup AttemptOver,
     by : 0 .. used, paused : BOOLEAN, interrupts : 0 .. used, owner : {"none", "worker", "cao", "user"}]
Boundaries == [w : 1 .. used, gen : Nat, goal : Nat, src : Sources \cup {"worker"}]
Results ==
    [w : 0 .. MaxWorks,
     req : {<<>>} \cup {<<p>> : p \in Payloads} \cup {<<x[1], x[2]>> : x \in Works \X (1 .. MaxGen)}]

\* Every row has the values its columns allow; a suspended Work has exactly one of the two
\* causes, a pause or an interrupting Work.
IntentTypeOK ==
    /\ intent \in [Sources -> Intents] /\ sent \subseteq Sources
    /\ wakes \in [Sources -> SUBSET Caos]
    /\ used \in 0 .. MaxWorks /\ work \in [Works -> WorkRows]
    /\ bnd \subseteq Boundaries /\ dirs \subseteq Sources /\ deferred \subseteq Works
    /\ results \in [Sources -> Results] /\ applied \in [Sources -> Nat]
    /\ \A w \in Works : /\ work[w].state = "suspended" => (work[w].paused <=> work[w].by = 0)
                        /\ work[w].state = "none" <=> w > used

----------------------------------------------------------------------------
(* What a transaction does to the Works.                                     *)

\* The rows of a new Work: goal 1, generation 1, Attempt 1.
NewRows(target) ==
    [NoWork EXCEPT !.state = "active", !.gen = 1, !.goal = 1, !.att = "assigned",
                   !.interrupts = target, !.owner = "worker"]

\* _create_work_tx.
Created(ws, n, target) == [ws EXCEPT ![n] = NewRows(target)]

\* Its INTERRUPT half: turns fenced, the target and its open Attempt suspended by the new Work.
Interrupted(ws, n, t) ==
    [ws EXCEPT ![t].state = "suspended", ![t].by = n, ![t].gen = @ + 1, ![t].owner = "none",
               ![t].att = IF @ \in AttemptOver THEN @ ELSE "suspended"]

\* A Work that waits for the requester is not interrupted; a paused one is protected by the
\* database's pause trigger.
Interruptible(t) == work[t].state # "user_needed" /\ ~work[t].paused /\ work[t].gen < MaxGen

\* _replace_goal_tx: goal and generation move on, the previous Attempt ends, a suspended Work
\* stays suspended with its new Attempt.
Replaced(ws, w) ==
    LET suspended == ws[w].state = "suspended" IN
    [ws EXCEPT ![w].goal = @ + 1, ![w].gen = @ + 1,
               ![w].state = IF suspended THEN "suspended" ELSE "active",
               ![w].owner = IF suspended THEN "none" ELSE "worker",
               ![w].by = IF suspended THEN @ ELSE 0,
               ![w].att = IF suspended THEN "suspended" ELSE "assigned"]

\* Of the Work's open Boundaries, those of the replaced goal and generation are superseded.
Superseded(w) == {b \in bnd : b.w = w /\ b.goal = work[w].goal /\ b.gen = work[w].gen}

\* The Work that the terminal Work d had interrupted, when it is still the one that suspends it.
InterruptTarget(ws, d) ==
    LET t == ws[d].interrupts IN
    IF t # 0 /\ ws[t].state = "suspended" /\ ws[t].by = d THEN t ELSE 0

\* _resume_interrupted_target_tx: back to active, with the suspended Attempt or a new one.  A
\* refused admission leaves the target as it is.
Resumed(ws, d, admitted) ==
    LET t == InterruptTarget(ws, d) IN
    IF t = 0 \/ ~admitted THEN ws
    ELSE [ws EXCEPT ![t].state = "active", ![t].owner = "worker", ![t].by = 0,
                    ![t].gen = @ + 1, ![t].att = IF @ = "suspended" THEN "working" ELSE @]

\* The work.resume_deferred event of a refused admission.
Deferred(ws, d, admitted) ==
    IF InterruptTarget(ws, d) # 0 /\ ~admitted THEN {InterruptTarget(ws, d)} ELSE {}

\* A Work ends: its Boundaries are superseded and the Work it interrupted goes on.
Ended(d, state, admitted) ==
    LET ws == [work EXCEPT ![d].state = state, ![d].owner = "none", ![d].gen = @ + 1,
                           ![d].paused = FALSE,
                           ![d].att = IF state = "canceled" THEN "canceled" ELSE "completed"]
    IN /\ work' = Resumed(ws, d, admitted)
       /\ deferred' = (deferred \cup Deferred(ws, d, admitted)) \ {d}
       /\ bnd' = {b \in bnd : b.w # d}

----------------------------------------------------------------------------
(* Receiving and classifying intents.                                        *)

\* _record_submitted_intent_tx: a source identity stands for one payload.
Recorded(s, p, via) ==
    \/ intent[s].state = "none"
    \/ intent[s].payload = p /\ intent[s].via = via

\* _receive_canonical_intent_for_compat: the wake is broadcast once, to every CAO.
Submit(s, p) ==
    /\ Recorded(s, p, "compat")
    /\ intent[s].state = "none" \/ s \notin sent
    /\ intent' = [intent EXCEPT ![s] = IF @.state = "none"
                                       THEN [NoIntent EXCEPT !.state = "open", !.payload = p,
                                                             !.via = "compat"]
                                       ELSE @]
    /\ sent' = sent \cup {s}
    /\ wakes' = [wakes EXCEPT ![s] = Caos]
    /\ UNCHANGED <<work, used, bnd, dirs, deferred, results, applied>>

\* Mutant of Unclassified: the disposition is looked for before the write transaction.
UnclassifiedStale(s) == intent[s].state # "none"

\* The check for an earlier disposition, in the transaction that would store one.
Unclassified(s) == intent[s].state = "open"

\* _handle_intent_deliveries_tx: every CAO's copy is settled with the disposition.
SettleWakes(s) == wakes' = [wakes EXCEPT ![s] = {}]

\* _store_intent_disposition_tx.
Store(s, q, w) ==
    /\ intent' = [intent EXCEPT ![s].state = "done", ![s].req = q, ![s].result = w]
    /\ applied' = [applied EXCEPT ![s] = @ + (IF q.rel = "noop" THEN 0 ELSE 1)]

\* The same classification again: the stored result, and the wakes once more.
ClassifyAgain(s, q) ==
    /\ intent[s].via = "compat" /\ intent[s].state = "done" /\ intent[s].req = q
    /\ SettleWakes(s)
    /\ UNCHANGED <<intent, sent, work, used, bnd, dirs, deferred, results, applied>>

ClassifyTask(s, q) ==
    LET n == used + 1 IN
    /\ q.rel \in {"independent", "interrupt"} /\ used < MaxWorks
    /\ q.target # 0 => Open(q.target)
    /\ q.rel = "interrupt" => q.target # 0 /\ Interruptible(q.target)
    /\ used' = n
    /\ work' = IF q.rel = "interrupt" THEN Interrupted(Created(work, n, q.target), n, q.target)
               ELSE Created(work, n, 0)
    /\ deferred' = IF q.rel = "interrupt" THEN deferred \ {q.target} ELSE deferred
    /\ Store(s, q, n)
    /\ UNCHANGED <<bnd, dirs>>

ClassifyReplace(s, q) ==
    /\ q.rel = "replace" /\ q.target # 0 /\ Recordable(q.target)
    /\ work' = Replaced(work, q.target)
    /\ bnd' = bnd \ Superseded(q.target)
    /\ Store(s, q, q.target)
    /\ UNCHANGED <<used, dirs, deferred>>

ClassifyCancel(s, q) ==
    /\ q.rel = "cancel" /\ q.target # 0 /\ Open(q.target)
    /\ \E admitted \in BOOLEAN : Ended(q.target, "canceled", admitted)
    /\ Store(s, q, q.target)
    /\ UNCHANGED <<used, dirs>>

\* An augment Directive is pending until its own Boundary is decided.
ClassifyAugment(s, q) ==
    /\ q.rel = "augment" /\ q.target # 0 /\ Recordable(q.target)
    /\ bnd' = bnd \cup {[w |-> q.target, gen |-> work[q.target].gen, goal |-> work[q.target].goal,
                         src |-> s]}
    /\ dirs' = dirs \cup {s}
    /\ work' = [work EXCEPT ![q.target].owner = "cao"]
    /\ Store(s, q, q.target)
    /\ UNCHANGED <<used, deferred>>

ClassifyNoop(s, q) ==
    /\ q.rel = "noop" /\ q.target = 0
    /\ Store(s, q, 0)
    /\ UNCHANGED <<work, used, bnd, dirs, deferred>>

\* _classify_canonical_intent_for_compat, by either CAO.
Classify(s, q) ==
    /\ intent[s].via = "compat" /\ Unclassified(s)
    /\ \/ ClassifyTask(s, q) \/ ClassifyReplace(s, q) \/ ClassifyCancel(s, q)
       \/ ClassifyAugment(s, q) \/ ClassifyNoop(s, q)
    /\ SettleWakes(s)
    /\ UNCHANGED <<sent, results>>

\* assign_work with the key s: intent, Work, Directive, disposition and result together.
AssignWork(s, p) ==
    LET n == used + 1 IN
    /\ results[s] = NoResult /\ Recorded(s, p, "assign")
    /\ used < MaxWorks /\ used' = n
    /\ work' = Created(work, n, 0)
    /\ intent' = [intent EXCEPT ![s] = [state |-> "done", payload |-> p, via |-> "assign",
                                        req |-> [rel |-> "independent", target |-> 0], result |-> n]]
    /\ applied' = [applied EXCEPT ![s] = @ + 1]
    /\ results' = [results EXCEPT ![s] = [req |-> <<p>>, w |-> n]]
    /\ UNCHANGED <<wakes, sent, bnd, dirs, deferred>>

\* revise_goal with the key s: refused for a terminal Work and for another goal version.
ReviseGoal(s, w, expected) ==
    /\ results[s] = NoResult /\ intent[s].state = "none"
    /\ Recordable(w) /\ work[w].goal = expected
    /\ work' = Replaced(work, w) /\ bnd' = bnd \ Superseded(w)
    /\ intent' = [intent EXCEPT ![s] = [state |-> "done", payload |-> "none", via |-> "revise",
                                        req |-> [rel |-> "replace", target |-> w], result |-> w]]
    /\ applied' = [applied EXCEPT ![s] = @ + 1]
    /\ results' = [results EXCEPT ![s] = [req |-> <<w, expected>>, w |-> w]]
    /\ UNCHANGED <<wakes, sent, used, dirs, deferred>>

----------------------------------------------------------------------------
(* What goes on beside them.                                                 *)

\* The Worker reports: a Boundary of the current generation and goal.
Report(w) ==
    /\ work[w].state = "active" /\ ~\E b \in bnd : b.w = w
    /\ work' = [work EXCEPT ![w].state = "waiting", ![w].owner = "cao"]
    /\ bnd' = bnd \cup {[w |-> w, gen |-> work[w].gen, goal |-> work[w].goal, src |-> "worker"]}
    /\ UNCHANGED <<intent, wakes, sent, used, dirs, deferred, results, applied>>

\* acquire_reasoner_turn and dispose_boundary: only in the Boundary's own generation, and not
\* for a suspended Work.
Decidable(b) ==
    Open(b.w) /\ work[b.w].state \notin {"suspended", "user_needed"} /\ b.gen = work[b.w].gen
Decide(b, to) ==
    /\ Decidable(b) /\ (to = "suspended" => b.src = "worker" /\ work[b.w].by = 0)
    /\ to = "suspended" => work[b.w].gen < MaxGen /\ work[b.w].state = "waiting"
                             /\ \A c \in bnd : c.w = b.w => c = b
    /\ work' = [work EXCEPT
                  ![b.w].state = to,
                  ![b.w].owner = CASE to = "active" -> "worker" [] to = "user_needed" -> "user"
                                   [] OTHER -> "none",
                  ![b.w].paused = (to = "suspended"),
                  ![b.w].gen = IF to = "suspended" THEN @ + 1 ELSE @,
                  ![b.w].att = IF to = "suspended" THEN "suspended" ELSE "working"]
    /\ bnd' = bnd \ {b} /\ dirs' = dirs \ {b.src}
    /\ UNCHANGED <<intent, wakes, sent, used, deferred, results, applied>>

\* The requester answers, or the CAO resumes a paused Work: the next generation is active.
Continue(w) ==
    /\ work[w].state = "user_needed" \/ work[w].paused
    /\ work[w].gen < MaxGen
    /\ work' = [work EXCEPT ![w].state = "active", ![w].owner = "worker", ![w].gen = @ + 1,
                            ![w].paused = FALSE, ![w].att = "assigned"]
    /\ UNCHANGED <<intent, wakes, sent, used, bnd, dirs, deferred, results, applied>>

\* The requester accepts the reviewed Work: it is completed.
Complete(w) ==
    /\ work[w].state \in {"active", "waiting"} /\ ~\E b \in bnd : b.w = w
    /\ \E admitted \in BOOLEAN : Ended(w, "completed", admitted)
    /\ UNCHANGED <<intent, wakes, sent, used, dirs, results, applied>>

\* Retention removes a settled wake message.
PruneWake(s) ==
    /\ s \in sent /\ wakes[s] = {}
    /\ sent' = sent \ {s}
    /\ UNCHANGED <<intent, wakes, work, used, bnd, dirs, deferred, results, applied>>

IntentNext ==
    \/ \E s \in Sources, p \in Payloads : Submit(s, p) \/ AssignWork(s, p)
    \/ \E s \in Sources, q \in Requests : Classify(s, q) \/ ClassifyAgain(s, q)
    \/ \E s \in Sources, w \in Works, v \in 1 .. MaxGen : ReviseGoal(s, w, v)
    \/ \E w \in Works : Report(w) \/ Continue(w) \/ Complete(w)
    \/ \E b \in bnd, to \in {"active", "user_needed", "suspended"} : Decide(b, to)
    \/ \E s \in Sources : PruneWake(s)

IntentSpec == IntentInit /\ [][IntentNext]_intents

----------------------------------------------------------------------------

\* One submitted intent makes at most one domain transition (a Work, a goal, a cancellation or a
\* Directive), though every CAO is woken for it, answers are lost and the source submits it again.
OneTransition == \A s \in Sources : applied[s] <= 1

\* A Work suspended by another one is waiting for exactly that Work: it is still open, or its end
\* found the target's Worker unavailable and said so in a work.resume_deferred event.
SuspensionExplained ==
    \A w \in Works : work[w].state = "suspended" /\ work[w].by # 0 =>
        /\ Open(work[w].by) \/ w \in deferred
        /\ work[work[w].by].interrupts = w
        /\ work[w].att \in AttemptOver \cup {"suspended"}

\* A Work whose interrupter is open does not run: a new goal, an answer or the end of an unrelated
\* Work never makes it active.
InterruptedWaits ==
    \A w \in Works : work[w].by # 0 /\ Open(w) => work[w].state = "suspended"

\* A submitted intent is applied once, and a Work that another one interrupts waits for exactly
\* that Work, and runs on when it ends.
IntentsApplied == IntentTypeOK /\ OneTransition /\ SuspensionExplained /\ InterruptedWaits
=============================================================================
