-------------------------- MODULE SupervisionProofs --------------------------
(***************************************************************************)
(* Proofs about Supervision for every number of Boundaries and             *)
(* generations.                                                            *)
(*                                                                         *)
(* The invariants of the module are inductive together (SupInv).  Each     *)
(* action is reduced to one of the few effects it can have: it records a   *)
(* Boundary, decides one, starts a new Attempt, ends the Work, or touches  *)
(* neither the state nor the generation of any Boundary.                   *)
(***************************************************************************)
EXTENDS Supervision, TLAPS

\* The inductive invariant: the invariants of the module, together.
SupInv == /\ TypeOK /\ DecisionAuthority /\ WorkAgreesWithAttempt
          /\ AttentionHasCause /\ RequesterQuestionKept /\ OneRepairWake

Works == [st : WorkStates, own : Owners, gen : Gens, ptr : 0 .. MaxB]
Atts == [n : Nat, st : AttStates]
Replies == [b : 0 .. MaxB, g : 0 .. MaxGen]
Turns == [Bnds -> {"none", "live", "expired"}]

\* Well formed Boundaries: typed, recorded without gaps, woken once at most.
RowsOK(bs) == bs \in [Bnds -> Boundary] /\ Gapless(bs) /\ \A b \in Bnds : bs[b].wakes <= 1

-----------------------------------------------------------------------------
(* The values the transactions write.                                      *)

\* Writing one column of the Work keeps it a Work.
LEMMA WorkColumns ==
    ASSUME NEW w \in Works
    PROVE  /\ \A x \in WorkStates : [w EXCEPT !.st = x] \in Works
           /\ \A x \in Owners : [w EXCEPT !.own = x] \in Works
           /\ \A x \in Gens : [w EXCEPT !.gen = x] \in Works
           /\ \A x \in 0 .. MaxB : [w EXCEPT !.ptr = x] \in Works
BY DEF Works

\* Writing the state and the owner of the Work writes just these.
LEMMA WorkWritten ==
    ASSUME work \in Works, NEW s \in WorkStates, NEW o \in Owners, SetWork(s, o)
    PROVE  /\ work' \in Works /\ work'.st = s /\ work'.own = o
           /\ work'.gen = work.gen /\ work'.ptr = work.ptr
BY DEF SetWork, Works

\* Writing one column of a Boundary keeps it a Boundary.
LEMMA BoundaryColumns ==
    ASSUME NEW r \in Boundary
    PROVE  /\ \A x \in BndKinds : [r EXCEPT !.kind = x] \in Boundary
           /\ \A x \in BndStates : [r EXCEPT !.st = x] \in Boundary
           /\ \A x \in Gens : [r EXCEPT !.gen = x] \in Boundary
           /\ \A x \in Nat : [r EXCEPT !.att = x] \in Boundary
           /\ \A x \in Nat : [r EXCEPT !.wakes = x] \in Boundary
           /\ \A x \in {"none", "ok", "needs_work"} : [r EXCEPT !.review = x] \in Boundary
BY DEF Boundary

\* The Boundary _record_boundary_tx inserts.
FreshBoundary(kind, gen, n) ==
    [Absent EXCEPT !.kind = kind, !.st = "open", !.gen = gen, !.att = n]

\* It is a Boundary: open, of this generation, and nobody was woken for it.
LEMMA NewBoundary ==
    ASSUME NEW kind \in BndKinds, NEW gen \in Gens, NEW n \in Nat
    PROVE  LET r == FreshBoundary(kind, gen, n)
           IN  r \in Boundary /\ r.st = "open" /\ r.gen = gen /\ r.wakes = 0 /\ r.att = n
<1>1. Absent \in Boundary /\ Absent.wakes = 0
  BY SupervisionBounds DEF Absent, Boundary, BndKinds, Recovery, Claims, BndStates, Gens
<1>2. "open" \in BndStates
  BY DEF BndStates
<1> QED BY <1>1, <1>2 DEF Boundary, FreshBoundary

\* A state written to an existing Boundary keeps the Boundaries well formed and
\* every other column, and every other Boundary, as it was.
LEMMA StateWritten ==
    ASSUME NEW bs, RowsOK(bs), NEW b \in Bnds, bs[b].st # "none",
           NEW s \in BndStates, s # "none"
    PROVE  LET cs == [bs EXCEPT ![b].st = s]
           IN  /\ RowsOK(cs)
               /\ cs[b].st = s /\ cs[b].gen = bs[b].gen
               /\ \A c \in Bnds \ {b} : cs[c] = bs[c]
<1> DEFINE cs == [bs EXCEPT ![b].st = s]
<1>1. bs \in [Bnds -> Boundary] /\ bs[b] \in Boundary
  BY DEF RowsOK
<1>2. cs = [bs EXCEPT ![b] = [bs[b] EXCEPT !.st = s]]
  OBVIOUS
<1>3. [bs[b] EXCEPT !.st = s] \in Boundary
  BY <1>1, BoundaryColumns
<1>4. cs \in [Bnds -> Boundary] /\ cs[b] = [bs[b] EXCEPT !.st = s] /\ \A c \in Bnds \ {b} : cs[c] = bs[c]
  BY <1>1, <1>2, <1>3
<1>5. cs[b].st = s /\ cs[b].gen = bs[b].gen /\ cs[b].wakes = bs[b].wakes
  BY <1>1, <1>4 DEF Boundary
<1>6. \A c \in Bnds : cs[c].wakes <= 1
  BY <1>4, <1>5 DEF RowsOK
<1>7. \A c \in Bnds : cs[c].st # "none" <=> bs[c].st # "none"
  BY <1>4, <1>5
<1>8. Gapless(cs)
  BY <1>7 DEF RowsOK, Gapless
<1> QED BY <1>4, <1>5, <1>6, <1>8 DEF RowsOK

\* _record_boundary_tx adds one open Boundary and leaves the others alone.
LEMMA RecordedRows ==
    ASSUME RowsOK(bnd), CanRecord, att.n \in Nat, NEW kind \in BndKinds, NEW gen \in Gens
    PROVE  /\ NextB \in Bnds /\ bnd[NextB].st = "none"
           /\ RowsOK(Recorded(kind, gen))
           /\ Recorded(kind, gen)[NextB].st = "open"
           /\ Recorded(kind, gen)[NextB].gen = gen
           /\ \A c \in Bnds \ {NextB} : Recorded(kind, gen)[c] = bnd[c]
<1> DEFINE r == FreshBoundary(kind, gen, att.n)
<1> DEFINE cs == [bnd EXCEPT ![NextB] = r]
<1>11. cs = Recorded(kind, gen)
  BY DEF Recorded, FreshBoundary
<1>1. PICK n \in 0 .. MaxB : \A b \in Bnds : bnd[b].st # "none" <=> b <= n
  BY DEF RowsOK, Gapless
<1>2. n + 1 \in Bnds /\ n \in Nat
  <2>1. MaxB \in Bnds
    BY SupervisionBounds DEF Bnds
  <2>2. ~(MaxB <= n)
    BY <1>1, <2>1 DEF CanRecord
  <2> QED BY <1>1, <2>2, SupervisionBounds DEF Bnds
<1>3. bnd[n + 1].st = "none" /\ \A c \in 1 .. (n + 1) - 1 : bnd[c].st # "none"
  BY <1>1, <1>2, SupervisionBounds DEF Bnds
<1>4. \A b \in Bnds : bnd[b].st = "none" /\ (\A c \in 1 .. b - 1 : bnd[c].st # "none") => b = n + 1
  <2> SUFFICES ASSUME NEW b \in Bnds, bnd[b].st = "none", \A c \in 1 .. b - 1 : bnd[c].st # "none"
               PROVE  b = n + 1
    OBVIOUS
  <2>1. b > n
    BY <1>1, <1>2, SupervisionBounds DEF Bnds
  <2>2. ~(n + 1 \in 1 .. b - 1)
    BY <1>3
  <2> QED BY <1>2, <2>1, <2>2, SupervisionBounds DEF Bnds
<1>5. NextB = n + 1
  BY <1>2, <1>3, <1>4 DEF NextB
<1>6. r \in Boundary /\ r.st = "open" /\ r.gen = gen /\ r.wakes = 0
  BY NewBoundary
<1> HIDE DEF r
<1>7. cs \in [Bnds -> Boundary] /\ cs[NextB] = r /\ \A c \in Bnds \ {NextB} : cs[c] = bnd[c]
  BY <1>2, <1>5, <1>6 DEF RowsOK
<1>8. \A c \in Bnds : cs[c].wakes <= 1
  BY <1>6, <1>7 DEF RowsOK
<1>9. \A c \in Bnds : cs[c].st # "none" <=> c <= n + 1
  <2> SUFFICES ASSUME NEW c \in Bnds PROVE cs[c].st # "none" <=> c <= n + 1
    OBVIOUS
  <2>1. CASE c = n + 1
    BY <1>2, <1>5, <1>6, <1>7, <2>1
  <2>2. CASE c # n + 1
    <3>1. cs[c] = bnd[c]
      BY <1>5, <1>7, <2>2
    <3>2. c <= n <=> c <= n + 1
      BY <1>2, <2>2, SupervisionBounds DEF Bnds
    <3> QED BY <1>1, <3>1, <3>2
  <2> QED BY <2>1, <2>2
<1>10. Gapless(cs)
  <2>1. n + 1 \in 0 .. MaxB
    BY <1>2, SupervisionBounds DEF Bnds
  <2> QED BY <1>9, <2>1 DEF Gapless
<1>12. RowsOK(cs)
  BY <1>7, <1>8, <1>10 DEF RowsOK
<1>13. NextB \in Bnds /\ bnd[NextB].st = "none"
  BY <1>2, <1>3, <1>5
<1>14. cs[NextB].st = "open" /\ cs[NextB].gen = gen
  BY <1>6, <1>7
<1> HIDE DEF cs
<1> QED BY <1>7, <1>11, <1>12, <1>13, <1>14

\* Supersede changes the state of existing Boundaries only.
LEMMA SupersededRows ==
    ASSUME NEW bs, RowsOK(bs), NEW S, \A b \in S : bs[b].st # "none"
    PROVE  /\ RowsOK(Supersede(bs, S))
           /\ \A b \in Bnds : Supersede(bs, S)[b].st = IF b \in S THEN "superseded" ELSE bs[b].st
<1> DEFINE cs == Supersede(bs, S)
<1>1. bs \in [Bnds -> Boundary] /\ \A b \in Bnds : bs[b].wakes <= 1
  BY DEF RowsOK
<1>2. cs = [b \in Bnds |-> IF b \in S THEN [bs[b] EXCEPT !.st = "superseded"] ELSE bs[b]]
  BY DEF Supersede
<1> HIDE DEF cs
<1>3. ASSUME NEW b \in Bnds
      PROVE  /\ cs[b] \in Boundary /\ cs[b].wakes = bs[b].wakes
             /\ cs[b].st = IF b \in S THEN "superseded" ELSE bs[b].st
  <2>1. bs[b] \in Boundary /\ "superseded" \in BndStates
    BY <1>1 DEF BndStates
  <2>2. CASE b \in S
    <3>1. cs[b] = [bs[b] EXCEPT !.st = "superseded"]
      BY <1>2, <2>2
    <3>2. cs[b] \in Boundary
      BY <2>1, <3>1, BoundaryColumns
    <3> QED BY <2>1, <2>2, <3>1, <3>2 DEF Boundary
  <2>3. CASE b \notin S
    BY <1>2, <2>1, <2>3
  <2> QED BY <2>2, <2>3
<1>4. cs \in [Bnds -> Boundary]
  BY <1>2, <1>3
<1>5. \A b \in Bnds : cs[b].wakes <= 1
  BY <1>1, <1>3
<1>6. \A b \in Bnds : cs[b].st # "none" <=> bs[b].st # "none"
  BY <1>3
<1>7. Gapless(cs)
  BY <1>6 DEF RowsOK, Gapless
<1>8. RowsOK(cs)
  BY <1>4, <1>5, <1>7 DEF RowsOK
<1> QED BY <1>3, <1>8 DEF cs

\* Answering the requester question, if there is one, changes the state of
\* that Boundary only.
LEMMA AnsweredRows ==
    ASSUME NEW bs, RowsOK(bs), work.ptr \in 0 .. MaxB,
           work.ptr # 0 => bs[work.ptr].st = "wait_user"
    PROVE  /\ RowsOK(Answered(bs))
           /\ work.ptr # 0 => Answered(bs)[work.ptr].st = "answered"
           /\ \A c \in Bnds : c # work.ptr => Answered(bs)[c] = bs[c]
<1>1. CASE work.ptr = 0
  BY <1>1 DEF Answered
<1>2. CASE work.ptr # 0
  <2> DEFINE cs == [bs EXCEPT ![work.ptr].st = "answered"]
  <2>1. work.ptr \in Bnds /\ bs[work.ptr].st # "none"
    BY <1>2, SupervisionBounds DEF Bnds
  <2>2. "answered" \in BndStates
    BY DEF BndStates
  <2>3. RowsOK(cs) /\ cs[work.ptr].st = "answered" /\ \A c \in Bnds \ {work.ptr} : cs[c] = bs[c]
    BY <2>1, <2>2, StateWritten
  <2>4. Answered(bs) = cs
    BY <1>2 DEF Answered
  <2> HIDE DEF cs
  <2> QED BY <1>2, <2>1, <2>3, <2>4
<1> QED BY <1>1, <1>2

-----------------------------------------------------------------------------
(* The effects an action can have.  Each lemma names what it needs of the  *)
(* Work, the Attempt and the leases after the step.                        *)

\* The records of the next state, without the Boundaries.
TypedNext == /\ work' \in Works /\ att' \in Atts /\ rt' \in {"live", "lost"}
             /\ turn' \in Turns /\ reply' \in Replies

\* TypeOK and OneRepairWake are well-typed records and well-formed Boundaries.
LEMMA TypesNow ==
    TypeOK /\ OneRepairWake
      <=> /\ work \in Works /\ att \in Atts /\ rt \in {"live", "lost"}
          /\ turn \in Turns /\ reply \in Replies /\ RowsOK(bnd)
BY DEF TypeOK, OneRepairWake, RowsOK, Works, Atts, Turns, Replies

\* ... also in the next state.
LEMMA TypesNext == TypeOK' /\ OneRepairWake' <=> TypedNext /\ RowsOK(bnd')
BY DEF TypeOK, OneRepairWake, RowsOK, Works, Atts, Turns, Replies, TypedNext

\* A step that records an open Boundary, in the generation the Work now has.
LEMMA RecordStep ==
    ASSUME SupInv, TypedNext, CanRecord, NEW kind \in BndKinds,
           bnd' = Recorded(kind, work'.gen), turn' = turn,
           work.st \notin Terminal, work'.st \notin Terminal \cup {"suspended"},
           work'.ptr = work.ptr, work'.st = "user_needed" <=> work.st = "user_needed",
           WorkAgreesWithAttempt'
    PROVE  SupInv'
<1> DEFINE n == NextB
<1>1. RowsOK(bnd) /\ att.n \in Nat /\ work'.gen \in Gens
  BY TypesNow DEF SupInv, TypedNext, Works, Atts
<1>2. /\ n \in Bnds /\ bnd[n].st = "none" /\ RowsOK(bnd')
      /\ bnd'[n].st = "open" /\ bnd'[n].gen = work'.gen
      /\ \A c \in Bnds \ {n} : bnd'[c] = bnd[c]
  BY <1>1, RecordedRows
<1> HIDE DEF n
<1>3. TypeOK' /\ OneRepairWake'
  BY <1>2, TypesNext
<1>4. DecisionAuthority'
  <2>1. \A b \in Bnds : Leased(b)' <=> Leased(b)
    BY DEF Leased
  <2>2. \A b \in Bnds : Leased(b) => Open(b)'
    BY <1>2 DEF SupInv, DecisionAuthority, Open
  <2> QED BY <2>1, <2>2 DEF SupInv, DecisionAuthority
<1>5. AttentionHasCause'
  BY <1>2 DEF AttentionHasCause, Current, Open
<1>6. RequesterQuestionKept'
  <2>1. \A b \in Bnds : bnd'[b].st = "wait_user" => bnd[b].st = "wait_user"
    BY <1>2
  <2>2. work.ptr # 0 => work.ptr \in Bnds /\ work.ptr # n
    BY <1>2, TypesNow, SupervisionBounds DEF SupInv, Works, Bnds, RequesterQuestionKept
  <2>3. work.ptr # 0 => bnd'[work.ptr].st = "wait_user"
    BY <1>2, <2>2 DEF SupInv, RequesterQuestionKept
  <2> QED BY <2>1, <2>3 DEF SupInv, RequesterQuestionKept, Terminal
<1> QED BY <1>3, <1>4, <1>5, <1>6 DEF SupInv

\* A step that decides an open Boundary: its lease ends, and either the
\* requester is asked, or nothing waits for the requester.
LEMMA DecideStep ==
    ASSUME SupInv, TypedNext, NEW b \in Bnds, Open(b),
           NEW s \in {"disposed", "wait_user"}, bnd' = Disposed(b, s),
           \A c \in Bnds : turn'[c] # "none" => turn[c] # "none" /\ c # b,
           (\E c \in Bnds : turn'[c] # "none") => work'.st \notin Terminal \cup {"suspended"},
           work.ptr = 0,
           IF s = "wait_user" THEN work'.ptr = b /\ work'.st = "user_needed"
                              ELSE work'.ptr = 0 /\ work'.st # "user_needed",
           work'.own = "cao" => work'.st = "waiting_review",
           WorkAgreesWithAttempt'
    PROVE  SupInv'
<1>1. RowsOK(bnd) /\ bnd[b].st # "none" /\ s \in BndStates /\ s # "none" /\ s # "open" /\ b # 0
  BY TypesNow, SupervisionBounds DEF SupInv, Open, BndStates, Bnds
<1>2. RowsOK(bnd') /\ bnd'[b].st = s /\ \A c \in Bnds \ {b} : bnd'[c] = bnd[c]
  <2> DEFINE cs == [bnd EXCEPT ![b].st = s]
  <2>1. RowsOK(cs) /\ cs[b].st = s /\ \A c \in Bnds \ {b} : cs[c] = bnd[c]
    BY <1>1, StateWritten
  <2>2. bnd' = cs
    BY DEF Disposed
  <2> HIDE DEF cs
  <2> QED BY <2>1, <2>2
<1>3. TypeOK' /\ OneRepairWake'
  BY <1>2, TypesNext
<1>4. DecisionAuthority'
  <2>1. \A c \in Bnds : Leased(c)' => Leased(c) /\ c # b /\ work'.st \notin Terminal \cup {"suspended"}
    BY DEF Leased
  <2>2. \A c \in Bnds : Leased(c) /\ c # b => Open(c)'
    BY <1>2 DEF SupInv, DecisionAuthority, Open
  <2> QED BY <2>1, <2>2 DEF SupInv, DecisionAuthority
<1>5. AttentionHasCause'
  BY DEF AttentionHasCause
<1>6. work.st # "canceled"
  BY DEF SupInv, WorkAgreesWithAttempt, Unresolved
<1>7. \A c \in Bnds : bnd[c].st # "wait_user"
  BY <1>6, SupervisionBounds DEF SupInv, RequesterQuestionKept, Bnds
<1>8. RequesterQuestionKept'
  BY <1>1, <1>2, <1>7 DEF RequesterQuestionKept
<1> QED BY <1>3, <1>4, <1>5, <1>8 DEF SupInv

\* A new Attempt, after a transaction that has brought the Boundaries to bs.
LEMMA NewAttemptStep ==
    ASSUME SupInv, NEW bs, RowsOK(bs), NewAttempt(bs), work.st # "canceled",
           \A b \in Bnds : bs[b].st = "wait_user" => bnd[b].st = "wait_user",
           work.ptr # 0 => bs[work.ptr].st = "wait_user",
           reply' \in Replies
    PROVE  SupInv'
<1>1. /\ work \in Works /\ att \in Atts
      /\ work' = [st |-> "active", own |-> "worker", gen |-> work.gen + 1, ptr |-> 0]
      /\ att' = [n |-> att.n + 1, st |-> "assigned"]
      /\ rt' = "live" /\ turn' = [b \in Bnds |-> "none"]
      /\ bnd' = Answered(bs)
  BY TypesNow DEF SupInv, NewAttempt, Fenced
<1>2. work.gen + 1 \in Gens
  BY <1>1, SupervisionBounds DEF NewAttempt, Works, Gens
<1>3. work' \in Works /\ att' \in Atts
  BY <1>1, <1>2, SupervisionBounds DEF Works, WorkStates, Owners, Atts, AttStates, Active
<1>4. TypedNext
  BY <1>1, <1>3 DEF TypedNext, Turns
<1>5. /\ RowsOK(bnd')
      /\ work.ptr # 0 => bnd'[work.ptr].st = "answered"
      /\ \A c \in Bnds : c # work.ptr => bnd'[c] = bs[c]
  <2>1. work.ptr \in 0 .. MaxB
    BY <1>1 DEF Works
  <2> QED BY <1>1, <2>1, AnsweredRows
<1>6. TypeOK' /\ OneRepairWake'
  BY <1>4, <1>5, TypesNext
<1>7. DecisionAuthority'
  BY <1>1 DEF DecisionAuthority, Leased
<1>8. WorkAgreesWithAttempt'
  BY <1>1 DEF WorkAgreesWithAttempt, Active
<1>9. AttentionHasCause'
  BY <1>1 DEF AttentionHasCause
<1>10. \A c \in Bnds : bnd'[c].st # "wait_user"
  <2> SUFFICES ASSUME NEW c \in Bnds PROVE bnd'[c].st # "wait_user"
    OBVIOUS
  <2>1. CASE c = work.ptr
    BY <1>5, <2>1, SupervisionBounds DEF Bnds
  <2>2. CASE c # work.ptr
    <3>1. bnd[c].st # "wait_user"
      BY <2>2 DEF SupInv, RequesterQuestionKept
    <3> QED BY <1>5, <2>2, <3>1
  <2> QED BY <2>1, <2>2
<1>11. RequesterQuestionKept'
  BY <1>1, <1>10 DEF RequesterQuestionKept
<1> QED BY <1>6, <1>7, <1>8, <1>9, <1>11 DEF SupInv

\* The end of a canceled Work, after a transaction that has brought the
\* Boundaries to bs.
LEMMA EndStep ==
    ASSUME SupInv, NEW bs, RowsOK(bs), EndCanceled(bs), UNCHANGED <<rt, reply>>
    PROVE  SupInv'
<1> DEFINE S == {b \in Bnds : bs[b].st = "open"}
<1>1. /\ work \in Works /\ att \in Atts /\ rt \in {"live", "lost"} /\ reply \in Replies
      /\ work' = [st |-> "canceled", own |-> "none", gen |-> work.gen + 1, ptr |-> 0]
      /\ att' = [att EXCEPT !.st = "canceled"]
      /\ bnd' = Supersede(bs, S) /\ turn' = [b \in Bnds |-> "none"]
  BY TypesNow DEF SupInv, EndCanceled, Fenced
<1>2. work.gen + 1 \in Gens
  BY <1>1, SupervisionBounds DEF EndCanceled, Works, Gens
<1>3. work' \in Works /\ att' \in Atts
  BY <1>1, <1>2, SupervisionBounds DEF Works, WorkStates, Terminal, Owners, Atts, AttStates
<1>4. TypedNext
  BY <1>1, <1>3 DEF TypedNext, Turns
<1>5. RowsOK(bnd') /\ \A b \in Bnds : bnd'[b].st = IF b \in S THEN "superseded" ELSE bs[b].st
  <2>1. \A b \in S : bs[b].st # "none"
    OBVIOUS
  <2> HIDE DEF S
  <2> QED BY <1>1, <2>1, SupersededRows
<1>6. TypeOK' /\ OneRepairWake'
  BY <1>4, <1>5, TypesNext
<1>7. DecisionAuthority'
  BY <1>1 DEF DecisionAuthority, Leased
<1>8. WorkAgreesWithAttempt'
  <2>1. \A b \in Bnds : bnd'[b].st # "open"
    BY <1>5
  <2>2. att'.st = "canceled"
    BY <1>1 DEF Atts
  <2> QED BY <1>1, <2>1, <2>2 DEF WorkAgreesWithAttempt, Unresolved, Open
<1>9. AttentionHasCause'
  BY <1>1 DEF AttentionHasCause
<1>10. RequesterQuestionKept'
  BY <1>1 DEF RequesterQuestionKept
<1> QED BY <1>6, <1>7, <1>8, <1>9, <1>10 DEF SupInv

\* A step that leaves the state and the generation of every Boundary as it
\* was, and the requester question too.
LEMMA QuietStep ==
    ASSUME SupInv, TypedNext, RowsOK(bnd'),
           \A b \in Bnds : bnd'[b].st = bnd[b].st /\ bnd'[b].gen = bnd[b].gen,
           DecisionAuthority', WorkAgreesWithAttempt',
           work'.own = "cao" => work' = work,
           work'.ptr = work.ptr, work'.st = "user_needed" <=> work.st = "user_needed",
           work.st = "canceled" => work'.st = "canceled"
    PROVE  SupInv'
<1>1. TypeOK' /\ OneRepairWake'
  BY TypesNext
<1>2. AttentionHasCause'
  <2>1. \A b \in Bnds : Current(b) /\ work' = work => Current(b)'
    BY DEF Current, Open
  <2> QED BY <2>1 DEF SupInv, AttentionHasCause
<1>3. RequesterQuestionKept'
  <2>1. work.ptr # 0 => work.ptr \in Bnds
    BY TypesNow, SupervisionBounds DEF SupInv, Works, Bnds
  <2> QED BY <2>1 DEF SupInv, RequesterQuestionKept
<1> QED BY <1>1, <1>2, <1>3 DEF SupInv

-----------------------------------------------------------------------------
(* Each action has one of these effects.                                   *)

\* The state of a Work: what SupInv says of its records.
LEMMA Typed ==
    ASSUME SupInv
    PROVE  /\ work \in Works /\ att \in Atts /\ rt \in {"live", "lost"}
           /\ turn \in Turns /\ reply \in Replies /\ RowsOK(bnd)
BY TypesNow DEF SupInv

\* Writing the state of an Attempt.
LEMMA AttemptWritten ==
    ASSUME NEW a \in Atts, NEW s \in AttStates
    PROVE  [a EXCEPT !.st = s] \in Atts /\ [a EXCEPT !.st = s].st = s
BY DEF Atts

\* A lease a step does not touch keeps its authority when no decided Boundary
\* is leased and the Work can still be decided.
LEMMA LeasesKept ==
    ASSUME SupInv, turn' = turn, \A b \in Bnds : bnd'[b].st = bnd[b].st,
           work.st \notin Terminal \cup {"suspended"} => work'.st \notin Terminal \cup {"suspended"}
    PROVE  DecisionAuthority'
BY DEF SupInv, DecisionAuthority, Leased, Open

\* StartAttempt
LEMMA StartAttemptKeeps == ASSUME SupInv, StartAttempt PROVE SupInv'
<1>1. att'.st = "working" /\ TypedNext
  BY Typed, AttemptWritten DEF StartAttempt, TypedNext, AttStates, Active
<1>2. RowsOK(bnd') /\ bnd' = bnd /\ turn' = turn /\ work' = work /\ work.st = "active"
  BY Typed DEF StartAttempt
<1>3. DecisionAuthority'
  BY <1>2, LeasesKept
<1>4. WorkAgreesWithAttempt'
  BY <1>1, <1>2 DEF WorkAgreesWithAttempt, Active
<1> QED BY <1>1, <1>2, <1>3, <1>4, QuietStep

\* ReportProgress
LEMMA ReportProgressKeeps == ASSUME SupInv, ReportProgress PROVE SupInv'
<1>1. att'.st = "working" /\ att' \in Atts
  BY Typed, AttemptWritten DEF ReportProgress, AttStates, Active
<1>2. work' \in Works /\ work'.st = "active" /\ work'.own = "worker" /\ work'.ptr = work.ptr
  BY Typed, WorkWritten DEF ReportProgress, WorkStates, Owners
<1>3. TypedNext /\ RowsOK(bnd') /\ bnd' = bnd /\ turn' = turn
  BY <1>1, <1>2, Typed DEF ReportProgress, TypedNext
<1>4. work.st # "user_needed" /\ work.st # "canceled"
  BY DEF ReportProgress, CanReport, SupInv, RequesterQuestionKept, Terminal
<1>5. DecisionAuthority'
  BY <1>2, <1>3, LeasesKept DEF Terminal
<1>6. WorkAgreesWithAttempt'
  BY <1>1, <1>2 DEF WorkAgreesWithAttempt, Active
<1> QED BY <1>2, <1>3, <1>4, <1>5, <1>6, QuietStep

\* What the actions have in common that bring the Work to its supervisor with
\* a Boundary of the same generation: Report, SettleOutput, a review that
\* finds a claim lacking, and a rejection by the requester.
LEMMA SupervisorStep ==
    ASSUME SupInv, CanRecord, NEW kind \in BndKinds, work.st \notin Terminal, work.ptr = 0,
           att' = [att EXCEPT !.st = "waiting_supervisor"],
           SetWork("waiting_supervisor", "cao"),
           bnd' = Recorded(kind, work.gen), UNCHANGED <<rt, turn, reply>>
    PROVE  SupInv'
<1>1. att'.st = "waiting_supervisor" /\ att' \in Atts
  BY Typed, AttemptWritten DEF AttStates
<1>2. /\ work' \in Works /\ work'.st = "waiting_supervisor"
      /\ work'.ptr = work.ptr /\ work'.gen = work.gen
  BY Typed, WorkWritten DEF WorkStates, Owners
<1>3. TypedNext
  BY <1>1, <1>2, Typed DEF TypedNext
<1>4. WorkAgreesWithAttempt'
  BY <1>1, <1>2 DEF WorkAgreesWithAttempt
<1>5. work.st # "user_needed"
  BY DEF SupInv, RequesterQuestionKept
<1>6. work'.st \notin Terminal \cup {"suspended"}
  BY <1>2 DEF Terminal
<1> QED BY <1>2, <1>3, <1>4, <1>5, <1>6, RecordStep

\* Report
LEMMA ReportKeeps ==
    ASSUME SupInv, NEW kind \in {"question", "completion"}, Report(kind) PROVE SupInv'
<1>1. kind \in BndKinds
  BY DEF BndKinds, Claims
<1> QED BY <1>1, SupervisorStep DEF Report, CanReport

\* A Work that is active, in review or waits for the requester's verdict is
\* not ended and asks the requester nothing.
LEMMA NothingAsked ==
    ASSUME SupInv, work.st \in {"active", "waiting_supervisor", "waiting_review", "waiting_user"}
    PROVE  work.ptr = 0 /\ work.st \notin Terminal
BY DEF SupInv, RequesterQuestionKept, Terminal

\* SettleOutput
LEMMA SettleOutputKeeps == ASSUME SupInv, SettleOutput PROVE SupInv'
<1>1. "worker_output" \in BndKinds
  BY DEF BndKinds, Claims
<1> QED BY <1>1, NothingAsked, SupervisorStep DEF SettleOutput

\* RequesterRejects
LEMMA RequesterRejectsKeeps == ASSUME SupInv, RequesterRejects PROVE SupInv'
<1>1. "rejected" \in BndKinds
  BY DEF BndKinds
<1> QED BY <1>1, NothingAsked, SupervisorStep DEF RequesterRejects

\* ReviewClaim
LEMMA ReviewClaimKeeps ==
    ASSUME SupInv, NEW verdict, ReviewClaim(verdict) PROVE SupInv'
<1>1. work.st = "waiting_review" /\ UNCHANGED <<rt, turn, reply>>
  BY DEF ReviewClaim
<1>2. CASE verdict = "needs_work"
  <2>1. "rejected" \in BndKinds
    BY DEF BndKinds
  <2> QED BY <1>2, <2>1, NothingAsked, SupervisorStep DEF ReviewClaim
<1>3. CASE verdict = "ok"
  <2>1. att' = [att EXCEPT !.st = "completed"] /\ SetWork("waiting_user", "user") /\ bnd' = bnd
    BY <1>3 DEF ReviewClaim
  <2>2. att'.st = "completed" /\ att' \in Atts
    BY <2>1, Typed, AttemptWritten DEF AttStates
  <2>3. work' \in Works /\ work'.st = "waiting_user" /\ work'.own = "user" /\ work'.ptr = work.ptr
    BY <2>1, Typed, WorkWritten DEF WorkStates, Owners
  <2>4. TypedNext /\ RowsOK(bnd')
    BY <1>1, <2>1, <2>2, <2>3, Typed DEF TypedNext
  <2>5. DecisionAuthority'
    BY <1>1, <2>1, <2>3, LeasesKept DEF Terminal
  <2>6. WorkAgreesWithAttempt'
    BY <2>2, <2>3 DEF WorkAgreesWithAttempt
  <2> QED BY <1>1, <2>1, <2>3, <2>4, <2>5, <2>6, QuietStep
<1> QED BY <1>2, <1>3 DEF ReviewClaim

\* Augment
LEMMA AugmentKeeps == ASSUME SupInv, Augment PROVE SupInv'
<1>1. /\ work' \in Works /\ work'.st = work.st /\ work'.ptr = work.ptr
      /\ work'.gen = work.gen
  <2>1. "cao" \in Owners
    BY DEF Owners
  <2> QED BY <2>1, Typed DEF Augment, Works
<1>2. TypedNext
  BY <1>1, Typed DEF Augment, TypedNext
<1>3. work'.st \notin Terminal \cup {"suspended"}
  BY <1>1 DEF Augment, CanRecord
<1>4. WorkAgreesWithAttempt'
  BY <1>1, <1>3 DEF Augment, SupInv, WorkAgreesWithAttempt, Terminal
<1>5. "directive" \in BndKinds
  BY DEF BndKinds
<1> QED BY <1>1, <1>2, <1>3, <1>4, <1>5, RecordStep DEF Augment

\* RecoverAttempt, and a rate limit while the Worker owns the Work.
LEMMA PrimaryRecoveryKeeps ==
    ASSUME SupInv, PrimaryRecovery, rt' = "lost", UNCHANGED <<turn, reply>> PROVE SupInv'
<1>1. att'.st = "waiting_supervisor" /\ att' \in Atts
  BY Typed, AttemptWritten DEF PrimaryRecovery, AttStates
<1>2. work.gen + 1 \in Gens
  BY Typed, SupervisionBounds DEF PrimaryRecovery, Works, Gens
<1>3. /\ work' \in Works /\ work'.st = "waiting_supervisor"
      /\ work'.gen = work.gen + 1 /\ work'.ptr = work.ptr
  BY <1>2, Typed DEF PrimaryRecovery, Works, WorkStates, Owners
<1>4. work.st \notin Terminal /\ work.st # "user_needed"
  BY DEF SupInv, PrimaryRecovery, WorkAgreesWithAttempt, Terminal, Active
<1>5. TypedNext
  BY <1>1, <1>3, Typed DEF TypedNext
<1>6. WorkAgreesWithAttempt'
  BY <1>1, <1>3 DEF WorkAgreesWithAttempt
<1>7. PICK kind \in BndKinds : bnd' = Recorded(kind, work'.gen)
  BY <1>3 DEF PrimaryRecovery, BndKinds
<1>8. work'.st \notin Terminal \cup {"suspended"}
  BY <1>3 DEF Terminal
<1> QED BY <1>3, <1>4, <1>5, <1>6, <1>7, <1>8, RecordStep DEF PrimaryRecovery

\* RateLimited
LEMMA RateLimitedKeeps == ASSUME SupInv, RateLimited PROVE SupInv'
<1>1. CASE PrimaryRecovery
  BY <1>1, PrimaryRecoveryKeeps DEF RateLimited
<1>2. CASE ~PrimaryRecovery
  <2>1. /\ work' = work /\ att' = att /\ turn' = turn /\ rt' = "lost" /\ reply' = reply
        /\ work.st \notin Terminal /\ CanRecord /\ bnd' = Recorded("reconcile", work.gen)
    BY <1>2 DEF RateLimited
  <2>2. TypedNext
    BY <2>1, Typed DEF TypedNext
  <2>3. WorkAgreesWithAttempt'
    BY <2>1 DEF SupInv, WorkAgreesWithAttempt, Terminal
  <2>4. "reconcile" \in BndKinds /\ work.st # "suspended"
    BY <2>1 DEF BndKinds, Recovery, CanRecord
  <2> QED BY <2>1, <2>2, <2>3, <2>4, RecordStep
<1> QED BY <1>1, <1>2

\* EndRuntime, BeginReply and DropReply: the runtime ends, or one reply() is
\* between its two transactions.
LEMMA AsideKeeps ==
    ASSUME SupInv, UNCHANGED <<work, att, bnd, turn>>,
           rt' \in {"live", "lost"}, reply' \in Replies
    PROVE  SupInv'
<1>1. TypedNext /\ RowsOK(bnd') /\ work' = work /\ bnd' = bnd
  BY Typed DEF TypedNext
<1>2. DecisionAuthority'
  BY LeasesKept
<1>3. WorkAgreesWithAttempt'
  BY DEF SupInv, WorkAgreesWithAttempt, Unresolved, Open
<1> QED BY <1>1, <1>2, <1>3, QuietStep

\* A decision lease taken by acquire_reasoner_turn, and its expiry.
LEMMA LeaseKeeps ==
    ASSUME SupInv, UNCHANGED <<work, att, rt, bnd, reply>>, turn' \in Turns, DecisionAuthority'
    PROVE  SupInv'
<1>1. TypedNext /\ RowsOK(bnd') /\ work' = work /\ bnd' = bnd
  BY Typed DEF TypedNext
<1>2. WorkAgreesWithAttempt'
  BY DEF SupInv, WorkAgreesWithAttempt, Unresolved, Open
<1> QED BY <1>1, <1>2, QuietStep

\* AcquireTurn
LEMMA AcquireTurnKeeps == ASSUME SupInv, NEW b \in Bnds, AcquireTurn(b) PROVE SupInv'
<1>1. /\ turn' = [Fenced EXCEPT ![b] = "live"] /\ UNCHANGED <<work, att, rt, bnd, reply>>
      /\ Open(b) /\ work.st \notin Terminal \cup {"suspended"}
  BY DEF AcquireTurn, Current
<1>2. turn' \in Turns /\ \A c \in Bnds : turn'[c] # "none" => c = b
  BY <1>1 DEF Fenced, Turns
<1>3. DecisionAuthority'
  BY <1>1, <1>2 DEF DecisionAuthority, Leased, Open
<1> QED BY <1>1, <1>2, <1>3, LeaseKeeps

\* ExpireTurn
LEMMA ExpireTurnKeeps == ASSUME SupInv, NEW b \in Bnds, ExpireTurn(b) PROVE SupInv'
<1>1. turn' = [turn EXCEPT ![b] = "expired"] /\ turn[b] = "live" /\ UNCHANGED <<work, att, rt, bnd, reply>>
  BY DEF ExpireTurn
<1>2. turn' \in Turns /\ \A c \in Bnds : turn'[c] # "none" => turn[c] # "none"
  BY <1>1, Typed DEF Turns
<1>3. DecisionAuthority'
  BY <1>1, <1>2 DEF SupInv, DecisionAuthority, Leased, Open
<1> QED BY <1>1, <1>2, <1>3, LeaseKeeps

\* EndRuntime, BeginReply, DropReply
LEMMA OutsideKeeps == ASSUME SupInv, EndRuntime \/ BeginReply \/ DropReply PROVE SupInv'
<1>1. CASE EndRuntime
  BY <1>1, Typed, AsideKeeps DEF EndRuntime
<1>2. CASE BeginReply
  <2>1. reply' \in Replies
    BY <1>2, Typed, SupervisionBounds DEF BeginReply, Works, Replies, Gens
  <2> QED BY <1>2, <2>1, Typed, AsideKeeps DEF BeginReply
<1>3. CASE DropReply
  <2>1. reply' \in Replies
    BY <1>3, SupervisionBounds DEF DropReply, NoReply, Replies
  <2> QED BY <1>3, <2>1, Typed, AsideKeeps DEF DropReply
<1> QED BY <1>1, <1>2, <1>3

\* RequesterAccepts
LEMMA RequesterAcceptsKeeps == ASSUME SupInv, RequesterAccepts PROVE SupInv'
<1>1. work.gen + 1 \in Gens
  BY Typed, SupervisionBounds DEF RequesterAccepts, Works, Gens
<1>2. work' \in Works /\ work'.st = "completed" /\ work'.own = "none" /\ work'.ptr = work.ptr
  BY <1>1, Typed DEF RequesterAccepts, Works, WorkStates, Terminal, Owners
<1>3. TypedNext /\ RowsOK(bnd') /\ bnd' = bnd
  BY <1>2, Typed DEF RequesterAccepts, TypedNext, Turns, Fenced
<1>4. DecisionAuthority'
  BY DEF RequesterAccepts, DecisionAuthority, Leased, Fenced
<1>5. WorkAgreesWithAttempt'
  BY <1>2 DEF RequesterAccepts, WorkAgreesWithAttempt
<1> QED BY <1>2, <1>3, <1>4, <1>5, QuietStep DEF RequesterAccepts

\* One column of a Boundary other than its state and its generation is written.
LEMMA NoteWritten ==
    ASSUME RowsOK(bnd), NEW b \in Bnds, NEW r \in Boundary,
           r.st = bnd[b].st, r.gen = bnd[b].gen, r.wakes <= 1,
           bnd' = [bnd EXCEPT ![b] = r]
    PROVE  RowsOK(bnd') /\ \A c \in Bnds : bnd'[c].st = bnd[c].st /\ bnd'[c].gen = bnd[c].gen
<1>1. bnd' \in [Bnds -> Boundary] /\ bnd'[b] = r /\ \A c \in Bnds \ {b} : bnd'[c] = bnd[c]
  BY DEF RowsOK
<1>2. \A c \in Bnds : bnd'[c].st = bnd[c].st /\ bnd'[c].gen = bnd[c].gen /\ bnd'[c].wakes <= 1
  BY <1>1 DEF RowsOK
<1>3. Gapless(bnd')
  BY <1>2 DEF RowsOK, Gapless
<1> QED BY <1>1, <1>2, <1>3 DEF RowsOK

\* ReviewBoundary
LEMMA ReviewBoundaryKeeps ==
    ASSUME SupInv, NEW b \in Bnds, NEW verdict \in {"ok", "needs_work"},
           ReviewBoundary(b, verdict)
    PROVE  SupInv'
<1> DEFINE r == [bnd[b] EXCEPT !.review = verdict]
<1>1. bnd[b] \in Boundary /\ bnd[b].wakes <= 1 /\ RowsOK(bnd)
  BY Typed DEF RowsOK
<1>2. r \in Boundary
  BY <1>1, BoundaryColumns
<1>3. r.st = bnd[b].st /\ r.gen = bnd[b].gen /\ r.wakes = bnd[b].wakes
  BY <1>1 DEF Boundary
<1>4. bnd' = [bnd EXCEPT ![b] = r] /\ UNCHANGED <<work, att, rt, turn, reply>>
  BY DEF ReviewBoundary
<1> HIDE DEF r
<1>5. RowsOK(bnd') /\ \A c \in Bnds : bnd'[c].st = bnd[c].st /\ bnd'[c].gen = bnd[c].gen
  BY <1>1, <1>2, <1>3, <1>4, NoteWritten
<1>6. TypedNext
  BY <1>4, Typed DEF TypedNext
<1>7. DecisionAuthority'
  BY <1>4, <1>5, LeasesKept
<1>8. WorkAgreesWithAttempt'
  BY <1>4, <1>5 DEF SupInv, WorkAgreesWithAttempt, Unresolved, Open
<1> QED BY <1>4, <1>5, <1>6, <1>7, <1>8, QuietStep

-----------------------------------------------------------------------------
(* Decisions.                                                              *)

\* The state and the owner of an open Boundary's Work, and its lease.
LEMMA DecidedBoundary ==
    ASSUME SupInv, NEW b \in Bnds, NEW kind, Decides(b, kind)
    PROVE  /\ Open(b) /\ work.st \notin Terminal \cup {"suspended"}
           /\ \A c \in Bnds : turn[c] # "none" => c = b
BY DEF SupInv, Decides, Current, DecisionAuthority, Leased

\* Completing the turn of a Boundary leaves the other leases.
LEMMA Completed ==
    ASSUME SupInv, NEW b \in Bnds, turn' = [turn EXCEPT ![b] = "none"]
    PROVE  turn' \in Turns /\ \A c \in Bnds : turn'[c] # "none" => turn[c] # "none" /\ c # b
BY Typed DEF Turns

\* AskRequester with the turn of the Boundary completed: the wait_user
\* disposition of a CAO, and the second interruption of its turn.
LEMMA AskRequesterKeeps ==
    ASSUME SupInv, NEW b \in Bnds, Open(b), AskRequester(b),
           turn' = [turn EXCEPT ![b] = "none"], UNCHANGED <<rt, reply>>
    PROVE  SupInv'
<1>1. att'.st = "input_required" /\ att' \in Atts
  BY Typed, AttemptWritten DEF AskRequester, AttStates
<1>2. b \in 0 .. MaxB
  BY SupervisionBounds DEF Bnds
<1>3. work' \in Works /\ work'.st = "user_needed" /\ work'.own = "user" /\ work'.ptr = b
  BY <1>2, Typed DEF AskRequester, Works, WorkStates, Owners
<1>4. turn' \in Turns /\ \A c \in Bnds : turn'[c] # "none" => turn[c] # "none" /\ c # b
  BY Completed
<1>5. TypedNext
  BY <1>1, <1>3, <1>4, Typed DEF TypedNext
<1>6. WorkAgreesWithAttempt'
  BY <1>1, <1>3 DEF WorkAgreesWithAttempt
<1>7. work'.st \notin Terminal \cup {"suspended"}
  BY <1>3 DEF Terminal
<1> QED BY <1>3, <1>4, <1>5, <1>6, <1>7, DecideStep DEF AskRequester

\* DisposeWaitUser, and a correct that is denied.
LEMMA DisposeAsks ==
    ASSUME SupInv, NEW b \in Bnds, DisposeWaitUser(b) \/ DisposeDenied(b) PROVE SupInv'
<1>1. Open(b)
  BY DEF DisposeWaitUser, DisposeDenied, Decides, Current
<1> QED BY <1>1, AskRequesterKeeps DEF DisposeWaitUser, DisposeDenied, Complete

\* The first interruption of a turn sends one recovery message, the second
\* asks the requester.
LEMMA RepairKeeps ==
    ASSUME SupInv, NEW b \in Bnds, Open(b), Repair(b) PROVE SupInv'
<1>1. CASE bnd[b].wakes > 0
  BY <1>1, AskRequesterKeeps DEF Repair
<1>2. CASE ~(bnd[b].wakes > 0)
  <2> DEFINE r == [bnd[b] EXCEPT !.wakes = bnd[b].wakes + 1]
  <2>1. bnd[b] \in Boundary /\ bnd[b].wakes = 0 /\ RowsOK(bnd)
    BY <1>2, Typed DEF RowsOK, Boundary
  <2>2. r \in Boundary
    <3>1. bnd[b].wakes + 1 \in Nat
      BY <2>1
    <3> QED BY <2>1, <3>1, BoundaryColumns
  <2>3. r.st = bnd[b].st /\ r.gen = bnd[b].gen /\ r.wakes <= 1
    BY <2>1 DEF Boundary
  <2>4. /\ bnd' = [bnd EXCEPT ![b] = r] /\ UNCHANGED <<work, att, rt, reply>>
        /\ turn' = [turn EXCEPT ![b] = "none"]
    BY <1>2 DEF Repair
  <2> HIDE DEF r
  <2>5. RowsOK(bnd') /\ \A c \in Bnds : bnd'[c].st = bnd[c].st /\ bnd'[c].gen = bnd[c].gen
    BY <2>1, <2>2, <2>3, <2>4, NoteWritten
  <2>6. turn' \in Turns /\ \A c \in Bnds : turn'[c] # "none" => turn[c] # "none"
    BY <2>4, Completed
  <2>7. TypedNext
    BY <2>4, <2>6, Typed DEF TypedNext
  <2>8. DecisionAuthority'
    BY <2>4, <2>5, <2>6 DEF SupInv, DecisionAuthority, Leased, Open
  <2>9. WorkAgreesWithAttempt'
    BY <2>4, <2>5 DEF SupInv, WorkAgreesWithAttempt, Unresolved, Open
  <2> QED BY <2>4, <2>5, <2>7, <2>8, <2>9, QuietStep
<1> QED BY <1>1, <1>2

\* RecoverExpiredTurn, RecoverIncompleteTurn
LEMMA RecoverTurnKeeps ==
    ASSUME SupInv, NEW b \in Bnds, RecoverExpiredTurn(b) \/ RecoverIncompleteTurn(b)
    PROVE  SupInv'
BY RepairKeeps DEF RecoverExpiredTurn, RecoverIncompleteTurn, Current

\* A decision that lets the same Attempt go on.
LEMMA ReuseKeeps ==
    ASSUME SupInv, NEW b \in Bnds, Open(b), ReuseAttempt(Disposed(b, "disposed")),
           turn' \in Turns, \A c \in Bnds : turn'[c] # "none" => turn[c] # "none" /\ c # b,
           UNCHANGED reply
    PROVE  SupInv'
<1>1. att'.st = "working" /\ att' \in Atts
  BY Typed, AttemptWritten DEF ReuseAttempt, AttStates, Active
<1>2. work' \in Works /\ work'.st = "active" /\ work'.own = "worker" /\ work'.ptr = work.ptr
  BY Typed, WorkWritten DEF ReuseAttempt, WorkStates, Owners
<1>3. TypedNext
  BY <1>1, <1>2, Typed DEF ReuseAttempt, TypedNext
<1>4. WorkAgreesWithAttempt'
  BY <1>1, <1>2 DEF WorkAgreesWithAttempt, Active
<1>5. work'.st \notin Terminal \cup {"suspended"}
  BY <1>2 DEF Terminal
<1> QED BY <1>2, <1>3, <1>4, <1>5, DecideStep DEF ReuseAttempt

\* DisposePause
LEMMA DisposePauseKeeps == ASSUME SupInv, NEW b \in Bnds, DisposePause(b) PROVE SupInv'
<1>1. Open(b) /\ \A c \in Bnds : turn[c] # "none" => c = b
  BY DecidedBoundary DEF DisposePause
<1>2. att'.st = "suspended" /\ att' \in Atts
  BY Typed, AttemptWritten DEF DisposePause, AttStates
<1>3. work.gen + 1 \in Gens
  BY Typed, SupervisionBounds DEF DisposePause, Works, Gens
<1>4. work' \in Works /\ work'.st = "suspended" /\ work'.own = "none" /\ work'.ptr = work.ptr
  BY <1>3, Typed DEF DisposePause, Works, WorkStates, Owners
<1>5. turn' \in Turns /\ \A c \in Bnds : turn'[c] # "none" => turn[c] # "none" /\ c # b
  BY Completed DEF DisposePause, Complete
<1>6. TypedNext
  BY <1>2, <1>4, <1>5, Typed DEF DisposePause, TypedNext
<1>7. WorkAgreesWithAttempt'
  BY <1>2, <1>4 DEF WorkAgreesWithAttempt
<1>8. work.ptr = 0
  BY NothingAsked DEF DisposePause, PauseSafe
<1> QED BY <1>1, <1>4, <1>5, <1>6, <1>7, <1>8, DecideStep DEF DisposePause

\* DisposeAccept
LEMMA DisposeAcceptKeeps == ASSUME SupInv, NEW b \in Bnds, DisposeAccept(b) PROVE SupInv'
<1>1. Open(b) /\ \A c \in Bnds : turn[c] # "none" => c = b
  BY DecidedBoundary DEF DisposeAccept
<1>2. turn' \in Turns /\ \A c \in Bnds : turn'[c] # "none" => turn[c] # "none" /\ c # b
  BY Completed DEF DisposeAccept, Complete
<1>3. PICK a \in {"completed", "submitted"}, s \in {"waiting_user", "waiting_review"},
           o \in {"user", "cao"} :
        /\ att' = [att EXCEPT !.st = a] /\ SetWork(s, o)
        /\ s = "waiting_user" <=> a = "completed"
        /\ o = "cao" => s = "waiting_review"
  <2>1. CASE att' = [att EXCEPT !.st = "completed"] /\ SetWork("waiting_user", "user")
    BY <2>1
  <2>2. CASE att' = [att EXCEPT !.st = "submitted"] /\ SetWork("waiting_review", "cao")
    BY <2>2
  <2> QED BY <2>1, <2>2 DEF DisposeAccept
<1>4. att'.st = a /\ att' \in Atts
  BY <1>3, Typed, AttemptWritten DEF AttStates
<1>5. work' \in Works /\ work'.st = s /\ work'.own = o /\ work'.ptr = work.ptr
  BY <1>3, Typed, WorkWritten DEF WorkStates, Owners
<1>6. TypedNext
  BY <1>2, <1>4, <1>5, Typed DEF DisposeAccept, TypedNext
<1>7. WorkAgreesWithAttempt'
  BY <1>3, <1>4, <1>5 DEF WorkAgreesWithAttempt
<1>8. work'.st # "user_needed" /\ (work'.own = "cao" => work'.st = "waiting_review")
  BY <1>3, <1>5
<1>9. \A c \in Bnds : turn'[c] = "none"
  BY <1>1, <1>2
<1> QED BY <1>1, <1>2, <1>5, <1>6, <1>7, <1>8, <1>9, DecideStep DEF DisposeAccept

\* Disposing an open Boundary keeps what NewAttempt and EndCanceled rely on.
LEMMA DisposedRows ==
    ASSUME SupInv, NEW b \in Bnds, Open(b)
    PROVE  LET bs == Disposed(b, "disposed")
           IN  /\ RowsOK(bs)
               /\ \A c \in Bnds : bs[c].st = "wait_user" => bnd[c].st = "wait_user"
               /\ work.ptr # 0 => bs[work.ptr].st = "wait_user"
               /\ work.st # "canceled"
<1> DEFINE cs == [bnd EXCEPT ![b].st = "disposed"]
<1>1. RowsOK(bnd) /\ bnd[b].st # "none" /\ "disposed" \in BndStates
  BY Typed DEF Open, BndStates
<1>2. RowsOK(cs) /\ cs[b].st = "disposed" /\ \A c \in Bnds \ {b} : cs[c] = bnd[c]
  BY <1>1, StateWritten
<1>3. cs = Disposed(b, "disposed")
  BY DEF Disposed
<1> HIDE DEF cs
<1>4. work.ptr # 0 => work.ptr \in Bnds /\ work.ptr # b /\ bnd[work.ptr].st = "wait_user"
  BY Typed, SupervisionBounds DEF SupInv, RequesterQuestionKept, Works, Bnds, Open
<1>5. work.st # "canceled"
  BY DEF SupInv, WorkAgreesWithAttempt, Unresolved
<1> QED BY <1>2, <1>3, <1>4, <1>5

\* A decision that starts a new Attempt.
LEMMA DecideNewAttempt ==
    ASSUME SupInv, NEW b \in Bnds, Open(b), NewAttempt(Disposed(b, "disposed")), UNCHANGED reply
    PROVE  SupInv'
<1> DEFINE bs == Disposed(b, "disposed")
<1>1. /\ RowsOK(bs) /\ work.st # "canceled"
      /\ \A c \in Bnds : bs[c].st = "wait_user" => bnd[c].st = "wait_user"
      /\ work.ptr # 0 => bs[work.ptr].st = "wait_user"
  BY DisposedRows
<1>2. NewAttempt(bs) /\ reply' \in Replies
  BY Typed
<1> HIDE DEF bs
<1> QED BY <1>1, <1>2, NewAttemptStep

\* DisposeCorrect
LEMMA DisposeCorrectKeeps == ASSUME SupInv, NEW b \in Bnds, DisposeCorrect(b) PROVE SupInv'
<1>1. Open(b) /\ UNCHANGED reply
  BY DecidedBoundary DEF DisposeCorrect
<1>2. CASE NewAttempt(Disposed(b, "disposed"))
  BY <1>1, <1>2, DecideNewAttempt
<1>3. CASE ReuseAttempt(Disposed(b, "disposed")) /\ Complete(b)
  <2>1. turn' \in Turns /\ \A c \in Bnds : turn'[c] # "none" => turn[c] # "none" /\ c # b
    BY <1>3, Completed DEF Complete
  <2> QED BY <1>1, <1>3, <2>1, ReuseKeeps
<1> QED BY <1>2, <1>3 DEF DisposeCorrect, CorrectEffect

\* DisposeRetry
LEMMA DisposeRetryKeeps == ASSUME SupInv, NEW b \in Bnds, DisposeRetry(b) PROVE SupInv'
<1>1. Open(b)
  BY DecidedBoundary DEF DisposeRetry
<1> QED BY <1>1, DecideNewAttempt DEF DisposeRetry

\* ReplyOpen
LEMMA ReplyOpenKeeps == ASSUME SupInv, NEW b \in Bnds, ReplyOpen(b) PROVE SupInv'
<1>1. Open(b) /\ UNCHANGED reply
  BY DEF ReplyOpen, Current
<1>2. CASE NewAttempt(Disposed(b, "disposed"))
  BY <1>1, <1>2, DecideNewAttempt
<1>3. CASE ReuseAttempt(Disposed(b, "disposed")) /\ turn' = Fenced
  <2>1. turn' \in Turns /\ \A c \in Bnds : turn'[c] = "none"
    BY <1>3 DEF Fenced, Turns
  <2> QED BY <1>1, <1>3, <2>1, ReuseKeeps
<1> QED BY <1>2, <1>3 DEF ReplyOpen

\* DisposeCancel
LEMMA DisposeCancelKeeps == ASSUME SupInv, NEW b \in Bnds, DisposeCancel(b) PROVE SupInv'
<1> DEFINE bs == Disposed(b, "disposed")
<1>1. Open(b) /\ EndCanceled(bs) /\ UNCHANGED <<rt, reply>>
  BY DecidedBoundary DEF DisposeCancel
<1>2. RowsOK(bs)
  BY <1>1, DisposedRows
<1> HIDE DEF bs
<1> QED BY <1>1, <1>2, EndStep

\* CancelWork
LEMMA CancelWorkKeeps == ASSUME SupInv, CancelWork PROVE SupInv'
BY Typed, EndStep DEF CancelWork

\* What a new Attempt needs of the Boundaries when they stay as they are.
LEMMA BoundariesAsTheyAre ==
    ASSUME SupInv
    PROVE  RowsOK(bnd) /\ (work.ptr # 0 => work.ptr \in Bnds /\ bnd[work.ptr].st = "wait_user")
BY Typed, SupervisionBounds DEF SupInv, RequesterQuestionKept, Works, Bnds

\* ResumeWork
LEMMA ResumeWorkKeeps == ASSUME SupInv, ResumeWork PROVE SupInv'
BY Typed, BoundariesAsTheyAre, NewAttemptStep DEF ResumeWork

\* ReplaceGoal
LEMMA ReplaceGoalKeeps == ASSUME SupInv, ReplaceGoal PROVE SupInv'
<1> DEFINE S == {b \in Bnds : Current(b)}
<1> DEFINE bs == Supersede(bnd, S)
<1>1. \A b \in S : bnd[b].st = "open"
  BY DEF Current, Open
<1>2. RowsOK(bs) /\ \A b \in Bnds : bs[b].st = IF b \in S THEN "superseded" ELSE bnd[b].st
  <2> HIDE DEF S
  <2> QED BY <1>1, Typed, SupersededRows
<1>3. NewAttempt(bs) /\ reply' \in Replies /\ work.st # "canceled"
  BY Typed DEF ReplaceGoal, Terminal
<1> HIDE DEF S, bs
<1>4. work.ptr # 0 => bs[work.ptr].st = "wait_user"
  BY <1>1, <1>2, BoundariesAsTheyAre
<1> QED BY <1>2, <1>3, <1>4, NewAttemptStep

\* CreateAttempt
LEMMA CreateAttemptKeeps == ASSUME SupInv, CreateAttempt PROVE SupInv'
<1> DEFINE n == NextB
<1> DEFINE rs == Recorded("retry_request", work.gen)
<1> DEFINE bs == [rs EXCEPT ![n].st = "disposed"]
<1>1. "retry_request" \in BndKinds /\ work.gen \in Gens /\ att.n \in Nat /\ RowsOK(bnd) /\ CanRecord
  BY Typed DEF BndKinds, Works, Atts, CreateAttempt
<1>2. /\ n \in Bnds /\ bnd[n].st = "none" /\ RowsOK(rs) /\ rs[n].st = "open"
      /\ \A c \in Bnds \ {n} : rs[c] = bnd[c]
  BY <1>1, RecordedRows
<1>3. NewAttempt(bs) /\ reply' \in Replies /\ work.st # "canceled"
  BY Typed DEF CreateAttempt, Terminal
<1> HIDE DEF n, rs
<1>4. RowsOK(bs) /\ bs[n].st = "disposed" /\ \A c \in Bnds \ {n} : bs[c] = rs[c]
  <2>1. "disposed" \in BndStates
    BY DEF BndStates
  <2> QED BY <1>2, <2>1, StateWritten
<1> HIDE DEF bs
<1>5. \A b \in Bnds : bs[b].st = "wait_user" => bnd[b].st = "wait_user"
  BY <1>2, <1>4
<1>6. work.ptr # 0 => bs[work.ptr].st = "wait_user"
  BY <1>2, <1>4, BoundariesAsTheyAre
<1> QED BY <1>3, <1>4, <1>5, <1>6, NewAttemptStep

\* AnswerAndReuse: the requester's answer lets the same Attempt go on.
LEMMA AnswerAndReuseKeeps ==
    ASSUME SupInv, work.st = "user_needed", AnswerAndReuse, reply' \in Replies
    PROVE  SupInv'
<1> DEFINE p == work.ptr
<1>1. att'.st = "working" /\ att' \in Atts
  BY Typed, AttemptWritten DEF AnswerAndReuse, AttStates, Active
<1>2. work' \in Works /\ work'.st = "active" /\ work'.own = "worker" /\ work'.ptr = 0
  <2>1. "active" \in WorkStates /\ "worker" \in Owners /\ 0 \in 0 .. MaxB /\ work \in Works
    BY Typed, SupervisionBounds DEF WorkStates, Owners
  <2>2. work' = [work EXCEPT !.st = "active", !.own = "worker", !.ptr = 0]
    BY DEF AnswerAndReuse
  <2> QED BY <2>1, <2>2 DEF Works
<1>3. p \in Bnds /\ p \in 0 .. MaxB /\ bnd[p].st = "wait_user" /\ RowsOK(bnd)
  BY Typed, BoundariesAsTheyAre DEF SupInv, RequesterQuestionKept, Works
<1>4. RowsOK(bnd') /\ bnd'[p].st = "answered" /\ \A c \in Bnds : c # p => bnd'[c] = bnd[c]
  <2>1. bnd' = Answered(bnd) /\ p # 0
    BY <1>3, SupervisionBounds DEF AnswerAndReuse, Bnds
  <2> QED BY <1>3, <2>1, AnsweredRows
<1>5. TypedNext /\ turn' = turn
  BY <1>1, <1>2, Typed DEF AnswerAndReuse, TypedNext
<1> HIDE DEF p
<1>6. TypeOK' /\ OneRepairWake'
  BY <1>4, <1>5, TypesNext
<1>7. DecisionAuthority'
  BY <1>2, <1>3, <1>4, <1>5 DEF SupInv, DecisionAuthority, Leased, Open, Terminal
<1>8. WorkAgreesWithAttempt'
  BY <1>1, <1>2 DEF WorkAgreesWithAttempt, Active
<1>9. AttentionHasCause'
  BY <1>2 DEF AttentionHasCause
<1>10. \A c \in Bnds : bnd[c].st = "wait_user" => c = p
  BY DEF SupInv, RequesterQuestionKept, p
<1>11. RequesterQuestionKept'
  BY <1>2, <1>4, <1>10 DEF RequesterQuestionKept
<1> QED BY <1>6, <1>7, <1>8, <1>9, <1>11 DEF SupInv

\* FinishReply and OtherReply take the answer of the requester.
LEMMA TakeAnswerKeeps ==
    ASSUME SupInv, work.st = "user_needed", TakeAnswer, reply' \in Replies
    PROVE  SupInv'
<1>1. CASE AnswerAndReuse
  BY <1>1, AnswerAndReuseKeeps
<1>2. CASE NewAttempt(bnd)
  BY <1>2, BoundariesAsTheyAre, NewAttemptStep
<1> QED BY <1>1, <1>2 DEF TakeAnswer

\* FinishReply, OtherReply
LEMMA ReplyKeeps == ASSUME SupInv, FinishReply \/ OtherReply PROVE SupInv'
<1>1. reply' \in Replies
  BY Typed, SupervisionBounds DEF FinishReply, OtherReply, NoReply, Replies
<1> QED BY <1>1, TakeAnswerKeeps DEF FinishReply, OtherReply, ReplyCurrent

-----------------------------------------------------------------------------
(* The invariant, and the theorems.                                        *)

\* The Work as it is delegated.
LEMMA SupInit == Init => SupInv
<1> SUFFICES ASSUME Init PROVE SupInv
  OBVIOUS
<1>1. 1 \in Gens /\ 0 \in 0 .. MaxB /\ 0 \in 0 .. MaxGen
  BY SupervisionBounds DEF Gens
<1>2. Absent \in Boundary /\ Absent.wakes = 0 /\ Absent.st = "none"
  BY <1>1 DEF Absent, Boundary, BndKinds, Recovery, Claims, BndStates
<1>3. \A b \in Bnds : bnd[b] = Absent
  BY DEF Init
<1>4. Gapless(bnd)
  <2>1. \A b \in Bnds : bnd[b].st # "none" <=> b <= 0
    BY <1>2, <1>3, SupervisionBounds DEF Bnds
  <2> QED BY <1>1, <2>1 DEF Gapless
<1>5. RowsOK(bnd)
  BY <1>2, <1>3, <1>4 DEF RowsOK, Init
<1>6. work \in Works /\ att \in Atts /\ turn \in Turns /\ reply \in Replies /\ rt = "live"
  BY <1>1 DEF Init, Works, Atts, Turns, Replies, NoReply, WorkStates, Owners, AttStates, Active
<1>7. TypeOK /\ OneRepairWake
  BY <1>5, <1>6, TypesNow
<1>8. DecisionAuthority
  BY DEF Init, DecisionAuthority, Leased
<1>9. WorkAgreesWithAttempt /\ AttentionHasCause
  BY DEF Init, WorkAgreesWithAttempt, AttentionHasCause, Active
<1>10. RequesterQuestionKept
  BY <1>2, <1>3 DEF Init, RequesterQuestionKept
<1> QED BY <1>7, <1>8, <1>9, <1>10 DEF SupInv

\* A step that changes nothing.
LEMMA SupStutter == ASSUME SupInv, UNCHANGED vars PROVE SupInv'
BY Typed, AsideKeeps DEF vars

\* Every transaction keeps the invariant.
LEMMA SupNext == ASSUME SupInv, [Next]_vars PROVE SupInv'
<1>1. CASE WorkerStep
  BY <1>1, StartAttemptKeeps, ReportProgressKeeps, SettleOutputKeeps, ReportKeeps,
     OutsideKeeps, PrimaryRecoveryKeeps, RateLimitedKeeps
  DEF WorkerStep, RecoverAttempt
<1>2. CASE TurnStep
  BY <1>2, AcquireTurnKeeps, ExpireTurnKeeps, RecoverTurnKeeps DEF TurnStep
<1>3. CASE DisposeStep
  BY <1>3, DisposeCorrectKeeps, DisposeAsks, DisposePauseKeeps, DisposeAcceptKeeps,
     DisposeCancelKeeps, DisposeRetryKeeps
  DEF DisposeStep
<1>4. CASE RequesterStep
  BY <1>4, ReplyOpenKeeps, OutsideKeeps, ReplyKeeps, ReviewClaimKeeps,
     ReviewBoundaryKeeps, RequesterAcceptsKeeps, RequesterRejectsKeeps
  DEF RequesterStep
<1>5. CASE CommandStep
  BY <1>5, AugmentKeeps, CreateAttemptKeeps, ResumeWorkKeeps, ReplaceGoalKeeps,
     CancelWorkKeeps
  DEF CommandStep
<1>6. CASE UNCHANGED vars
  BY <1>6, SupStutter
<1> QED BY <1>1, <1>2, <1>3, <1>4, <1>5, <1>6 DEF Next

\* The conjunction of the invariants of Supervision holds in every reachable
\* state.
THEOREM SupervisionInvariant == Spec => []SupInv
<1>1. Init => SupInv
  BY SupInit
<1>2. SupInv /\ [Next]_vars => SupInv'
  BY SupNext
<1> QED BY <1>1, <1>2, PTL DEF Spec

\* Types: the record types of the Work, its Attempt, its Boundaries and their
\* leases, and Boundaries recorded by _record_boundary_tx without gaps.
THEOREM TypeCorrect == Spec => []TypeOK
<1>1. SupInv => TypeOK
  BY DEF SupInv
<1> QED BY <1>1, SupervisionInvariant, PTL

\* Decision authority: whatever retries, replies, pauses, cancellations or
\* recoveries do, at most one Boundary of the Work is leased to a reasoner
\* turn, and it is undecided in a Work that can be decided.
THEOREM AuthorityHolds == Spec => []DecisionAuthority
<1>1. SupInv => DecisionAuthority
  BY DEF SupInv
<1> QED BY <1>1, SupervisionInvariant, PTL

\* A Work never rests in a state that contradicts the state of its Attempt,
\* although each of some thirty transactions writes the two separately.
THEOREM WorkAndAttemptAgree == Spec => []WorkAgreesWithAttempt
<1>1. SupInv => WorkAgreesWithAttempt
  BY DEF SupInv
<1> QED BY <1>1, SupervisionInvariant, PTL

\* A Work that waits for its CAO always has an undecided Boundary of its
\* current generation, or a submitted claim, for that CAO to act on.
THEOREM AttentionIsJustified == Spec => []AttentionHasCause
<1>1. SupInv => AttentionHasCause
  BY DEF SupInv
<1> QED BY <1>1, SupervisionInvariant, PTL

\* A question to the requester is never lost or replaced: it is the one the
\* Work points at until it is answered or the Work is canceled.
THEOREM QuestionIsKept == Spec => []RequesterQuestionKept
<1>1. SupInv => RequesterQuestionKept
  BY DEF SupInv
<1> QED BY <1>1, SupervisionInvariant, PTL

\* The two recovery paths of an undecided reasoner turn together send at most
\* one recovery message for a Boundary.
THEOREM RepairedOnce == Spec => []OneRepairWake
<1>1. SupInv => OneRepairWake
  BY DEF SupInv
<1> QED BY <1>1, SupervisionInvariant, PTL

\* Only BeginReply, FinishReply and DropReply write the pending reply, and
\* FinishReply compares the question it read with the current one.
LEMMA ReplyStep ==
    ASSUME [Next]_vars, reply # NoReply, reply' = NoReply, work.ptr # 0, work'.ptr = 0
    PROVE  work.ptr = reply.b
<1>1. reply' # reply
  OBVIOUS
<1>2. ~WorkerStep
  BY <1>1 DEF WorkerStep, StartAttempt, ReportProgress, SettleOutput, Report, EndRuntime,
     RecoverAttempt, RateLimited
<1>3. ~TurnStep
  BY <1>1 DEF TurnStep, AcquireTurn, ExpireTurn, RecoverExpiredTurn, RecoverIncompleteTurn, Repair
<1>4. ~DisposeStep
  BY <1>1 DEF DisposeStep, DisposeCorrect, DisposeDenied, DisposeWaitUser, DisposePause,
     DisposeAccept, DisposeCancel, DisposeRetry
<1>5. ~CommandStep
  BY <1>1 DEF CommandStep, Augment, CreateAttempt, ResumeWork, ReplaceGoal, CancelWork
<1>6. RequesterStep
  BY <1>1, <1>2, <1>3, <1>4, <1>5 DEF Next, vars
<1>7. FinishReply \/ DropReply \/ BeginReply
  BY <1>1, <1>6 DEF RequesterStep, ReplyOpen, OtherReply, ReviewClaim, ReviewBoundary,
     RequesterAccepts, RequesterRejects
<1>8. FinishReply
  BY <1>7 DEF DropReply, BeginReply
<1> QED BY <1>8 DEF FinishReply, ReplyCurrent

\* A reply() continues the very question its first transaction read, whatever
\* ran between its two transactions.
THEOREM ReplyMatchesQuestion == Spec => ReplyAnswersItsQuestion
<1>1. [Next]_vars => [reply # NoReply /\ reply' = NoReply /\ work.ptr # 0 /\ work'.ptr = 0
                       => work.ptr = reply.b]_vars
  BY ReplyStep
<1> QED BY <1>1, PTL DEF Spec, ReplyAnswersItsQuestion
=============================================================================
