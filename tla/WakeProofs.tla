------------------------------ MODULE WakeProofs ------------------------------
(***************************************************************************)
(* Theorems about CaoWake, for every number of jobs, messages, generations *)
(* and faults: WakesKept (no wake is submitted twice or out of order, an   *)
(* open Boundary is served by one wake, a turn or a scan, and a removal    *)
(* stays visible) and RepairAfterEnd.                                      *)
(*                                                                         *)
(* Every step changes the rows as AllCalm says: a row keeps its kind, its  *)
(* generation never falls, a row that is closed stays closed, and no row   *)
(* is offered for the first time that was not before.  On that rest all    *)
(* parts of the invariant; what the few steps do that claim, reserve or    *)
(* requeue a row (Claim, Reserve, RetryUnstarted) is added where it counts.*)
(***************************************************************************)
EXTENDS CaoWake, SequenceTheorems, TLAPS

-----------------------------------------------------------------------------
(* The inductive invariant *)

\* Closed for good: only a receipt may still turn a dead row into a handled one.
Closed(r) == r.st = "handled" \/ (r.st = "dead" /\ r.pol = "terminal")

\* The row may still be submitted, for the first time.
Fresh(r) == r.st \in {"queued", "leased"} \/ (r.st = "dead" /\ r.pol = "retryable")

\* The row waits for its first offer, or is being offered for the first time.
First(r) == r.gen = 1 /\ (r.st \in {"queued", "leased"} \/ (r.st = "dispatched" /\ r.live))

\* A row under way did not fail and is not superseded; a lease has an owner.
RowSound(r) ==
    /\ r.st \notin {"leased", "dispatched"} => r.own = 0
    /\ r.live => r.own # 0
    /\ r.st \in Live => r.pol = "terminal" /\ ~r.sup
    /\ r.st = "dead" /\ r.pol = "retryable" => ~r.sup

\* The failed wake that a reattached conversation may send again.
Failed(r) == r.st = "dead" /\ r.pol = "retryable" /\ ~r.sup

RowsSound == \A m \in Msgs : RowSound(msg[m])

\* A row that was claimed had no earlier row left to be offered for the first time.
ClaimedInOrder ==
    \A m \in Msgs : msg[m].st \in {"leased", "dispatched"} => \A p \in 1 .. m - 1 : ~First(msg[p])

Offering == {"sending", "accepted", "unknown", "unstarted"}

\* What may still be submitted was not submitted, and no two jobs offer one row.
OfferedOnce ==
    /\ \A m \in Msgs : /\ prov[m].subs <= 1 /\ (prov[m].st = "no" <=> prov[m].subs = 0)
                       /\ Fresh(msg[m]) => prov[m].subs = 0
    /\ \A j \in Jobs : /\ job[j].st # "idle" => job[j].m \in Msgs /\ job[j].tok # 0
                       /\ job[j].st \in Offering => ~Fresh(msg[job[j].m])
                       /\ job[j].st \in {"sending", "unstarted"} => prov[job[j].m].subs = 0
    /\ \A j, k \in Jobs : job[j].st \in Offering /\ job[k].st \in Offering /\ job[j].m = job[k].m => j = k

\* There are wakes only of a Boundary.
WakesOfBoundary == boundary = "none" => Wakes = {}

\* What is being removed is obsolete, and stays so until the removal is recorded.
ObsoleteRow(m) == Closed(msg[m]) \/ (msg[m].st \in {"delivered", "acknowledged"} /\ Superseding(m))
RemovalSound ==
    LET m == retract.m
    IN  /\ retract.st # "idle" => m \in Msgs
        /\ retract.st \in {"listed", "asked"} => prov[m].st # "gone"
        /\ retract.st = "answered" /\ ~retract.gone => prov[m].st # "gone"
        /\ retract.st \in {"asked", "answered"} =>
              /\ m \in intents /\ ObsoleteRow(m)
              /\ msg[m].st \in {"delivered", "acknowledged"} => msg[m].gen = retract.gen

\* An activation candidate whose turn was seen to have ended.
ScanSound ==
    scan # NoScan => /\ scan.m \in Msgs /\ scan.gen \in 1 .. MaxGen
                     /\ scan.ended => prov[scan.m].st = "ended"

WakeInv ==
    /\ WakeTypeOK /\ RowsSound /\ ClaimedInOrder /\ OfferedOnce
    /\ WakesOfBoundary /\ ObligationKept /\ OneLiveWake
    /\ RemovalSound /\ RemovalVisible /\ ScanSound

-----------------------------------------------------------------------------
(* How a step changes the rows *)

\* What every step keeps of a row r that becomes s.
Calm(r, s) ==
    /\ s.kind = r.kind /\ s.gen >= r.gen
    /\ First(s) => First(r)
    /\ Closed(r) => Closed(s)
    /\ r.st = "handled" => s.st = "handled"
    /\ r.st \in {"delivered", "acknowledged"} =>
          Closed(s) \/ (s.st \in {"delivered", "acknowledged"} /\ s.gen = r.gen)

\* What every step keeps that neither claims the row nor sends it back to be offered again.
Quieter(r, s) ==
    /\ Fresh(s) => Fresh(r)
    /\ s.st \in {"leased", "dispatched"} => r.st \in {"leased", "dispatched"}

\* A wake that serves the Boundary, or may be reactivated to, goes on doing so.
Serving(r, s) ==
    /\ r.st \in Live \/ Failed(r) => s.st \in Live \/ Failed(s)
    /\ s.st \in Live => r.st \in Live

NewRow(r) == r.st = "queued" /\ r.gen = 1 /\ r.own = 0 /\ ~r.live /\ r.pol = "terminal" /\ ~r.sup

Added == Len(msg) + 1 .. Len(msg')

Stepped ==
    /\ msg' \in Seq(MsgRows) /\ Len(msg') <= MaxMessages /\ Len(msg) <= Len(msg')
    /\ \A m \in Msgs : Calm(msg[m], msg'[m]) /\ RowSound(msg'[m])
    /\ \A m \in Added : NewRow(msg'[m])
Steady == Stepped /\ \A m \in Msgs : Quieter(msg[m], msg'[m])

ServedStep ==
    Obliged' => /\ Obliged /\ (turn' = "none" => turn = "none")
                /\ \A m \in Msgs : IsWake(m) => Serving(msg[m], msg'[m])
                /\ \A m \in Added : msg'[m].kind \notin {"wake", "repair"}

BoundaryKept ==
    boundary' = "none" => /\ boundary = "none"
                          /\ \A m \in Added : msg'[m].kind \notin {"wake", "repair"}

\* Nothing is deleted from the thread's queue, and what ended has ended.
ProvMoves ==
    /\ prov' \in Seq(ProvRows) /\ Len(prov') = Len(msg')
    /\ \A m \in Msgs : /\ prov'[m].st = "gone" => prov[m].st = "gone"
                       /\ prov[m].st = "ended" => prov'[m].st = "ended"
    /\ \A m \in Added : prov'[m] = NotSubmitted

\* Nothing is submitted to the thread either.
ProvKept ==
    /\ ProvMoves
    /\ \A m \in Msgs : prov'[m].subs = prov[m].subs /\ (prov'[m].st = "no" <=> prov[m].st = "no")

JobsKept == job' \in [Jobs -> JobRows] /\ \A j \in Jobs : job'[j] = job[j] \/ job'[j] = IdleJob
RemovalKept == retract' \in {retract, NoRetract} /\ intents' = intents
ScanKept == scan' \in {scan, NoScan}

ScalarsOK ==
    /\ boundary \in {"none", "open", "decided", "asked"} /\ turn \in {"none", "leased", "expired"}
    /\ turn # "none" => boundary = "open"
    /\ done \in BOOLEAN /\ ready \in BOOLEAN /\ route \in [n : Nat, st : {"waiting", "busy", "missing"}]
    /\ proof \subseteq (1 .. MaxMessages) \X (1 .. MaxGen)
    /\ epoch \in Nat \ {0} /\ faults \in 0 .. MaxFaults

-----------------------------------------------------------------------------
(* Sequences of rows *)

\* A function on 1 .. n is a sequence of length n.
LEMMA FunIsSeq ==
  ASSUME NEW S, NEW n \in Nat, NEW f \in [1 .. n -> S]
  PROVE  f \in Seq(S) /\ Len(f) = n
  OBVIOUS

\* The rows are a function on Msgs, and every row is well formed.
LEMMA RowsTyped ==
  ASSUME WakeTypeOK
  PROVE  /\ Len(msg) \in Nat /\ Len(msg) <= MaxMessages /\ msg \in [Msgs -> MsgRows] /\ DOMAIN msg = Msgs
         /\ \A m \in Msgs : msg[m] \in MsgRows
         /\ prov \in [Msgs -> ProvRows] /\ DOMAIN prov = Msgs /\ \A m \in Msgs : prov[m] \in ProvRows
         /\ MaxMessages \in Nat \ {0} /\ MaxGen \in Nat \ {0} /\ MaxFaults \in Nat
  <1>1. msg \in Seq(MsgRows) /\ prov \in Seq(ProvRows) /\ Len(prov) = Len(msg) /\ Len(msg) <= MaxMessages
    BY DEF WakeTypeOK
  <1>2. MaxMessages \in Nat \ {0} /\ MaxGen \in Nat \ {0} /\ MaxFaults \in Nat
    BY WakeAssumption DEF WakeConstants
  <1>3. Len(msg) \in Nat /\ msg \in [Msgs -> MsgRows] /\ DOMAIN msg = Msgs
    BY <1>1, LenProperties DEF Msgs
  <1>4. prov \in [Msgs -> ProvRows] /\ DOMAIN prov = Msgs
    BY <1>1, LenProperties DEF Msgs
  <1> QED BY <1>1, <1>2, <1>3, <1>4

\* A row that stays as it is.
LEMMA SameRow ==
  ASSUME NEW r \in MsgRows
  PROVE  Calm(r, r) /\ Quieter(r, r) /\ Serving(r, r)
  BY DEF Calm, Quieter, Serving, MsgRows, First

\* Every row is changed, or left, in its place.
LEMMA RowwiseStep ==
  ASSUME WakeTypeOK, msg' \in [Msgs -> MsgRows],
         \A m \in Msgs : Calm(msg[m], msg'[m]) /\ RowSound(msg'[m])
  PROVE  Stepped /\ Len(msg') = Len(msg) /\ Added = {}
  <1>1. Len(msg) \in Nat /\ Len(msg) <= MaxMessages /\ MaxMessages \in Nat BY RowsTyped
  <1>2. msg' \in Seq(MsgRows) /\ Len(msg') = Len(msg) BY <1>1, FunIsSeq DEF Msgs
  <1>3. Added = {} BY <1>1, <1>2 DEF Added
  <1> QED BY <1>1, <1>2, <1>3 DEF Stepped

\* One row is changed.
LEMMA OneRow ==
  ASSUME WakeTypeOK, RowsSound, NEW m \in Msgs, NEW s \in MsgRows, Calm(msg[m], s), RowSound(s),
         msg' = [msg EXCEPT ![m] = s]
  PROVE  /\ Stepped /\ Len(msg') = Len(msg) /\ Added = {}
         /\ msg'[m] = s /\ \A n \in Msgs : n # m => msg'[n] = msg[n]
         /\ Quieter(msg[m], s) => Steady
         /\ \A n \in Msgs : n # m => Quieter(msg[n], msg'[n]) /\ Serving(msg[n], msg'[n])
  <1>1. msg \in [Msgs -> MsgRows] /\ \A n \in Msgs : msg[n] \in MsgRows BY RowsTyped
  <1>2. msg' \in [Msgs -> MsgRows] /\ msg'[m] = s /\ \A n \in Msgs : n # m => msg'[n] = msg[n] BY <1>1
  <1>3. \A n \in Msgs : Calm(msg[n], msg'[n]) /\ RowSound(msg'[n])
    BY <1>1, <1>2, SameRow DEF RowsSound
  <1>4. Stepped /\ Len(msg') = Len(msg) /\ Added = {} BY <1>2, <1>3, RowwiseStep
  <1>5. \A n \in Msgs : n # m => Quieter(msg[n], msg'[n]) /\ Serving(msg[n], msg'[n])
    BY <1>1, <1>2, SameRow
  <1> QED BY <1>2, <1>4, <1>5 DEF Steady

\* No row is changed.
LEMMA NoRow ==
  ASSUME WakeTypeOK, RowsSound, UNCHANGED msg
  PROVE  Steady /\ Len(msg') = Len(msg) /\ Added = {} /\ \A n \in Msgs : Serving(msg[n], msg'[n])
  <1>1. msg \in [Msgs -> MsgRows] /\ \A n \in Msgs : msg[n] \in MsgRows BY RowsTyped
  <1>2. \A n \in Msgs : Calm(msg[n], msg'[n]) /\ RowSound(msg'[n]) /\ Quieter(msg[n], msg'[n]) /\ Serving(msg[n], msg'[n])
    BY <1>1, SameRow DEF RowsSound
  <1>3. msg' \in [Msgs -> MsgRows] BY <1>1
  <1> QED BY <1>2, <1>3, RowwiseStep DEF Steady

\* A message is appended to rows that were changed in place.
LEMMA AppendRow ==
  ASSUME WakeTypeOK, NEW rows \in [Msgs -> MsgRows], NEW s \in MsgRows, NewRow(s), Len(msg) < MaxMessages,
         \A m \in Msgs : Calm(msg[m], rows[m]) /\ RowSound(rows[m]) /\ Quieter(msg[m], rows[m]),
         msg' = Append(rows, s)
  PROVE  /\ Steady /\ Len(msg') = Len(msg) + 1 /\ Added = {Len(msg) + 1}
         /\ msg'[Len(msg) + 1] = s /\ \A m \in Msgs : msg'[m] = rows[m]
  <1>1. Len(msg) \in Nat /\ MaxMessages \in Nat BY RowsTyped
  <1>2. rows \in Seq(MsgRows) /\ Len(rows) = Len(msg) BY <1>1, FunIsSeq DEF Msgs
  <1>3. /\ msg' \in Seq(MsgRows) /\ Len(msg') = Len(msg) + 1 /\ msg'[Len(msg) + 1] = s
        /\ \A m \in 1 .. Len(msg) : msg'[m] = rows[m]
    BY <1>1, <1>2
  <1>4. Added = {Len(msg) + 1} BY <1>1, <1>3 DEF Added
  <1>5. Len(msg') <= MaxMessages /\ Len(msg) <= Len(msg') BY <1>1, <1>3
  <1> QED BY <1>3, <1>4, <1>5 DEF Steady, Stepped, Msgs

-----------------------------------------------------------------------------
(* What the steps keep of the invariant *)

\* The rows stay sound, and the invariant's typed parts follow from those of the step.
LEMMA TypedStep ==
  ASSUME Stepped, ScalarsOK', prov' \in Seq(ProvRows), Len(prov') = Len(msg'), job' \in [Jobs -> JobRows],
         scan' \in Candidates, retract' \in Retractions, intents' \subseteq 1 .. Len(msg'), WakeInv
  PROVE  WakeTypeOK' /\ RowsSound'
  <1>1. Len(msg) \in Nat /\ Len(msg') \in Nat /\ Len(msg) <= Len(msg')
    BY RowsTyped, LenProperties DEF Stepped, WakeInv
  <1>2. \A m \in Added : RowSound(msg'[m]) BY DEF Stepped, NewRow, RowSound, Live
  <1>3. \A m \in 1 .. Len(msg') : m \in Msgs \/ m \in Added BY <1>1 DEF Added, Msgs
  <1>4. \A m \in 1 .. Len(msg') : RowSound(msg'[m]) BY <1>2, <1>3 DEF Stepped
  <1>5. RowsSound' BY <1>4 DEF RowsSound, Msgs
  <1>6. \A m \in 1 .. Len(msg') : msg'[m].st \notin {"leased", "dispatched"} => msg'[m].own = 0
    BY <1>4 DEF RowSound
  <1> QED BY <1>5, <1>6 DEF WakeTypeOK, ScalarsOK, Stepped, Msgs

\* Every message of the next state is an old one or an added one.
LEMMA OldOrAdded ==
  ASSUME WakeTypeOK, Stepped
  PROVE  /\ Len(msg) \in Nat /\ Len(msg') \in Nat /\ Len(msg) <= Len(msg')
         /\ Msgs \subseteq 1 .. Len(msg') /\ \A m \in 1 .. Len(msg') : m \in Msgs \/ m \in Added
         /\ \A m \in Msgs, n \in Added : m < n
  <1>1. Len(msg) \in Nat /\ Len(msg') \in Nat /\ Len(msg) <= Len(msg')
    BY RowsTyped, LenProperties DEF Stepped
  <1> QED BY <1>1 DEF Added, Msgs

\* The order of claims is kept by every step that claims no row.
LEMMA OrderKept ==
  ASSUME WakeTypeOK, Stepped, ClaimedInOrder,
         \A m \in Msgs : msg'[m].st \in {"leased", "dispatched"} => msg[m].st \in {"leased", "dispatched"}
  PROVE  ClaimedInOrder'
  <1> SUFFICES ASSUME NEW m \in 1 .. Len(msg'), msg'[m].st \in {"leased", "dispatched"}, NEW p \in 1 .. m - 1
               PROVE  ~First(msg'[p])
    BY DEF ClaimedInOrder, Msgs
  <1>1. m \in Msgs BY OldOrAdded DEF Stepped, NewRow
  <1>2. p \in Msgs BY <1>1, RowsTyped DEF Msgs
  <1>3. ~First(msg[p]) BY <1>1 DEF ClaimedInOrder
  <1> QED BY <1>2, <1>3 DEF Stepped, Calm

\* No wake comes to a conversation without a Boundary.
LEMMA BoundaryFirst ==
  ASSUME WakeTypeOK, Stepped, WakesOfBoundary, BoundaryKept
  PROVE  WakesOfBoundary'
  <1> SUFFICES ASSUME boundary' = "none", NEW m \in 1 .. Len(msg'), msg'[m].kind \in {"wake", "repair"}
               PROVE  FALSE
    BY DEF WakesOfBoundary, Wakes, IsWake, Msgs
  <1>1. m \in Msgs BY OldOrAdded DEF BoundaryKept
  <1>2. IsWake(m) BY <1>1 DEF Stepped, Calm, IsWake
  <1> QED BY <1>1, <1>2 DEF WakesOfBoundary, BoundaryKept, Wakes

\* A Boundary that was served is served, by the same wake.
LEMMA StillServed ==
  ASSUME WakeTypeOK, Stepped, ServedStep, ObligationKept, OneLiveWake
  PROVE  ObligationKept' /\ OneLiveWake'
  <1> SUFFICES ASSUME Obliged' PROVE ObligationKept' /\ OneLiveWake'
    BY DEF ObligationKept, OneLiveWake
  <1>1. /\ Obliged /\ (turn' = "none" => turn = "none")
        /\ \A m \in Msgs : IsWake(m) => Serving(msg[m], msg'[m])
        /\ \A m \in Added : msg'[m].kind \notin {"wake", "repair"}
    BY DEF ServedStep
  <1>2. Wakes' = Wakes
    BY <1>1, OldOrAdded DEF Wakes, IsWake, Msgs, Stepped, Calm
  <1>3. \A m \in Wakes : m \in Msgs /\ Serving(msg[m], msg'[m]) /\ (msg[m].st = "handled" => msg'[m].st = "handled")
    BY <1>1 DEF Wakes, Stepped, Calm
  <1>4. OneLiveWake'
    BY <1>1, <1>2, <1>3 DEF OneLiveWake, Serving
  <1>5. turn = "none" => \/ \E m \in Wakes : msg[m].st \in Live \/ Failed(msg[m])
                         \/ \A m \in Wakes : msg[m].st = "handled"
    BY <1>1 DEF ObligationKept, Failed
  <1>6. turn' = "none" => \/ \E m \in Wakes' : msg'[m].st \in Live \/ Failed(msg'[m])
                          \/ \A m \in Wakes' : msg'[m].st = "handled"
    BY <1>1, <1>2, <1>3, <1>5 DEF Serving
  <1> QED BY <1>4, <1>6 DEF ObligationKept, Failed

\* What may still be submitted was not submitted, when jobs only end.
LEMMA StillOfferedOnce ==
  ASSUME WakeTypeOK, Steady, OfferedOnce, ProvKept, JobsKept
  PROVE  OfferedOnce'
  <1>1. \A m \in 1 .. Len(msg') : m \in Msgs \/ m \in Added BY OldOrAdded DEF Steady
  <1>2. \A m \in Msgs : /\ prov'[m].subs <= 1 /\ (prov'[m].st = "no" <=> prov'[m].subs = 0)
                        /\ Fresh(msg'[m]) => prov'[m].subs = 0
    BY DEF OfferedOnce, ProvKept, Steady, Quieter
  <1>3. \A m \in Added : prov'[m].subs = 0 /\ prov'[m].st = "no" BY DEF ProvKept, ProvMoves, NotSubmitted
  <1>4. \A j \in Jobs : job'[j].st # "idle" => job'[j] = job[j] BY DEF JobsKept, IdleJob
  <1>5. Msgs \subseteq 1 .. Len(msg') BY OldOrAdded DEF Steady
  <1>6. \A j \in Jobs : /\ job'[j].st # "idle" => job'[j].m \in 1 .. Len(msg') /\ job'[j].tok # 0
                        /\ job'[j].st \in Offering => ~Fresh(msg'[job'[j].m])
                        /\ job'[j].st \in {"sending", "unstarted"} => prov'[job'[j].m].subs = 0
    <2> SUFFICES ASSUME NEW j \in Jobs, job'[j].st # "idle"
                 PROVE  /\ job'[j].m \in 1 .. Len(msg') /\ job'[j].tok # 0
                        /\ job'[j].st \in Offering => ~Fresh(msg'[job'[j].m])
                        /\ job'[j].st \in {"sending", "unstarted"} => prov'[job'[j].m].subs = 0
      BY DEF Offering
    <2>1. job'[j] = job[j] /\ job[j].m \in Msgs /\ job[j].tok # 0 BY <1>4 DEF OfferedOnce
    <2> QED BY <2>1, <1>5 DEF OfferedOnce, Steady, Quieter, ProvKept
  <1>7. \A j, k \in Jobs : job'[j].st \in Offering /\ job'[k].st \in Offering /\ job'[j].m = job'[k].m => j = k
    BY <1>4 DEF OfferedOnce, Offering
  <1>8. \A m \in 1 .. Len(msg') : /\ prov'[m].subs <= 1 /\ (prov'[m].st = "no" <=> prov'[m].subs = 0)
                                  /\ Fresh(msg'[m]) => prov'[m].subs = 0
    BY <1>1, <1>2, <1>3
  <1> QED BY <1>6, <1>7, <1>8 DEF OfferedOnce, Msgs

\* What is obsolete stays obsolete: no wake disappears.
LEMMA StaysObsolete ==
  ASSUME WakeTypeOK, Stepped, NEW m \in Msgs, ObsoleteRow(m)
  PROVE  ObsoleteRow(m)'
  <1>1. Calm(msg[m], msg'[m]) BY DEF Stepped
  <1>2. Superseding(m) => Superseding(m)'
    <2> SUFFICES ASSUME Superseding(m) PROVE Superseding(m)' OBVIOUS
    <2>1. PICK n \in Wakes : n > m BY DEF Superseding
    <2>2. n \in Msgs /\ n \in 1 .. Len(msg') BY <2>1, OldOrAdded DEF Wakes
    <2>3. n \in Wakes' BY <2>1, <2>2 DEF Wakes, IsWake, Msgs, Stepped, Calm
    <2> QED BY <1>1, <2>1, <2>3 DEF Superseding, Calm
  <1> QED BY <1>1, <1>2 DEF ObsoleteRow, Calm

\* A message gone from the queue was submitted, so that a dead row of it is closed.
LEMMA GoneIsClosed ==
  ASSUME WakeTypeOK, OfferedOnce, NEW m \in Msgs, prov[m].st = "gone", msg[m].st \in {"handled", "dead"}
  PROVE  Closed(msg[m])
  BY RowsTyped DEF OfferedOnce, Fresh, Closed, MsgRows, ProvRows

\* The removal under way, and every removal performed, stay as they were.
LEMMA StillRemoved ==
  ASSUME WakeTypeOK, Stepped, OfferedOnce, ProvMoves, RemovalKept, RemovalSound, RemovalVisible
  PROVE  RemovalSound' /\ RemovalVisible'
  <1>1. \A m \in 1 .. Len(msg') : m \in Msgs \/ m \in Added BY OldOrAdded
  <1>2. Msgs \subseteq 1 .. Len(msg') BY OldOrAdded
  <1>3. RemovalVisible'
    <2> SUFFICES ASSUME NEW m \in 1 .. Len(msg'), prov'[m].st = "gone"
                 PROVE  m \in intents' \/ msg'[m].st \in {"handled", "dead"}
      BY DEF RemovalVisible, Msgs
    <2>1. m \in Msgs BY <1>1 DEF ProvMoves, NotSubmitted
    <2>2. prov[m].st = "gone" BY <2>1 DEF ProvMoves
    <2>3. m \in intents \/ Closed(msg[m]) BY <2>1, <2>2, GoneIsClosed DEF RemovalVisible
    <2> QED BY <2>1, <2>3 DEF RemovalKept, Stepped, Calm, Closed
  <1>4. CASE retract' = NoRetract
    BY <1>3, <1>4 DEF RemovalSound, NoRetract
  <1>5. CASE retract' = retract /\ retract.st # "idle"
    <2> PICK m : m = retract.m OBVIOUS
    <2>1. m \in Msgs /\ m \in 1 .. Len(msg') BY <1>2, <1>5 DEF RemovalSound
    <2>2. prov[m].st # "gone" => prov'[m].st # "gone" BY <2>1 DEF ProvMoves
    <2>3. ASSUME retract.st \in {"asked", "answered"}
          PROVE  /\ m \in intents' /\ ObsoleteRow(m)'
                 /\ msg'[m].st \in {"delivered", "acknowledged"} => msg'[m].gen = retract.gen
      <3>1. m \in intents /\ ObsoleteRow(m)
            /\ (msg[m].st \in {"delivered", "acknowledged"} => msg[m].gen = retract.gen)
        BY <2>3 DEF RemovalSound
      <3>2. ObsoleteRow(m)' BY <2>1, <3>1, StaysObsolete
      <3>3. Calm(msg[m], msg'[m]) BY <2>1 DEF Stepped
      <3> QED BY <3>1, <3>2, <3>3 DEF RemovalKept, Calm, ObsoleteRow, Closed
    <2> QED BY <1>3, <1>5, <2>1, <2>2, <2>3 DEF RemovalSound, Msgs
  <1>6. CASE retract' = retract /\ retract.st = "idle"
    BY <1>3, <1>6 DEF RemovalSound
  <1> QED BY <1>3, <1>4, <1>5, <1>6 DEF RemovalKept

\* The turn that was seen to have ended has ended.
LEMMA StillScanned ==
  ASSUME WakeTypeOK, Stepped, ProvMoves, ScanKept, ScanSound
  PROVE  ScanSound'
  <1> Msgs \subseteq 1 .. Len(msg') BY OldOrAdded
  <1> QED BY DEF ScanSound, ScanKept, ProvMoves, Msgs

\* The parts of the invariant that a step keeps under its frame.
LEMMA StepParts ==
  ASSUME WakeInv, Stepped, ScalarsOK', ProvMoves, job' \in [Jobs -> JobRows], BoundaryKept, RemovalKept, ScanKept,
         ObligationKept', OneLiveWake', ClaimedInOrder', OfferedOnce'
  PROVE  WakeInv'
  <1>1. WakeTypeOK BY DEF WakeInv
  <1>2. scan' \in Candidates /\ retract' \in Retractions
    <2>1. NoScan \in Candidates BY DEF NoScan, Candidates
    <2>2. NoRetract \in Retractions BY DEF NoRetract, Retractions
    <2> QED BY <1>1, <2>1, <2>2 DEF ScanKept, RemovalKept, WakeTypeOK
  <1>3. intents' \subseteq 1 .. Len(msg') BY <1>1, OldOrAdded DEF RemovalKept, WakeTypeOK
  <1>4. WakeTypeOK' /\ RowsSound' BY <1>2, <1>3, TypedStep DEF ProvMoves
  <1>5. WakesOfBoundary' BY <1>1, BoundaryFirst DEF WakeInv
  <1>6. RemovalSound' /\ RemovalVisible' BY <1>1, StillRemoved DEF WakeInv
  <1>7. ScanSound' BY <1>1, StillScanned DEF WakeInv
  <1> QED BY <1>4, <1>5, <1>6, <1>7 DEF WakeInv

\* A step that claims and submits nothing, under its frame, keeps the invariant.
LEMMA SteadyStep ==
  ASSUME WakeInv, Steady, ScalarsOK', ProvKept, JobsKept, BoundaryKept, RemovalKept, ScanKept,
         ObligationKept' /\ OneLiveWake'
  PROVE  WakeInv'
  <1>1. WakeTypeOK /\ Stepped BY DEF WakeInv, Steady
  <1>2. ClaimedInOrder' BY <1>1, OrderKept DEF WakeInv, Steady, Quieter
  <1>3. OfferedOnce' BY <1>1, StillOfferedOnce DEF WakeInv
  <1> QED BY <1>1, <1>2, <1>3, StepParts DEF ProvKept, JobsKept

\* The frame of the steps that leave the thread, the jobs and the scans alone.
LEMMA Unchanged ==
  ASSUME WakeTypeOK
  PROVE  /\ Stepped /\ Len(msg') = Len(msg) /\ Added = {} /\ UNCHANGED prov => ProvKept
         /\ UNCHANGED job => JobsKept
         /\ UNCHANGED <<retract, intents>> => RemovalKept
         /\ UNCHANGED scan => ScanKept
         /\ Added = {} /\ UNCHANGED boundary => BoundaryKept
         /\ UNCHANGED <<boundary, turn, done, route, ready, proof, epoch, faults>> => ScalarsOK'
         /\ ScalarsOK
  <1>1. ScalarsOK BY DEF WakeTypeOK, ScalarsOK
  <1>2. ASSUME Stepped, Len(msg') = Len(msg), Added = {}, UNCHANGED prov PROVE ProvKept
    BY <1>2 DEF ProvKept, ProvMoves, WakeTypeOK, Msgs
  <1> QED BY <1>1, <1>2 DEF WakeTypeOK, JobsKept, RemovalKept, ScanKept, BoundaryKept, ScalarsOK

\* The same, when the Boundary is served as before.
LEMMA PlainStep ==
  ASSUME WakeInv, Steady, ScalarsOK', ProvKept, JobsKept, BoundaryKept, RemovalKept, ScanKept, ServedStep
  PROVE  WakeInv'
  <1>1. WakeTypeOK /\ Stepped /\ ObligationKept /\ OneLiveWake BY DEF WakeInv, Steady
  <1>2. ObligationKept' /\ OneLiveWake' BY <1>1, StillServed
  <1> QED BY <1>2, SteadyStep

-----------------------------------------------------------------------------
(* The initial states *)

\* The first row of an old conversation is well formed.
LEMMA OldRow ==
  LET r == [kind |-> "wake", st |-> "handled", gen |-> 1, own |-> 0, live |-> FALSE,
            pol |-> "terminal", sup |-> FALSE, conf |-> TRUE, rt |-> 1]
  IN  r \in MsgRows /\ RowSound(r) /\ ~Fresh(r)
  BY WakeAssumption DEF WakeConstants, MsgRows, RowSound, Fresh, DeliveryStates, Live

\* No message, or one old wake that was handled: WakeInv holds.
LEMMA InitWakeInv == WakeInit => WakeInv
  <1> SUFFICES ASSUME WakeInit PROVE WakeInv OBVIOUS
  <1>1. /\ ScalarsOK /\ job \in [Jobs -> JobRows] /\ scan = NoScan /\ scan \in Candidates
        /\ retract = NoRetract /\ retract \in Retractions /\ intents = {}
        /\ \A j \in Jobs : job[j] = IdleJob
    <2>1. MaxFaults \in Nat BY WakeAssumption DEF WakeConstants
    <2>2. IdleJob \in JobRows BY DEF IdleJob, JobRows
    <2>3. NoScan \in Candidates BY DEF NoScan, Candidates
    <2>4. NoRetract \in Retractions BY DEF NoRetract, Retractions
    <2>5. boundary \in {"none", "open"} BY DEF WakeInit
    <2>6. /\ turn = "none" /\ done = FALSE /\ ready = TRUE /\ route = [n |-> 1, st |-> "waiting"]
          /\ proof = {} /\ epoch = 1 /\ faults = 0
      BY DEF WakeInit
    <2>7. done \in BOOLEAN /\ ready \in BOOLEAN BY <2>6
    <2>8. ScalarsOK BY <2>1, <2>5, <2>6, <2>7 DEF ScalarsOK
    <2> QED BY <2>2, <2>3, <2>4, <2>8 DEF WakeInit
  <1>2. /\ RemovalSound /\ ScanSound
        /\ \A j \in Jobs : job[j].st = "idle"
    BY <1>1 DEF RemovalSound, ScanSound, NoRetract, IdleJob
  <1>3. MaxMessages \in Nat /\ 1 <= MaxMessages BY WakeAssumption DEF WakeConstants
  <1>4. CASE msg = <<>> /\ prov = <<>> /\ boundary = "none"
    <2>1. msg \in Seq(MsgRows) /\ prov \in Seq(ProvRows) /\ Len(msg) = 0 /\ Len(prov) = 0
      BY <1>4
    <2>2. Msgs = {} BY <2>1 DEF Msgs
    <2>3. WakeTypeOK BY <1>1, <1>3, <2>1, <2>2 DEF WakeTypeOK, ScalarsOK
    <2>4. Wakes = {} /\ ~Obliged BY <1>4, <2>2 DEF Wakes, Obliged
    <2> QED BY <1>2, <2>2, <2>3, <2>4
      DEF WakeInv, RowsSound, ClaimedInOrder, OfferedOnce, Offering, WakesOfBoundary, ObligationKept,
          OneLiveWake, RemovalVisible
  <1>5. CASE boundary = "open"
    <2> PICK r \in MsgRows : msg = <<r>> /\ r.kind = "wake" /\ r.st = "handled" /\ RowSound(r) /\ ~Fresh(r)
      BY <1>5, OldRow DEF WakeInit
    <2> PICK q \in ProvRows : prov = <<q>> /\ q = [st |-> "ended", subs |-> 1]
      BY <1>5 DEF WakeInit, ProvRows
    <2>1. /\ msg \in Seq(MsgRows) /\ prov \in Seq(ProvRows) /\ Len(msg) = 1 /\ Len(prov) = 1
          /\ msg[1] = r /\ prov[1] = q
      OBVIOUS
    <2>2. Msgs = {1} BY <2>1 DEF Msgs
    <2>3. WakeTypeOK BY <1>1, <1>3, <2>1, <2>2 DEF WakeTypeOK, ScalarsOK, RowSound
    <2>4. RowsSound /\ ClaimedInOrder BY <2>1, <2>2 DEF RowsSound, ClaimedInOrder
    <2>5. OfferedOnce BY <1>2, <2>1, <2>2 DEF OfferedOnce, Offering
    <2>6. Wakes = {1} BY <2>1, <2>2 DEF Wakes, IsWake
    <2>7. WakesOfBoundary /\ ObligationKept /\ OneLiveWake
      BY <1>5, <2>1, <2>6 DEF WakesOfBoundary, ObligationKept, OneLiveWake
    <2>8. RemovalVisible BY <2>1, <2>2 DEF RemovalVisible
    <2> QED BY <1>2, <2>3, <2>4, <2>5, <2>7, <2>8 DEF WakeInv
  <1> QED BY <1>4, <1>5 DEF WakeInit

-----------------------------------------------------------------------------
(* Steps that change no row *)

\* The frame of a step that changes no row and nothing of the thread and the jobs.
LEMMA NoRowFrame ==
  ASSUME WakeInv, UNCHANGED <<msg, prov, job, retract, intents>>, scan' \in {scan, NoScan}, ScalarsOK',
         boundary' = "none" => boundary = "none",
         Obliged' => Obliged /\ (turn' = "none" => turn = "none")
  PROVE  WakeInv'
  <1>1. WakeTypeOK /\ RowsSound BY DEF WakeInv
  <1>2. Steady /\ Len(msg') = Len(msg) /\ Added = {} /\ \A n \in Msgs : Serving(msg[n], msg'[n])
    BY <1>1, NoRow
  <1>3. ProvKept /\ JobsKept /\ RemovalKept /\ ScanKept BY <1>1, <1>2, Unchanged DEF Steady, ScanKept
  <1>4. BoundaryKept /\ ServedStep BY <1>2 DEF BoundaryKept, ServedStep
  <1> QED BY <1>2, <1>3, <1>4, PlainStep

\* The Work ends, the requester replies, a decision turn begins or expires, a route or catalog is lost.
LEMMA WorldSteps ==
  ASSUME WakeInv, EndWork \/ RequesterReplies \/ AcquireTurn \/ LeaseOfTurnExpires \/ RouteLost \/ CatalogRollover
  PROVE  WakeInv'
  <1>1. ScalarsOK /\ MaxFaults \in Nat BY Unchanged, RowsTyped DEF WakeInv
  <1>2. CASE EndWork
    BY <1>1, <1>2, NoRowFrame DEF EndWork, ScalarsOK, Obliged
  <1>3. CASE RequesterReplies
    BY <1>1, <1>3, NoRowFrame DEF RequesterReplies, ScalarsOK, Obliged
  <1>4. CASE AcquireTurn
    BY <1>1, <1>4, NoRowFrame DEF AcquireTurn, ScalarsOK, Obliged
  <1>5. CASE LeaseOfTurnExpires
    BY <1>1, <1>5, NoRowFrame DEF LeaseOfTurnExpires, ScalarsOK, Obliged
  <1>6. CASE RouteLost
    BY <1>1, <1>6, NoRowFrame DEF RouteLost, ScalarsOK, Obliged
  <1>7. CASE CatalogRollover
    <2>1. ready' \in BOOLEAN BY <1>7 DEF CatalogRollover
    <2>2. faults' \in 0 .. MaxFaults BY <1>1, <1>7 DEF CatalogRollover, ScalarsOK
    <2>3. ScalarsOK' BY <1>1, <1>7, <2>1, <2>2 DEF CatalogRollover, ScalarsOK
    <2> QED BY <1>7, <2>3, NoRowFrame DEF CatalogRollover, Obliged
  <1> QED BY <1>2, <1>3, <1>4, <1>5, <1>6, <1>7

\* A turn of the Desktop thread starts or ends.
LEMMA ProviderSteps ==
  ASSUME WakeInv, NEW m \in Msgs, ProviderStarts(m) \/ ProviderEnds(m)
  PROVE  WakeInv'
  <1>1. WakeTypeOK /\ RowsSound /\ ScalarsOK BY Unchanged DEF WakeInv
  <1>2. Steady /\ Len(msg') = Len(msg) /\ Added = {} /\ \A n \in Msgs : Serving(msg[n], msg'[n])
    BY <1>1, NoRow DEF ProviderStarts, ProviderEnds
  <1>3. PICK s \in {"running", "ended"} : prov' = [prov EXCEPT ![m].st = s] /\ prov[m].st \notin {"no", "gone", "ended"}
    BY DEF ProviderStarts, ProviderEnds
  <1>4. prov \in Seq(ProvRows) /\ prov[m] \in ProvRows /\ m \in 1 .. Len(prov) /\ Len(prov) = Len(msg)
    BY <1>1, RowsTyped DEF WakeTypeOK, Msgs
  <1>5. prov' = [prov EXCEPT ![m] = [prov[m] EXCEPT !.st = s]] /\ [prov[m] EXCEPT !.st = s] \in ProvRows
    BY <1>3, <1>4 DEF ProvRows
  <1>6. /\ prov' \in Seq(ProvRows) /\ Len(prov') = Len(prov)
        /\ \A n \in 1 .. Len(prov) : prov'[n] = IF n = m THEN [prov[m] EXCEPT !.st = s] ELSE prov[n]
    BY <1>4, <1>5, ExceptSeq
  <1>7. ProvKept
    BY <1>2, <1>3, <1>4, <1>6 DEF ProvKept, ProvMoves, Msgs, ProvRows
  <1>8. JobsKept /\ RemovalKept /\ ScanKept /\ BoundaryKept /\ ScalarsOK'
    BY <1>1, <1>2, Unchanged DEF ProviderStarts, ProviderEnds, Steady
  <1>9. ServedStep BY <1>2 DEF ServedStep, Obliged, ProviderStarts, ProviderEnds
  <1> QED BY <1>2, <1>7, <1>8, <1>9, PlainStep

\* The Dispatcher dies: its jobs, scan and removal are forgotten, the intents are not.
LEMMA CrashStep ==
  ASSUME WakeInv, Crash
  PROVE  WakeInv'
  <1>1. WakeTypeOK /\ RowsSound /\ ScalarsOK /\ MaxFaults \in Nat BY Unchanged, RowsTyped DEF WakeInv
  <1>2. Steady /\ Len(msg') = Len(msg) /\ Added = {} /\ \A n \in Msgs : Serving(msg[n], msg'[n])
    BY <1>1, NoRow DEF Crash
  <1>3. ProvKept /\ BoundaryKept BY <1>1, <1>2, Unchanged DEF Crash, Steady
  <1>4. JobsKept BY DEF Crash, JobsKept, IdleJob, JobRows
  <1>5. RemovalKept /\ ScanKept BY DEF Crash, RemovalKept, ScanKept
  <1>6. ScalarsOK' BY <1>1 DEF Crash, ScalarsOK
  <1>7. ServedStep BY <1>2 DEF ServedStep, Obliged, Crash
  <1> QED BY <1>2, <1>3, <1>4, <1>5, <1>6, <1>7, PlainStep

-----------------------------------------------------------------------------
(* Steps that change one row *)

\* The frame of a step that changes one row and nothing of the thread, the scans and the Boundary.
LEMMA OneRowFrame ==
  ASSUME WakeInv, NEW m \in Msgs, NEW s \in MsgRows, msg' = [msg EXCEPT ![m] = s],
         Calm(msg[m], s), RowSound(s), Quieter(msg[m], s),
         Obliged /\ IsWake(m) => Serving(msg[m], s),
         UNCHANGED <<prov, boundary, turn, done, retract, intents, scan>>, JobsKept, ScalarsOK'
  PROVE  WakeInv'
  <1>1. WakeTypeOK /\ RowsSound BY DEF WakeInv
  <1>2. /\ Steady /\ Len(msg') = Len(msg) /\ Added = {} /\ msg'[m] = s
        /\ \A n \in Msgs : n # m => Serving(msg[n], msg'[n])
    BY <1>1, OneRow
  <1>3. ProvKept /\ RemovalKept /\ ScanKept /\ BoundaryKept BY <1>1, <1>2, Unchanged DEF Steady
  <1>4. ServedStep BY <1>2 DEF ServedStep, Obliged
  <1> QED BY <1>2, <1>3, <1>4, PlainStep

\* What a row is about: its type, and that it is sound.
LEMMA RowOf ==
  ASSUME WakeInv, NEW m \in Msgs
  PROVE  /\ msg \in [Msgs -> MsgRows] /\ msg[m] \in MsgRows /\ RowSound(msg[m])
         /\ msg[m].gen \in Nat /\ MaxGen \in Nat /\ 1 <= MaxGen /\ msg[m].gen >= 1 /\ msg[m].gen <= MaxGen
  <1>1. WakeTypeOK /\ RowsSound BY DEF WakeInv
  <1>2. msg \in [Msgs -> MsgRows] /\ msg[m] \in MsgRows /\ MaxGen \in Nat \ {0} BY <1>1, RowsTyped
  <1> QED BY <1>1, <1>2 DEF RowsSound, MsgRows

\* The CAO acknowledges a message, or marks it handled.
LEMMA AcknowledgeStep ==
  ASSUME WakeInv, NEW m \in Msgs, Acknowledge(m)
  PROVE  WakeInv'
  <1> DEFINE s == [msg[m] EXCEPT !.st = "acknowledged", !.own = 0, !.live = FALSE]
  <1>1. msg \in [Msgs -> MsgRows] /\ msg[m] \in MsgRows /\ RowSound(msg[m]) BY RowOf
  <1>2. msg' = [msg EXCEPT ![m] = s] BY <1>1 DEF Acknowledge
  <1>3. s \in MsgRows BY <1>1 DEF MsgRows, DeliveryStates
  <1>4. s.st = "acknowledged" /\ s.own = 0 /\ s.live = FALSE /\ s.gen = msg[m].gen /\ s.kind = msg[m].kind
        /\ s.pol = msg[m].pol /\ s.sup = msg[m].sup
    BY <1>1 DEF MsgRows
  <1>5. msg[m].st \in {"queued", "leased", "dispatched", "delivered"} BY DEF Acknowledge
  <1>6. Calm(msg[m], s) /\ RowSound(s) /\ Quieter(msg[m], s) /\ Serving(msg[m], s)
    <2>1. Calm(msg[m], s) BY <1>1, <1>4, <1>5 DEF Calm, First, Closed, MsgRows
    <2>2. RowSound(s) BY <1>1, <1>4, <1>5 DEF RowSound, Live
    <2>3. Quieter(msg[m], s) /\ Serving(msg[m], s) BY <1>4, <1>5 DEF Quieter, Serving, Fresh, Failed, Live
    <2> QED BY <2>1, <2>2, <2>3
  <1>7. WakeTypeOK BY DEF WakeInv
  <1>8. JobsKept /\ ScalarsOK' BY <1>7, Unchanged DEF Acknowledge
  <1>9. UNCHANGED <<prov, boundary, turn, done, retract, intents, scan>> BY DEF Acknowledge
  <1> HIDE DEF s
  <1> QED BY <1>2, <1>3, <1>6, <1>8, <1>9, OneRowFrame

\* A message is handled, or a dead one is settled by its late receipt.
LEMMA HandleStep ==
  ASSUME WakeInv, NEW m \in Msgs, AcknowledgeDead(m) \/ HandleMessage(m)
  PROVE  WakeInv'
  <1> DEFINE s == [msg[m] EXCEPT !.st = "handled"]
  <1>1. msg \in [Msgs -> MsgRows] /\ msg[m] \in MsgRows /\ RowSound(msg[m]) BY RowOf
  <1>2. msg' = [msg EXCEPT ![m] = s] BY <1>1 DEF AcknowledgeDead, HandleMessage
  <1>3. s \in MsgRows BY <1>1 DEF MsgRows, DeliveryStates
  <1>4. s.st = "handled" /\ s.own = msg[m].own /\ s.live = msg[m].live /\ s.gen = msg[m].gen /\ s.kind = msg[m].kind
        /\ s.pol = msg[m].pol /\ s.sup = msg[m].sup
    BY <1>1 DEF MsgRows
  <1>5. msg[m].st \in {"dead", "acknowledged"} BY DEF AcknowledgeDead, HandleMessage, MayHandle
  <1>6. Calm(msg[m], s) BY <1>1, <1>4, <1>5 DEF Calm, First, Closed, MsgRows
  <1>7. RowSound(s) BY <1>1, <1>4, <1>5 DEF RowSound, Live
  <1>8. Quieter(msg[m], s) BY <1>4, <1>5 DEF Quieter, Fresh
  <1>9. Obliged /\ IsWake(m) => Serving(msg[m], s)
    BY DEF AcknowledgeDead, HandleMessage, MayHandle, Obliged
  <1>10. WakeTypeOK BY DEF WakeInv
  <1>11. JobsKept /\ ScalarsOK' BY <1>10, Unchanged DEF AcknowledgeDead, HandleMessage
  <1>12. UNCHANGED <<prov, boundary, turn, done, retract, intents, scan>> BY DEF AcknowledgeDead, HandleMessage
  <1> HIDE DEF s
  <1> QED BY <1>2, <1>3, <1>6, <1>7, <1>8, <1>9, <1>11, <1>12, OneRowFrame

\* The lease of a row runs out.
LEMMA LeaseStep ==
  ASSUME WakeInv, NEW m \in Msgs, LeaseRunsOut(m)
  PROVE  WakeInv'
  <1> DEFINE s == [msg[m] EXCEPT !.live = FALSE]
  <1>1. msg \in [Msgs -> MsgRows] /\ msg[m] \in MsgRows /\ RowSound(msg[m]) BY RowOf
  <1>2. msg' = [msg EXCEPT ![m] = s] BY <1>1 DEF LeaseRunsOut
  <1>3. s \in MsgRows BY <1>1 DEF MsgRows
  <1>4. s.st = msg[m].st /\ s.own = msg[m].own /\ s.live = FALSE /\ s.gen = msg[m].gen /\ s.kind = msg[m].kind
        /\ s.pol = msg[m].pol /\ s.sup = msg[m].sup
    BY <1>1 DEF MsgRows
  <1>5. Calm(msg[m], s) BY <1>1, <1>4 DEF Calm, First, Closed, MsgRows
  <1>6. RowSound(s) BY <1>1, <1>4 DEF RowSound, Live
  <1>7. Quieter(msg[m], s) /\ Serving(msg[m], s) BY <1>4 DEF Quieter, Serving, Fresh, Failed, Live
  <1>8. WakeTypeOK BY DEF WakeInv
  <1>9. JobsKept /\ ScalarsOK' BY <1>8, Unchanged DEF LeaseRunsOut
  <1>10. UNCHANGED <<prov, boundary, turn, done, retract, intents, scan>> BY DEF LeaseRunsOut
  <1> HIDE DEF s
  <1> QED BY <1>2, <1>3, <1>5, <1>6, <1>7, <1>9, <1>10, OneRowFrame

\* A queued or acknowledged informational wake is superseded by a Boundary.
LEMMA CoalesceStep ==
  ASSUME WakeInv, NEW m \in Msgs, CoalesceProgress(m)
  PROVE  WakeInv'
  <1> DEFINE s == [msg[m] EXCEPT !.st = "dead", !.pol = "terminal", !.sup = TRUE]
  <1>1. msg \in [Msgs -> MsgRows] /\ msg[m] \in MsgRows /\ RowSound(msg[m]) BY RowOf
  <1>2. msg' = [msg EXCEPT ![m] = s] BY <1>1 DEF CoalesceProgress
  <1>3. s \in MsgRows BY <1>1 DEF MsgRows, DeliveryStates
  <1>4. s.st = "dead" /\ s.own = msg[m].own /\ s.live = msg[m].live /\ s.gen = msg[m].gen /\ s.kind = msg[m].kind
        /\ s.pol = "terminal" /\ s.sup = TRUE
    BY <1>1 DEF MsgRows
  <1>5. msg[m].st \in {"queued", "acknowledged"} /\ msg[m].kind = "info" BY DEF CoalesceProgress, Superseding
  <1>6. Calm(msg[m], s) BY <1>1, <1>4, <1>5 DEF Calm, First, Closed, MsgRows
  <1>7. RowSound(s) BY <1>1, <1>4, <1>5 DEF RowSound, Live
  <1>8. Quieter(msg[m], s) BY <1>4, <1>5 DEF Quieter, Fresh
  <1>9. ~IsWake(m) BY <1>5 DEF IsWake
  <1>10. WakeTypeOK BY DEF WakeInv
  <1>11. JobsKept /\ ScalarsOK' BY <1>10, Unchanged DEF CoalesceProgress
  <1>12. UNCHANGED <<prov, boundary, turn, done, retract, intents, scan>> BY DEF CoalesceProgress
  <1> HIDE DEF s
  <1> QED BY <1>2, <1>3, <1>6, <1>7, <1>8, <1>9, <1>11, <1>12, OneRowFrame

\* A job that ends leaves the others alone.
LEMMA JobEnds ==
  ASSUME WakeInv, NEW j \in Jobs, Ends(j)
  PROVE  JobsKept
  <1>1. job \in [Jobs -> JobRows] BY DEF WakeInv, WakeTypeOK
  <1>2. IdleJob \in JobRows BY DEF IdleJob, JobRows
  <1> QED BY <1>1, <1>2 DEF Ends, JobsKept

\* A job under way names a message, and has a token.
LEMMA JobOf ==
  ASSUME WakeInv, NEW j \in Jobs, job[j].st # "idle"
  PROVE  job[j].m \in Msgs /\ job[j].tok # 0 /\ job[j] \in JobRows
  BY DEF WakeInv, WakeTypeOK, OfferedOnce

\* The route stays typed, whether or not the runtime is freed.
LEMMA FreedTyped ==
  ASSUME WakeInv, NEW j \in Jobs, route' = Freed(j) \/ route' = [route EXCEPT !.st = "waiting"] \/ route' = route,
         UNCHANGED <<boundary, turn, done, ready, proof, epoch, faults>>
  PROVE  ScalarsOK'
  <1>1. WakeTypeOK /\ ScalarsOK BY Unchanged DEF WakeInv
  <1>2. route' \in [n : Nat, st : {"waiting", "busy", "missing"}] BY <1>1 DEF ScalarsOK, Freed
  <1> QED BY <1>1, <1>2 DEF ScalarsOK

\* A job ends, and no row changes.
LEMMA NothingSent ==
  ASSUME WakeInv, NEW j \in Jobs, UNCHANGED <<msg, prov, boundary, turn, done, retract, intents, scan>>,
         Ends(j), ScalarsOK'
  PROVE  WakeInv'
  <1>1. WakeTypeOK /\ RowsSound BY DEF WakeInv
  <1>2. Steady /\ Len(msg') = Len(msg) /\ Added = {} /\ \A n \in Msgs : Serving(msg[n], msg'[n])
    BY <1>1, NoRow
  <1>3. ProvKept /\ RemovalKept /\ ScanKept /\ BoundaryKept BY <1>1, <1>2, Unchanged DEF Steady
  <1>4. ServedStep BY <1>2 DEF ServedStep, Obliged
  <1>5. JobsKept BY JobEnds
  <1> QED BY <1>2, <1>3, <1>4, <1>5, PlainStep

-----------------------------------------------------------------------------
(* The steps of a dispatch job *)

\* A row that goes back to the queue: its next generation is due.
LEMMA Requeue ==
  ASSUME WakeInv, NEW m \in Msgs, msg[m].st \in {"leased", "dispatched"}, msg[m].gen < MaxGen,
         msg' = BackToQueue(m)
  PROVE  \E s \in MsgRows :
            /\ msg' = [msg EXCEPT ![m] = s] /\ s.st = "queued" /\ s.gen = msg[m].gen + 1
            /\ Calm(msg[m], s) /\ RowSound(s) /\ Serving(msg[m], s)
            /\ msg[m].st = "leased" => Quieter(msg[m], s)
  <1> DEFINE s == [msg[m] EXCEPT !.st = "queued", !.gen = msg[m].gen + 1, !.own = 0, !.live = FALSE]
  <1>1. /\ msg \in [Msgs -> MsgRows] /\ msg[m] \in MsgRows /\ RowSound(msg[m])
        /\ msg[m].gen \in Nat /\ MaxGen \in Nat /\ msg[m].gen >= 1
    BY RowOf
  <1>2. msg' = [msg EXCEPT ![m] = s] BY <1>1 DEF BackToQueue
  <1>3. msg[m].gen + 1 \in 1 .. MaxGen BY <1>1
  <1>4. s \in MsgRows BY <1>1, <1>3 DEF MsgRows, DeliveryStates
  <1>5. s.st = "queued" /\ s.own = 0 /\ s.live = FALSE /\ s.gen = msg[m].gen + 1 /\ s.kind = msg[m].kind
        /\ s.pol = msg[m].pol /\ s.sup = msg[m].sup
    BY <1>1 DEF MsgRows
  <1>6. s.gen >= msg[m].gen /\ s.gen # 1 BY <1>1, <1>5
  <1>7. Calm(msg[m], s) BY <1>5, <1>6 DEF Calm, First, Closed
  <1>8. RowSound(s) BY <1>1, <1>5 DEF RowSound, Live
  <1>9. Serving(msg[m], s) /\ (msg[m].st = "leased" => Quieter(msg[m], s))
    BY <1>5 DEF Quieter, Serving, Fresh, Failed, Live
  <1> HIDE DEF s
  <1> QED BY <1>2, <1>4, <1>5, <1>7, <1>8, <1>9

\* The wake waits for a connection, or for its next attempt.
LEMMA BackStep ==
  ASSUME WakeInv, NEW j \in Jobs, job[j].st = "leased", Holds(j, "leased"), Ends(j),
         msg[job[j].m].gen < MaxGen, msg' = BackToQueue(job[j].m),
         UNCHANGED <<prov, boundary, turn, done, route, ready, proof, scan, retract, intents, epoch, faults>>
  PROVE  WakeInv'
  <1> PICK m \in Msgs : m = job[j].m BY JobOf
  <1>1. msg[m].st = "leased" BY DEF Holds
  <1>2. PICK s \in MsgRows : msg' = [msg EXCEPT ![m] = s] /\ Calm(msg[m], s) /\ RowSound(s)
                             /\ Serving(msg[m], s) /\ Quieter(msg[m], s)
    BY <1>1, Requeue
  <1>3. JobsKept BY JobEnds
  <1>4. ScalarsOK' BY FreedTyped
  <1> QED BY <1>2, <1>3, <1>4, OneRowFrame

\* The attempts are used up: the wake is dead, but may be reactivated.
LEMMA GaveUpStep ==
  ASSUME WakeInv, NEW j \in Jobs, job[j].st = "leased", Holds(j, "leased"), Ends(j),
         msg' = GaveUp(job[j].m),
         UNCHANGED <<prov, boundary, turn, done, route, ready, proof, scan, retract, intents, epoch, faults>>
  PROVE  WakeInv'
  <1> PICK m \in Msgs : m = job[j].m BY JobOf
  <1> DEFINE s == [msg[m] EXCEPT !.st = "dead", !.own = 0, !.live = FALSE, !.pol = "retryable"]
  <1>1. msg \in [Msgs -> MsgRows] /\ msg[m] \in MsgRows /\ RowSound(msg[m]) BY RowOf
  <1>2. msg' = [msg EXCEPT ![m] = s] BY <1>1 DEF GaveUp
  <1>3. s \in MsgRows BY <1>1 DEF MsgRows, DeliveryStates
  <1>4. s.st = "dead" /\ s.own = 0 /\ s.live = FALSE /\ s.gen = msg[m].gen /\ s.kind = msg[m].kind
        /\ s.pol = "retryable" /\ s.sup = msg[m].sup
    BY <1>1 DEF MsgRows
  <1>5. msg[m].st = "leased" BY DEF Holds
  <1>6. Calm(msg[m], s) BY <1>1, <1>4, <1>5 DEF Calm, First, Closed, MsgRows
  <1>7. RowSound(s) BY <1>1, <1>4, <1>5 DEF RowSound, Live
  <1>8. msg[m].sup = FALSE BY <1>1, <1>5 DEF RowSound, Live, MsgRows
  <1>9. Quieter(msg[m], s) /\ Serving(msg[m], s) BY <1>4, <1>5, <1>8 DEF Quieter, Serving, Fresh, Failed, Live
  <1>10. JobsKept BY JobEnds
  <1>11. ScalarsOK' BY FreedTyped
  <1> HIDE DEF s
  <1> QED BY <1>2, <1>3, <1>6, <1>7, <1>9, <1>10, <1>11, OneRowFrame

\* A claimed wake is parked, or no runtime is prepared for it.
LEMMA NotSentSteps ==
  ASSUME WakeInv, NEW j \in Jobs, Park(j) \/ NotPrepared(j)
  PROVE  WakeInv'
  <1>1. /\ job[j].st = "leased" /\ Ends(j)
        /\ UNCHANGED <<prov, boundary, turn, done, route, ready, proof, scan, retract, intents, epoch, faults>>
    BY DEF Park, NotPrepared
  <1>2. ScalarsOK' BY <1>1, FreedTyped
  <1>3. CASE UNCHANGED msg BY <1>1, <1>2, <1>3, NothingSent
  <1>4. CASE Holds(j, "leased") /\ msg[job[j].m].gen < MaxGen /\ msg' = BackToQueue(job[j].m)
    BY <1>1, <1>4, BackStep
  <1>5. CASE Holds(j, "leased") /\ msg' = GaveUp(job[j].m)
    BY <1>1, <1>5, GaveUpStep
  <1> QED BY <1>3, <1>4, <1>5 DEF Park, NotPrepared

\* The acceptance is recorded, or came too late to be.
LEMMA AcceptedStep ==
  ASSUME WakeInv, NEW j \in Jobs, SettleAccepted(j)
  PROVE  WakeInv'
  <1> PICK m \in Msgs : m = job[j].m BY JobOf DEF SettleAccepted
  <1> DEFINE s == [msg[m] EXCEPT !.st = "delivered", !.own = 0, !.live = FALSE, !.conf = TRUE]
  <1>1. msg \in [Msgs -> MsgRows] /\ msg[m] \in MsgRows /\ RowSound(msg[m]) BY RowOf
  <1>2. /\ Ends(j) /\ UNCHANGED <<prov, boundary, turn, done, ready, proof, scan, retract, intents, epoch, faults>>
        /\ route' = route \/ route' = [route EXCEPT !.st = "waiting"]
    BY DEF SettleAccepted
  <1>3. ScalarsOK' BY <1>2, FreedTyped
  <1>4. CASE UNCHANGED msg BY <1>2, <1>3, <1>4, NothingSent
  <1>5. CASE Holds(j, "dispatched")
             /\ msg' = [msg EXCEPT ![m].st = "delivered", ![m].own = 0, ![m].live = FALSE, ![m].conf = TRUE]
    <2>1. msg' = [msg EXCEPT ![m] = s] BY <1>1, <1>5
    <2>2. s \in MsgRows BY <1>1 DEF MsgRows, DeliveryStates
    <2>3. s.st = "delivered" /\ s.own = 0 /\ s.live = FALSE /\ s.gen = msg[m].gen /\ s.kind = msg[m].kind
          /\ s.pol = msg[m].pol /\ s.sup = msg[m].sup
      BY <1>1 DEF MsgRows
    <2>4. msg[m].st = "dispatched" BY <1>5 DEF Holds
    <2>5. Calm(msg[m], s) BY <1>1, <2>3, <2>4 DEF Calm, First, Closed, MsgRows
    <2>6. RowSound(s) BY <1>1, <2>3, <2>4 DEF RowSound, Live
    <2>7. Quieter(msg[m], s) /\ Serving(msg[m], s) BY <2>3, <2>4 DEF Quieter, Serving, Fresh, Failed, Live
    <2>8. JobsKept BY <1>2, JobEnds
    <2> HIDE DEF s
    <2> QED BY <1>2, <1>3, <2>1, <2>2, <2>5, <2>6, <2>7, <2>8, OneRowFrame
  <1> QED BY <1>4, <1>5 DEF SettleAccepted

\* The outcome stays unknown: the row is dispatched, without an owner.
LEMMA UnknownStep ==
  ASSUME WakeInv, NEW j \in Jobs, SettleUnknown(j)
  PROVE  WakeInv'
  <1> PICK m \in Msgs : m = job[j].m BY JobOf DEF SettleUnknown
  <1> DEFINE s == [msg[m] EXCEPT !.own = 0, !.live = FALSE]
  <1>1. msg \in [Msgs -> MsgRows] /\ msg[m] \in MsgRows /\ RowSound(msg[m]) BY RowOf
  <1>2. /\ Ends(j) /\ UNCHANGED <<prov, boundary, turn, done, ready, proof, scan, retract, intents, epoch, faults>>
        /\ route' = Freed(j)
    BY DEF SettleUnknown
  <1>3. ScalarsOK' BY <1>2, FreedTyped
  <1>4. CASE UNCHANGED msg BY <1>2, <1>3, <1>4, NothingSent
  <1>5. CASE Holds(j, "dispatched") /\ msg' = [msg EXCEPT ![m].own = 0, ![m].live = FALSE]
    <2>1. msg' = [msg EXCEPT ![m] = s] BY <1>1, <1>5
    <2>2. s \in MsgRows BY <1>1 DEF MsgRows
    <2>3. s.st = msg[m].st /\ s.own = 0 /\ s.live = FALSE /\ s.gen = msg[m].gen /\ s.kind = msg[m].kind
          /\ s.pol = msg[m].pol /\ s.sup = msg[m].sup
      BY <1>1 DEF MsgRows
    <2>4. msg[m].st = "dispatched" BY <1>5 DEF Holds
    <2>5. Calm(msg[m], s) BY <1>1, <2>3, <2>4 DEF Calm, First, Closed, MsgRows
    <2>6. RowSound(s) BY <1>1, <2>3, <2>4 DEF RowSound, Live
    <2>7. Quieter(msg[m], s) /\ Serving(msg[m], s) BY <2>3, <2>4 DEF Quieter, Serving, Fresh, Failed, Live
    <2>8. JobsKept BY <1>2, JobEnds
    <2> HIDE DEF s
    <2> QED BY <1>2, <1>3, <2>1, <2>2, <2>5, <2>6, <2>7, <2>8, OneRowFrame
  <1> QED BY <1>4, <1>5 DEF SettleUnknown

\* A wake that provably was not submitted waits for its next attempt: it still was not.
LEMMA RetryStep ==
  ASSUME WakeInv, NEW j \in Jobs, RetryUnstarted(j)
  PROVE  WakeInv'
  <1> PICK m \in Msgs : m = job[j].m BY JobOf DEF RetryUnstarted
  <1>1. /\ job[j].st = "unstarted" /\ msg[m].st = "dispatched" /\ msg[m].gen < MaxGen /\ msg' = BackToQueue(m)
        /\ Ends(j) /\ route' = Freed(j)
        /\ UNCHANGED <<prov, boundary, turn, done, ready, proof, scan, retract, intents, epoch, faults>>
    BY DEF RetryUnstarted, Holds
  <1>2. PICK s \in MsgRows : msg' = [msg EXCEPT ![m] = s] /\ s.st = "queued" /\ Calm(msg[m], s) /\ RowSound(s)
                             /\ Serving(msg[m], s)
    BY <1>1, Requeue
  <1>3. WakeTypeOK /\ RowsSound /\ OfferedOnce /\ ObligationKept /\ OneLiveWake /\ ClaimedInOrder BY DEF WakeInv
  <1>4. /\ Stepped /\ Len(msg') = Len(msg) /\ Added = {} /\ msg'[m] = s
        /\ \A n \in Msgs : n # m => msg'[n] = msg[n] /\ Quieter(msg[n], msg'[n]) /\ Serving(msg[n], msg'[n])
    BY <1>2, <1>3, OneRow
  <1>5. JobsKept /\ ScalarsOK' BY <1>1, JobEnds, FreedTyped
  <1>6. ProvKept /\ RemovalKept /\ ScanKept /\ BoundaryKept BY <1>1, <1>3, <1>4, Unchanged
  <1>7. ServedStep BY <1>1, <1>2, <1>4 DEF ServedStep, Obliged
  <1>8. ObligationKept' /\ OneLiveWake' BY <1>3, <1>4, <1>7, StillServed
  <1>9. \A n \in Msgs : msg'[n].st \in {"leased", "dispatched"} => msg[n].st \in {"leased", "dispatched"}
    BY <1>2, <1>4
  <1>10. ClaimedInOrder' BY <1>3, <1>4, <1>9, OrderKept
  <1>11. OfferedOnce'
    <2>1. prov[m].subs = 0 /\ job[j].st \in Offering BY <1>1, <1>3 DEF OfferedOnce, Offering
    <2>2. \A k \in Jobs : job'[k].st # "idle" => k # j /\ job'[k] = job[k]
      BY <1>3, <1>1 DEF Ends, IdleJob, WakeTypeOK
    <2>3. \A n \in Msgs : /\ prov'[n].subs <= 1 /\ (prov'[n].st = "no" <=> prov'[n].subs = 0)
                          /\ Fresh(msg'[n]) => prov'[n].subs = 0
      BY <1>1, <1>3, <1>4, <2>1 DEF OfferedOnce
    <2>4. \A k \in Jobs : /\ job'[k].st # "idle" => job'[k].m \in Msgs /\ job'[k].tok # 0
                          /\ job'[k].st \in Offering => ~Fresh(msg'[job'[k].m])
                          /\ job'[k].st \in {"sending", "unstarted"} => prov'[job'[k].m].subs = 0
      <3> SUFFICES ASSUME NEW k \in Jobs, job'[k].st # "idle"
                   PROVE  /\ job'[k].m \in Msgs /\ job'[k].tok # 0
                          /\ job'[k].st \in Offering => ~Fresh(msg'[job'[k].m])
                          /\ job'[k].st \in {"sending", "unstarted"} => prov'[job'[k].m].subs = 0
        BY DEF Offering
      <3>1. job'[k] = job[k] /\ k # j /\ job[k].m \in Msgs BY <1>3, <2>2 DEF OfferedOnce
      <3>2. job[k].st \in Offering => job[k].m # m BY <1>3, <2>1, <3>1 DEF OfferedOnce
      <3> QED BY <1>1, <1>3, <1>4, <3>1, <3>2 DEF OfferedOnce
    <2>5. \A k, l \in Jobs : job'[k].st \in Offering /\ job'[l].st \in Offering /\ job'[k].m = job'[l].m => k = l
      BY <1>3, <2>2 DEF OfferedOnce, Offering
    <2> QED BY <1>4, <2>3, <2>4, <2>5 DEF OfferedOnce, Msgs
  <1> QED BY <1>4, <1>5, <1>6, <1>8, <1>10, <1>11, StepParts DEF ProvKept, JobsKept

\* The reservation: the row is dispatched and the job offers it; no other job did.
LEMMA ReserveStep ==
  ASSUME WakeInv, NEW j \in Jobs, Reserve(j)
  PROVE  WakeInv'
  <1> PICK m \in Msgs : m = job[j].m BY JobOf DEF Reserve
  <1>1. /\ job[j].st = "leased"
        /\ UNCHANGED <<prov, boundary, turn, done, ready, proof, scan, retract, intents, epoch, faults>>
    BY DEF Reserve
  <1>2. WakeTypeOK /\ RowsSound /\ OfferedOnce /\ ObligationKept /\ OneLiveWake /\ ClaimedInOrder /\ ScalarsOK
    BY Unchanged DEF WakeInv
  <1>3. CASE Ends(j) /\ UNCHANGED <<msg, route>>
    <2>1. ScalarsOK' BY <1>1, <1>3, FreedTyped
    <2> QED BY <1>1, <1>3, <2>1, NothingSent
  <1>4. CASE /\ Holds(j, "leased") /\ msg' = [msg EXCEPT ![m].st = "dispatched"]
             /\ route' = [route EXCEPT !.st = "busy"] /\ job' = [job EXCEPT ![j].st = "sending"]
    <2> DEFINE s == [msg[m] EXCEPT !.st = "dispatched"]
    <2>1. msg \in [Msgs -> MsgRows] /\ msg[m] \in MsgRows /\ RowSound(msg[m]) BY RowOf
    <2>2. msg' = [msg EXCEPT ![m] = s] BY <1>4, <2>1
    <2>3. s \in MsgRows BY <2>1 DEF MsgRows, DeliveryStates
    <2>4. s.st = "dispatched" /\ s.own = msg[m].own /\ s.live = msg[m].live /\ s.gen = msg[m].gen
          /\ s.kind = msg[m].kind /\ s.pol = msg[m].pol /\ s.sup = msg[m].sup
      BY <2>1 DEF MsgRows
    <2>5. msg[m].st = "leased" BY <1>4 DEF Holds
    <2>6. Calm(msg[m], s) BY <2>1, <2>4, <2>5 DEF Calm, First, Closed, MsgRows
    <2>7. RowSound(s) BY <2>1, <2>4, <2>5 DEF RowSound, Live
    <2>8. Quieter(msg[m], s) /\ Serving(msg[m], s) /\ ~Fresh(s) /\ Fresh(msg[m])
      BY <2>4, <2>5 DEF Quieter, Serving, Fresh, Failed, Live
    <2> HIDE DEF s
    <2>9. /\ Steady /\ Stepped /\ Len(msg') = Len(msg) /\ Added = {} /\ msg'[m] = s
          /\ \A n \in Msgs : n # m => msg'[n] = msg[n] /\ Quieter(msg[n], msg'[n]) /\ Serving(msg[n], msg'[n])
      BY <1>2, <2>2, <2>3, <2>6, <2>7, <2>8, OneRow DEF Steady
    <2>10. route' \in [n : Nat, st : {"waiting", "busy", "missing"}] BY <1>2, <1>4 DEF ScalarsOK
    <2>11. ScalarsOK' BY <1>1, <1>2, <2>10 DEF ScalarsOK
    <2>12. ProvKept /\ RemovalKept /\ ScanKept /\ BoundaryKept BY <1>1, <1>2, <2>9, Unchanged
    <2>13. ServedStep BY <1>1, <2>8, <2>9 DEF ServedStep, Obliged
    <2>14. ObligationKept' /\ OneLiveWake' BY <1>2, <2>9, <2>13, StillServed
    <2>15. ClaimedInOrder' BY <1>2, <2>9, OrderKept DEF Steady, Quieter
    <2>16. /\ job' \in [Jobs -> JobRows] /\ job'[j].st = "sending" /\ job'[j].m = m /\ job'[j].tok = job[j].tok
           /\ \A k \in Jobs : k # j => job'[k] = job[k]
      <3>1. job \in [Jobs -> JobRows] /\ job[j] \in JobRows BY <1>2 DEF WakeTypeOK
      <3>2. [job[j] EXCEPT !.st = "sending"] \in JobRows BY <3>1 DEF JobRows
      <3> QED BY <1>4, <3>1, <3>2 DEF JobRows
    <2>17. OfferedOnce'
      <3>1. prov[m].subs = 0 BY <1>2, <2>8 DEF OfferedOnce
      <3>2. \A k \in Jobs : job[k].st \in Offering => job[k].m # m BY <1>2, <2>8 DEF OfferedOnce
      <3>3. \A n \in Msgs : /\ prov'[n].subs <= 1 /\ (prov'[n].st = "no" <=> prov'[n].subs = 0)
                            /\ Fresh(msg'[n]) => prov'[n].subs = 0
        BY <1>1, <1>2, <2>8, <2>9 DEF OfferedOnce
      <3>4. \A k \in Jobs : /\ job'[k].st # "idle" => job'[k].m \in Msgs /\ job'[k].tok # 0
                            /\ job'[k].st \in Offering => ~Fresh(msg'[job'[k].m])
                            /\ job'[k].st \in {"sending", "unstarted"} => prov'[job'[k].m].subs = 0
        <4> SUFFICES ASSUME NEW k \in Jobs
                     PROVE  /\ job'[k].st # "idle" => job'[k].m \in Msgs /\ job'[k].tok # 0
                            /\ job'[k].st \in Offering => ~Fresh(msg'[job'[k].m])
                            /\ job'[k].st \in {"sending", "unstarted"} => prov'[job'[k].m].subs = 0
          OBVIOUS
        <4>1. CASE k = j BY <1>1, <1>2, <2>8, <2>9, <2>16, <3>1, <4>1 DEF OfferedOnce
        <4>2. CASE k # j
          BY <1>1, <1>2, <2>9, <2>16, <3>2, <4>2 DEF OfferedOnce, Offering
        <4> QED BY <4>1, <4>2
      <3>5. \A k, l \in Jobs : job'[k].st \in Offering /\ job'[l].st \in Offering /\ job'[k].m = job'[l].m => k = l
        BY <1>2, <2>16, <3>2 DEF OfferedOnce
      <3> QED BY <2>9, <3>3, <3>4, <3>5 DEF OfferedOnce, Msgs
    <2> QED BY <2>9, <2>11, <2>12, <2>14, <2>15, <2>16, <2>17, StepParts DEF ProvKept
  <1> QED BY <1>3, <1>4 DEF Reserve

\* The offer: the message is submitted at most this once.
LEMMA SubmitStep ==
  ASSUME WakeInv, NEW j \in Jobs, Submit(j)
  PROVE  WakeInv'
  <1> PICK m \in Msgs : m = job[j].m BY JobOf DEF Submit
  <1>1. /\ job[j].st = "sending"
        /\ UNCHANGED <<msg, boundary, turn, done, route, ready, proof, scan, retract, intents, epoch, faults>>
    BY DEF Submit
  <1>2. WakeTypeOK /\ RowsSound /\ OfferedOnce /\ ObligationKept /\ OneLiveWake /\ ClaimedInOrder BY DEF WakeInv
  <1>3. /\ Steady /\ Stepped /\ Len(msg') = Len(msg) /\ Added = {} /\ \A n \in Msgs : Serving(msg[n], msg'[n])
    BY <1>1, <1>2, NoRow DEF Steady
  <1>4. PICK s \in {"accepted", "unknown", "unstarted"} :
              /\ job' = [job EXCEPT ![j].st = s]
              /\ \/ prov' = [prov EXCEPT ![m] = [st |-> "queued", subs |-> @.subs + 1]] /\ s # "unstarted"
                 \/ prov' = prov
    BY DEF Submit
  <1>5. prov[m].subs = 0 /\ prov[m].st = "no" BY <1>1, <1>2 DEF OfferedOnce
  <1>6. prov \in Seq(ProvRows) /\ Len(prov) = Len(msg) /\ m \in 1 .. Len(prov) /\ prov \in [Msgs -> ProvRows]
    BY <1>2, RowsTyped DEF WakeTypeOK, Msgs
  <1>7. /\ prov' \in Seq(ProvRows) /\ Len(prov') = Len(prov) /\ \A n \in Msgs : n # m => prov'[n] = prov[n]
        /\ \/ prov'[m] = [st |-> "queued", subs |-> 1] /\ s # "unstarted"
           \/ prov'[m] = prov[m]
    <2>1. CASE prov' = prov BY <1>6, <2>1
    <2>2. CASE prov' = [prov EXCEPT ![m] = [st |-> "queued", subs |-> @.subs + 1]] /\ s # "unstarted"
      <3> DEFINE q == [st |-> "queued", subs |-> 1]
      <3>1. q \in ProvRows BY DEF ProvRows
      <3>2. prov' = [prov EXCEPT ![m] = q] BY <1>5, <1>6, <2>2
      <3>3. /\ prov' \in Seq(ProvRows) /\ Len(prov') = Len(prov)
            /\ \A n \in 1 .. Len(prov) : prov'[n] = IF n = m THEN q ELSE prov[n]
        BY <1>6, <3>1, <3>2, ExceptSeq
      <3> QED BY <1>6, <2>2, <3>3 DEF Msgs
    <2> QED BY <1>4, <2>1, <2>2
  <1>8. ProvMoves
    BY <1>3, <1>5, <1>6, <1>7 DEF ProvMoves
  <1>9. RemovalKept /\ ScanKept /\ BoundaryKept /\ ScalarsOK' BY <1>1, <1>2, <1>3, Unchanged
  <1>10. ServedStep BY <1>1, <1>3 DEF ServedStep, Obliged
  <1>11. ObligationKept' /\ OneLiveWake' BY <1>2, <1>3, <1>10, StillServed
  <1>12. ClaimedInOrder' BY <1>2, <1>3, OrderKept DEF Steady, Quieter
  <1>13. /\ job' \in [Jobs -> JobRows] /\ job'[j].st = s /\ job'[j].m = m /\ job'[j].tok = job[j].tok
         /\ \A k \in Jobs : k # j => job'[k] = job[k]
    <2>1. job \in [Jobs -> JobRows] /\ job[j] \in JobRows BY <1>2 DEF WakeTypeOK
    <2>2. [job[j] EXCEPT !.st = s] \in JobRows BY <2>1 DEF JobRows
    <2> QED BY <1>4, <2>1, <2>2 DEF JobRows
  <1>14. OfferedOnce'
    <2>1. job[j].st \in Offering /\ ~Fresh(msg[m]) BY <1>1, <1>2 DEF OfferedOnce, Offering
    <2>2. \A k \in Jobs : k # j /\ job[k].st \in Offering => job[k].m # m BY <1>2, <2>1 DEF OfferedOnce
    <2>3. \A n \in Msgs : /\ prov'[n].subs <= 1 /\ (prov'[n].st = "no" <=> prov'[n].subs = 0)
                          /\ Fresh(msg'[n]) => prov'[n].subs = 0
      BY <1>1, <1>2, <1>5, <1>7, <2>1 DEF OfferedOnce
    <2>4. \A k \in Jobs : /\ job'[k].st # "idle" => job'[k].m \in Msgs /\ job'[k].tok # 0
                          /\ job'[k].st \in Offering => ~Fresh(msg'[job'[k].m])
                          /\ job'[k].st \in {"sending", "unstarted"} => prov'[job'[k].m].subs = 0
      <3> SUFFICES ASSUME NEW k \in Jobs
                   PROVE  /\ job'[k].st # "idle" => job'[k].m \in Msgs /\ job'[k].tok # 0
                          /\ job'[k].st \in Offering => ~Fresh(msg'[job'[k].m])
                          /\ job'[k].st \in {"sending", "unstarted"} => prov'[job'[k].m].subs = 0
        OBVIOUS
      <3>1. CASE k = j BY <1>1, <1>2, <1>5, <1>7, <1>13, <2>1, <3>1 DEF OfferedOnce
      <3>2. CASE k # j
        BY <1>1, <1>2, <1>7, <1>13, <2>2, <3>2 DEF OfferedOnce, Offering
      <3> QED BY <3>1, <3>2
    <2>5. \A k, l \in Jobs : job'[k].st \in Offering /\ job'[l].st \in Offering /\ job'[k].m = job'[l].m => k = l
      BY <1>2, <1>13, <2>2 DEF OfferedOnce
    <2> QED BY <1>3, <2>3, <2>4, <2>5 DEF OfferedOnce, Msgs
  <1> QED BY <1>3, <1>8, <1>9, <1>11, <1>12, <1>13, <1>14, StepParts

\* The claim scan requeues the leases that ran out, each row in its place.
LEMMA RequeuedRows ==
  ASSUME WakeInv, NEW m \in Msgs, Requeued[m].gen <= MaxGen
  PROVE  /\ Requeued[m] \in MsgRows /\ Calm(msg[m], Requeued[m]) /\ RowSound(Requeued[m])
         /\ Quieter(msg[m], Requeued[m]) /\ Serving(msg[m], Requeued[m])
         /\ Requeued[m].st \notin {"queued", "leased"} => Requeued[m] = msg[m]
         /\ First(Requeued[m]) => Requeued[m] = msg[m]
  <1>1. /\ msg[m] \in MsgRows /\ RowSound(msg[m]) /\ msg[m].gen \in Nat /\ msg[m].gen >= 1
        /\ MaxGen \in Nat
    BY RowOf
  <1>2. Requeued[m] = IF msg[m].st = "leased" /\ ~msg[m].live
                      THEN [msg[m] EXCEPT !.st = "queued", !.gen = @ + 1, !.own = 0] ELSE msg[m]
    BY DEF Requeued
  <1>3. CASE Requeued[m] = msg[m] BY <1>1, <1>3, SameRow
  <1>4. CASE msg[m].st = "leased" /\ ~msg[m].live
    <2> DEFINE s == [msg[m] EXCEPT !.st = "queued", !.gen = @ + 1, !.own = 0]
    <2>1. Requeued[m] = s BY <1>2, <1>4
    <2>2. s.st = "queued" /\ s.own = 0 /\ s.live = msg[m].live /\ s.gen = msg[m].gen + 1 /\ s.kind = msg[m].kind
          /\ s.pol = msg[m].pol /\ s.sup = msg[m].sup
      BY <1>1 DEF MsgRows
    <2>3. s.gen \in 1 .. MaxGen BY <1>1, <2>1, <2>2
    <2>4. s \in MsgRows BY <1>1, <2>2, <2>3 DEF MsgRows, DeliveryStates
    <2>5. s.gen >= msg[m].gen /\ s.gen # 1 BY <1>1, <2>2
    <2>6. Calm(msg[m], s) /\ ~First(s) BY <1>4, <2>2, <2>5 DEF Calm, First, Closed
    <2>7. RowSound(s) BY <1>1, <1>4, <2>2 DEF RowSound, Live
    <2>8. Quieter(msg[m], s) /\ Serving(msg[m], s) BY <1>4, <2>2 DEF Quieter, Serving, Fresh, Failed, Live
    <2> HIDE DEF s
    <2> QED BY <2>1, <2>2, <2>4, <2>6, <2>7, <2>8
  <1> QED BY <1>2, <1>3, <1>4

\* A claim: the row had no earlier row left to be offered for the first time.
LEMMA ClaimStep ==
  ASSUME WakeInv, NEW j \in Jobs, NEW m \in Msgs, Claim(j, m)
  PROVE  WakeInv'
  <1> DEFINE s == [Requeued[m] EXCEPT !.st = "leased", !.own = epoch, !.live = TRUE]
  <1>1. /\ job[j] = IdleJob /\ Requeued[m].st = "queued" /\ DispatchHead(m)
        /\ \A p \in Msgs : Requeued[p].gen <= MaxGen
        /\ msg' = [Requeued EXCEPT ![m].st = "leased", ![m].own = epoch, ![m].live = TRUE]
        /\ job' = [job EXCEPT ![j] = [st |-> "leased", m |-> m, gen |-> Requeued[m].gen, tok |-> epoch, rt |-> msg[m].rt]]
        /\ UNCHANGED <<prov, boundary, turn, done, route, ready, proof, scan, retract, intents, epoch, faults>>
    BY DEF Claim
  <1>2. WakeTypeOK /\ RowsSound /\ OfferedOnce /\ ObligationKept /\ OneLiveWake /\ ClaimedInOrder BY DEF WakeInv
  <1>3. \A n \in Msgs : /\ Requeued[n] \in MsgRows /\ Calm(msg[n], Requeued[n]) /\ RowSound(Requeued[n])
                        /\ Quieter(msg[n], Requeued[n]) /\ Serving(msg[n], Requeued[n])
                        /\ Requeued[n].st \notin {"queued", "leased"} => Requeued[n] = msg[n]
                        /\ First(Requeued[n]) => Requeued[n] = msg[n]
    BY <1>1, RequeuedRows
  <1>4. Requeued \in [Msgs -> MsgRows]
    <2>1. DOMAIN Requeued = Msgs /\ Requeued = [n \in Msgs |-> Requeued[n]] BY DEF Requeued
    <2> QED BY <1>3, <2>1
  <1>5. epoch \in Nat \ {0} BY <1>2 DEF WakeTypeOK
  <1>6. s \in MsgRows BY <1>3, <1>5 DEF MsgRows, DeliveryStates
  <1>7. msg' \in [Msgs -> MsgRows] /\ msg'[m] = s /\ \A n \in Msgs : n # m => msg'[n] = Requeued[n]
    BY <1>1, <1>4, <1>6
  <1>8. s.st = "leased" /\ s.own = epoch /\ s.live = TRUE /\ s.gen = Requeued[m].gen /\ s.kind = Requeued[m].kind
        /\ s.pol = Requeued[m].pol /\ s.sup = Requeued[m].sup
    BY <1>3 DEF MsgRows
  <1> HIDE DEF s
  <1>9. Calm(Requeued[m], s) /\ (First(s) => First(Requeued[m])) /\ Fresh(Requeued[m])
        /\ Serving(Requeued[m], s)
    <2>1. Requeued[m] \in MsgRows BY <1>3
    <2> QED BY <1>1, <1>8, <2>1 DEF Calm, First, Closed, Fresh, Serving, Failed, Live, MsgRows
  <1>10. RowSound(s) BY <1>1, <1>3, <1>5, <1>8 DEF RowSound, Live
  <1>11. Calm(msg[m], s)
    <2>1. msg[m] \in MsgRows /\ Requeued[m] \in MsgRows BY <1>3, RowOf
    <2>2. Calm(msg[m], Requeued[m]) BY <1>3
    <2> QED BY <1>1, <1>8, <1>9, <2>1, <2>2 DEF Calm, Closed, MsgRows
  <1>12. \A n \in Msgs : Calm(msg[n], msg'[n]) /\ RowSound(msg'[n]) BY <1>3, <1>7, <1>10, <1>11
  <1>13. Stepped /\ Len(msg') = Len(msg) /\ Added = {} BY <1>2, <1>7, <1>12, RowwiseStep
  <1>14. \A n \in Msgs : Fresh(msg'[n]) => Fresh(msg[n]) BY <1>3, <1>7, <1>9 DEF Quieter
  <1>15. \A n \in Msgs : Serving(msg[n], msg'[n]) BY <1>3, <1>7, <1>9 DEF Serving
  <1>16. ProvMoves /\ RemovalKept /\ ScanKept /\ BoundaryKept /\ ScalarsOK'
    BY <1>1, <1>2, <1>13, Unchanged DEF ProvKept
  <1>17. ServedStep BY <1>1, <1>13, <1>15 DEF ServedStep, Obliged
  <1>18. ObligationKept' /\ OneLiveWake' BY <1>2, <1>13, <1>17, StillServed
  <1>19. ClaimedInOrder'
    <2> SUFFICES ASSUME NEW n \in Msgs, msg'[n].st \in {"leased", "dispatched"}, NEW p \in 1 .. n - 1
                 PROVE  ~First(msg'[p])
      BY <1>13 DEF ClaimedInOrder, Msgs
    <2>1. p \in Msgs /\ p # n BY RowsTyped, <1>2 DEF Msgs
    <2>2. CASE n # m
      <3>1. msg[n].st \in {"leased", "dispatched"} BY <1>3, <1>7, <2>2 DEF Quieter
      <3> QED BY <1>2, <1>12, <2>1, <3>1 DEF ClaimedInOrder, Calm
    <2>3. CASE n = m
      <3>1. msg'[p] = Requeued[p] BY <1>7, <2>1, <2>3
      <3>2. /\ Requeued[p].st \notin {"queued", "leased"}
            /\ ~(msg[p].st = "dispatched" /\ msg[p].own # 0 /\ msg[p].live)
        BY <1>1, <2>3 DEF DispatchHead
      <3>3. Requeued[p] = msg[p] /\ RowSound(msg[p]) BY <1>2, <1>3, <2>1, <3>2 DEF RowsSound
      <3> QED BY <3>1, <3>2, <3>3 DEF First, RowSound
    <2> QED BY <2>2, <2>3
  <1>20. /\ job' \in [Jobs -> JobRows] /\ job'[j].st = "leased" /\ job'[j].m = m /\ job'[j].tok = epoch
         /\ \A k \in Jobs : k # j => job'[k] = job[k]
    <2> DEFINE q == [st |-> "leased", m |-> m, gen |-> Requeued[m].gen, tok |-> epoch, rt |-> msg[m].rt]
    <2>1. job \in [Jobs -> JobRows] BY <1>2 DEF WakeTypeOK
    <2>2. Requeued[m] \in MsgRows /\ msg[m] \in MsgRows /\ m \in Nat BY <1>3, RowOf, RowsTyped, <1>2 DEF Msgs
    <2>3. Requeued[m].gen \in Nat /\ msg[m].rt \in Nat BY <2>2 DEF MsgRows
    <2>4. q \in JobRows BY <1>5, <2>2, <2>3 DEF JobRows
    <2> QED BY <1>1, <2>1, <2>4
  <1>21. OfferedOnce'
    <2>1. \A n \in Msgs : /\ prov'[n].subs <= 1 /\ (prov'[n].st = "no" <=> prov'[n].subs = 0)
                          /\ Fresh(msg'[n]) => prov'[n].subs = 0
      BY <1>1, <1>2, <1>14 DEF OfferedOnce
    <2>2. \A k \in Jobs : /\ job'[k].st # "idle" => job'[k].m \in Msgs /\ job'[k].tok # 0
                          /\ job'[k].st \in Offering => ~Fresh(msg'[job'[k].m])
                          /\ job'[k].st \in {"sending", "unstarted"} => prov'[job'[k].m].subs = 0
      <3> SUFFICES ASSUME NEW k \in Jobs
                   PROVE  /\ job'[k].st # "idle" => job'[k].m \in Msgs /\ job'[k].tok # 0
                          /\ job'[k].st \in Offering => ~Fresh(msg'[job'[k].m])
                          /\ job'[k].st \in {"sending", "unstarted"} => prov'[job'[k].m].subs = 0
        OBVIOUS
      <3>1. CASE k = j BY <1>5, <1>20, <3>1 DEF Offering
      <3>2. CASE k # j
        BY <1>1, <1>2, <1>14, <1>20, <3>2 DEF OfferedOnce, Offering
      <3> QED BY <3>1, <3>2
    <2>3. \A k, l \in Jobs : job'[k].st \in Offering /\ job'[l].st \in Offering /\ job'[k].m = job'[l].m => k = l
      BY <1>2, <1>20 DEF OfferedOnce, Offering
    <2> QED BY <1>13, <2>1, <2>2, <2>3 DEF OfferedOnce, Msgs
  <1> QED BY <1>13, <1>16, <1>18, <1>19, <1>20, <1>21, StepParts

-----------------------------------------------------------------------------
(* Steps that change several rows, or add one *)

\* The frame of a step that changes rows in place and nothing of the thread, the jobs and the scans.
LEMMA RowwiseFrame ==
  ASSUME WakeInv, msg' \in [Msgs -> MsgRows],
         \A m \in Msgs : Calm(msg[m], msg'[m]) /\ RowSound(msg'[m]) /\ Quieter(msg[m], msg'[m]),
         UNCHANGED <<prov, job, scan, retract, intents>>, ScalarsOK', boundary' = "none" => boundary = "none",
         Stepped => ObligationKept' /\ OneLiveWake'
  PROVE  WakeInv'
  <1>1. WakeTypeOK BY DEF WakeInv
  <1>2. Stepped /\ Len(msg') = Len(msg) /\ Added = {} BY <1>1, RowwiseStep
  <1>3. Steady BY <1>2 DEF Steady
  <1>4. ProvKept /\ JobsKept /\ RemovalKept /\ ScanKept BY <1>1, <1>2, Unchanged
  <1>5. BoundaryKept BY <1>2 DEF BoundaryKept
  <1> QED BY <1>2, <1>3, <1>4, <1>5, SteadyStep

\* A row that is handled: it stays sound, and it is no longer offered.
LEMMA HandledRow ==
  ASSUME NEW r \in MsgRows, RowSound(r), r.st = "acknowledged"
  PROVE  LET s == [r EXCEPT !.st = "handled"]
         IN  s \in MsgRows /\ Calm(r, s) /\ RowSound(s) /\ Quieter(r, s)
  <1> DEFINE s == [r EXCEPT !.st = "handled"]
  <1>1. s \in MsgRows BY DEF MsgRows, DeliveryStates
  <1>2. s.st = "handled" /\ s.own = r.own /\ s.live = r.live /\ s.gen = r.gen /\ s.kind = r.kind
        /\ s.pol = r.pol /\ s.sup = r.sup
    BY DEF MsgRows
  <1>3. Calm(r, s) BY <1>2 DEF Calm, First, Closed, MsgRows
  <1>4. RowSound(s) BY <1>2 DEF RowSound, Live
  <1>5. Quieter(r, s) BY <1>2 DEF Quieter, Fresh
  <1> QED BY <1>1, <1>3, <1>4, <1>5

\* A row under way that is superseded: it is closed, since a row under way did not fail.
LEMMA SupersededRow ==
  ASSUME NEW r \in MsgRows, RowSound(r), r.st \in Live, NEW s \in MsgRows,
         s.st = "dead" /\ s.own = 0 /\ s.live = FALSE /\ s.gen = r.gen /\ s.kind = r.kind, s.pol \in {r.pol, "terminal"}
  PROVE  Calm(r, s) /\ RowSound(s) /\ Quieter(r, s)
  <1>1. s.pol = "terminal" BY DEF RowSound
  <1>2. Calm(r, s) BY <1>1 DEF Calm, First, Closed, MsgRows, Live
  <1>3. RowSound(s) BY <1>1 DEF RowSound, Live
  <1>4. Quieter(r, s) BY <1>1 DEF Quieter, Fresh
  <1> QED BY <1>2, <1>3, <1>4

\* The decision settles the acknowledged wakes; the Boundary is no longer an obligation.
LEMMA DecideStep ==
  ASSUME WakeInv, Decide
  PROVE  WakeInv'
  <1>1. /\ boundary' = "decided" /\ turn' = "none"
        /\ msg' = [m \in Msgs |-> IF IsWake(m) /\ msg[m].st = "acknowledged"
                                  THEN [msg[m] EXCEPT !.st = "handled"] ELSE msg[m]]
        /\ UNCHANGED <<prov, job, done, route, ready, proof, scan, retract, intents, epoch, faults>>
    BY DEF Decide
  <1>2. WakeTypeOK /\ ScalarsOK BY Unchanged DEF WakeInv
  <1>3. \A m \in Msgs : /\ msg'[m] \in MsgRows
                        /\ Calm(msg[m], msg'[m]) /\ RowSound(msg'[m]) /\ Quieter(msg[m], msg'[m])
    <2> SUFFICES ASSUME NEW m \in Msgs
                 PROVE  /\ msg'[m] \in MsgRows
                        /\ Calm(msg[m], msg'[m]) /\ RowSound(msg'[m]) /\ Quieter(msg[m], msg'[m])
      OBVIOUS
    <2>1. msg[m] \in MsgRows /\ RowSound(msg[m]) BY RowOf
    <2>2. msg'[m] = msg[m] \/ (msg[m].st = "acknowledged" /\ msg'[m] = [msg[m] EXCEPT !.st = "handled"])
      BY <1>1
    <2> QED BY <2>1, <2>2, SameRow, HandledRow
  <1>4. msg' \in [Msgs -> MsgRows] BY <1>1, <1>3
  <1>5. ScalarsOK' BY <1>1, <1>2 DEF ScalarsOK
  <1>6. ObligationKept' /\ OneLiveWake' BY <1>1 DEF ObligationKept, OneLiveWake, Obliged
  <1> QED BY <1>1, <1>3, <1>4, <1>5, <1>6, RowwiseFrame

\* Terminal Work: nothing is owed to its Boundary.
LEMMA TerminalStep ==
  ASSUME WakeInv, SettleTerminalWakes
  PROVE  WakeInv'
  <1>1. /\ done /\ UNCHANGED <<prov, job, boundary, turn, done, route, ready, proof, scan, retract, intents, epoch, faults>>
        /\ DOMAIN msg' = Msgs
        /\ \A m \in Msgs :
              \/ msg'[m] = msg[m]
              \/ msg[m].st = "acknowledged" /\ msg'[m] = [msg[m] EXCEPT !.st = "handled"]
              \/ /\ msg[m].st \in {"queued", "leased", "delivered"}
                 /\ msg'[m] = [msg[m] EXCEPT !.st = "dead", !.own = 0, !.live = FALSE, !.pol = "terminal", !.sup = TRUE]
        /\ msg' = [m \in Msgs |-> msg'[m]]
    BY DEF SettleTerminalWakes
  <1>2. WakeTypeOK BY DEF WakeInv
  <1>3. \A m \in Msgs : /\ msg'[m] \in MsgRows
                        /\ Calm(msg[m], msg'[m]) /\ RowSound(msg'[m]) /\ Quieter(msg[m], msg'[m])
    <2> SUFFICES ASSUME NEW m \in Msgs
                 PROVE  /\ msg'[m] \in MsgRows
                        /\ Calm(msg[m], msg'[m]) /\ RowSound(msg'[m]) /\ Quieter(msg[m], msg'[m])
      OBVIOUS
    <2>1. msg[m] \in MsgRows /\ RowSound(msg[m]) BY RowOf
    <2>2. CASE msg'[m] = msg[m] BY <2>1, <2>2, SameRow
    <2>3. CASE msg[m].st = "acknowledged" /\ msg'[m] = [msg[m] EXCEPT !.st = "handled"]
      BY <2>1, <2>3, HandledRow
    <2>4. CASE /\ msg[m].st \in {"queued", "leased", "delivered"}
               /\ msg'[m] = [msg[m] EXCEPT !.st = "dead", !.own = 0, !.live = FALSE, !.pol = "terminal", !.sup = TRUE]
      <3> DEFINE s == [msg[m] EXCEPT !.st = "dead", !.own = 0, !.live = FALSE, !.pol = "terminal", !.sup = TRUE]
      <3>1. s \in MsgRows BY <2>1 DEF MsgRows, DeliveryStates
      <3>2. s.st = "dead" /\ s.own = 0 /\ s.live = FALSE /\ s.gen = msg[m].gen /\ s.kind = msg[m].kind /\ s.pol = "terminal"
        BY <2>1 DEF MsgRows
      <3>3. msg[m].st \in Live BY <2>4 DEF Live
      <3> HIDE DEF s
      <3>4. Calm(msg[m], s) /\ RowSound(s) /\ Quieter(msg[m], s) BY <2>1, <3>1, <3>2, <3>3, SupersededRow
      <3> QED BY <2>4, <3>1, <3>4 DEF s
    <2> QED BY <1>1, <2>2, <2>3, <2>4
  <1>4. msg' \in [Msgs -> MsgRows] BY <1>1, <1>3
  <1>5. ScalarsOK' BY <1>1, <1>2, Unchanged
  <1>6. ObligationKept' /\ OneLiveWake' BY <1>1 DEF ObligationKept, OneLiveWake, Obliged
  <1> QED BY <1>1, <1>3, <1>4, <1>5, <1>6, RowwiseFrame

\* Queued rows move to the wake runtime n.
LEMMA ReboundRows ==
  ASSUME WakeInv, NEW n \in Nat, \A m \in Msgs : msg[m].st = "queued" => msg[m].gen < MaxGen, NEW m \in Msgs
  PROVE  /\ Rebound(n)[m] \in MsgRows /\ Calm(msg[m], Rebound(n)[m]) /\ RowSound(Rebound(n)[m])
         /\ Quieter(msg[m], Rebound(n)[m]) /\ Serving(msg[m], Rebound(n)[m])
         /\ msg[m].st # "queued" => Rebound(n)[m] = msg[m]
  <1>1. msg[m] \in MsgRows /\ RowSound(msg[m]) /\ msg[m].gen \in Nat /\ msg[m].gen >= 1 /\ MaxGen \in Nat BY RowOf
  <1>2. Rebound(n)[m] = IF msg[m].st = "queued" /\ msg[m].rt # n
                        THEN [msg[m] EXCEPT !.rt = n, !.gen = @ + 1] ELSE msg[m]
    BY DEF Rebound
  <1>3. CASE Rebound(n)[m] = msg[m] BY <1>1, <1>3, SameRow
  <1>4. CASE msg[m].st = "queued"
    <2> DEFINE s == [msg[m] EXCEPT !.rt = n, !.gen = @ + 1]
    <2>1. s.st = "queued" /\ s.own = msg[m].own /\ s.live = msg[m].live /\ s.gen = msg[m].gen + 1 /\ s.kind = msg[m].kind
          /\ s.pol = msg[m].pol /\ s.sup = msg[m].sup
      BY <1>1, <1>4 DEF MsgRows
    <2>2. s.gen \in 1 .. MaxGen BY <1>1, <1>4, <2>1
    <2>3. s \in MsgRows BY <1>1, <2>1, <2>2 DEF MsgRows
    <2>4. s.gen >= msg[m].gen /\ s.gen # 1 BY <1>1, <2>1
    <2>5. Calm(msg[m], s) BY <1>4, <2>1, <2>4 DEF Calm, First, Closed
    <2>6. RowSound(s) BY <1>1, <1>4, <2>1 DEF RowSound, Live
    <2>7. Quieter(msg[m], s) /\ Serving(msg[m], s) BY <1>4, <2>1 DEF Quieter, Serving, Fresh, Failed, Live
    <2> HIDE DEF s
    <2>8. Rebound(n)[m] = s \/ Rebound(n)[m] = msg[m] BY <1>2, <1>4 DEF s
    <2> QED BY <1>4, <2>3, <2>5, <2>6, <2>7, <2>8, <1>3
  <1> QED BY <1>2, <1>3, <1>4

\* The route scan moves queued rows.
LEMMA RebindStep ==
  ASSUME WakeInv, RebindQueued
  PROVE  WakeInv'
  <1>1. /\ \A m \in Msgs : msg[m].st = "queued" => msg[m].gen < MaxGen
        /\ msg' = Rebound(route.n)
        /\ UNCHANGED <<prov, job, boundary, turn, done, route, ready, proof, scan, retract, intents, epoch, faults>>
    BY DEF RebindQueued
  <1>2. WakeTypeOK /\ ScalarsOK' /\ ObligationKept /\ OneLiveWake BY <1>1, Unchanged DEF WakeInv
  <1>3. route.n \in Nat BY <1>2 DEF WakeTypeOK
  <1>4. \A m \in Msgs : /\ msg'[m] \in MsgRows /\ Calm(msg[m], msg'[m]) /\ RowSound(msg'[m])
                        /\ Quieter(msg[m], msg'[m]) /\ Serving(msg[m], msg'[m])
    BY <1>1, <1>3, ReboundRows
  <1>5. msg' \in [Msgs -> MsgRows]
    <2>1. msg' = [m \in Msgs |-> msg'[m]] BY <1>1 DEF Rebound
    <2> QED BY <1>4, <2>1
  <1>6. Stepped /\ Added = {} BY <1>2, <1>4, <1>5, RowwiseStep
  <1>7. ServedStep BY <1>1, <1>4, <1>6 DEF ServedStep, Obliged
  <1>8. ObligationKept' /\ OneLiveWake' BY <1>2, <1>6, <1>7, StillServed
  <1> QED BY <1>1, <1>2, <1>4, <1>5, <1>8, RowwiseFrame

\* A wake that failed is sent again: it was not submitted, and its generation is a new one.
LEMMA RevivedRow ==
  ASSUME NEW r \in MsgRows, RowSound(r), Failed(r), r.gen < MaxGen, NEW n \in Nat
  PROVE  LET s == [r EXCEPT !.st = "queued", !.gen = @ + 1, !.rt = n, !.pol = "terminal"]
         IN  /\ s \in MsgRows /\ Calm(r, s) /\ RowSound(s) /\ Quieter(r, s)
             /\ s.st = "queued"
  <1> DEFINE s == [r EXCEPT !.st = "queued", !.gen = @ + 1, !.rt = n, !.pol = "terminal"]
  <1>1. r.gen \in Nat /\ r.gen >= 1 /\ MaxGen \in Nat BY WakeAssumption DEF WakeConstants, MsgRows
  <1>2. s.st = "queued" /\ s.own = r.own /\ s.live = r.live /\ s.gen = r.gen + 1 /\ s.kind = r.kind
        /\ s.pol = "terminal" /\ s.sup = r.sup
    BY DEF MsgRows
  <1>3. s.gen \in 1 .. MaxGen /\ s.gen >= r.gen /\ s.gen # 1 BY <1>1, <1>2
  <1>4. s \in MsgRows BY <1>2, <1>3 DEF MsgRows, DeliveryStates
  <1>5. Calm(r, s) BY <1>2, <1>3 DEF Calm, First, Closed, Failed
  <1>6. RowSound(s) BY <1>2 DEF RowSound, Live, Failed
  <1>7. Quieter(r, s) BY <1>2 DEF Quieter, Fresh, Failed
  <1> QED BY <1>2, <1>4, <1>5, <1>6, <1>7

\* The wakes that a new route or connection revives: the earliest failed one of an open Boundary
\* that has no wake under way, so never two.
LEMMA ReactivateStep ==
  ASSUME WakeInv, NEW n \in Nat, NEW rows,
         \A m \in Msgs : /\ rows[m] \in MsgRows /\ Calm(msg[m], rows[m]) /\ RowSound(rows[m])
                         /\ Quieter(msg[m], rows[m]) /\ Serving(msg[m], rows[m])
                         /\ msg[m].st # "queued" => rows[m] = msg[m],
         msg' = Reactivated(rows, n),
         UNCHANGED <<prov, job, scan, retract, intents, boundary, turn, done>>, ScalarsOK'
  PROVE  WakeInv'
  <1>1. WakeTypeOK /\ ObligationKept /\ OneLiveWake BY DEF WakeInv
  <1>2. \A m \in Msgs : /\ msg'[m] \in MsgRows
                        /\ Calm(msg[m], msg'[m]) /\ RowSound(msg'[m]) /\ Quieter(msg[m], msg'[m])
                        /\ Serving(msg[m], msg'[m]) \/ (Reactivatable(m) /\ Failed(msg[m]) /\ msg'[m].st \in Live)
    <2> SUFFICES ASSUME NEW m \in Msgs
                 PROVE  /\ msg'[m] \in MsgRows
                        /\ Calm(msg[m], msg'[m]) /\ RowSound(msg'[m]) /\ Quieter(msg[m], msg'[m])
                        /\ Serving(msg[m], msg'[m]) \/ (Reactivatable(m) /\ Failed(msg[m]) /\ msg'[m].st \in Live)
      OBVIOUS
    <2>1. msg'[m] = IF Reactivatable(m) /\ rows[m].gen < MaxGen
                    THEN [rows[m] EXCEPT !.st = "queued", !.gen = @ + 1, !.rt = n, !.pol = "terminal"]
                    ELSE rows[m]
      BY DEF Reactivated
    <2>2. CASE msg'[m] = rows[m] BY <2>2
    <2>3. CASE Reactivatable(m) /\ rows[m].gen < MaxGen
      <3>1. Failed(msg[m]) BY <2>3 DEF Reactivatable, Failed
      <3>2. rows[m] = msg[m] /\ msg[m] \in MsgRows /\ RowSound(msg[m]) BY <3>1, RowOf DEF Failed
      <3>3. msg'[m] = [msg[m] EXCEPT !.st = "queued", !.gen = @ + 1, !.rt = n, !.pol = "terminal"]
        BY <2>1, <2>3, <3>2
      <3> DEFINE r == msg[m]
                 s == [r EXCEPT !.st = "queued", !.gen = @ + 1, !.rt = n, !.pol = "terminal"]
      <3>4. r \in MsgRows /\ RowSound(r) /\ Failed(r) /\ r.gen < MaxGen BY <2>3, <3>1, <3>2
      <3> HIDE DEF r
      <3>5. s \in MsgRows /\ Calm(r, s) /\ RowSound(s) /\ Quieter(r, s) /\ s.st = "queued"
        BY <3>4, RevivedRow
      <3>6. msg'[m] = s BY <3>3 DEF r
      <3> HIDE DEF s
      <3> QED BY <2>3, <3>1, <3>5, <3>6 DEF Live, r
    <2> QED BY <2>1, <2>2, <2>3
  <1>3. msg' \in [Msgs -> MsgRows]
    <2>1. msg' = [m \in Msgs |-> msg'[m]] BY DEF Reactivated
    <2> QED BY <1>2, <2>1
  <1>4. Stepped /\ Len(msg') = Len(msg) BY <1>1, <1>2, <1>3, RowwiseStep
  <1>5. Wakes' = Wakes /\ (Obliged' <=> Obliged)
    BY <1>2, <1>4 DEF Wakes, IsWake, Msgs, Calm, Obliged
  <1>6. \A m \in Wakes : m \in Msgs BY DEF Wakes
  <1>7. ObligationKept'
    <2> SUFFICES ASSUME Obliged, turn = "none"
                 PROVE  \/ \E m \in Wakes : msg'[m].st \in Live \/ Failed(msg'[m])
                        \/ \A m \in Wakes : msg'[m].st = "handled"
      BY <1>5 DEF ObligationKept, Failed
    <2>1. \/ \E m \in Wakes : msg[m].st \in Live \/ Failed(msg[m])
          \/ \A m \in Wakes : msg[m].st = "handled"
      BY <1>1 DEF ObligationKept, Failed
    <2> QED BY <1>2, <1>6, <2>1 DEF Serving, Calm
  <1>8. OneLiveWake'
    <2> SUFFICES ASSUME Obliged, NEW m \in Wakes, NEW k \in Wakes, msg'[m].st \in Live, msg'[k].st \in Live
                 PROVE  m = k
      BY <1>5 DEF OneLiveWake
    <2>1. ASSUME NEW x \in Wakes, Reactivatable(x) PROVE \A y \in Wakes : msg[y].st \notin Live /\ (Failed(msg[y]) => x <= y)
      BY <2>1 DEF Reactivatable, CurrentNotice, Obliged, Failed
    <2>2. \A x \in Wakes : x \in Nat BY <1>6, RowsTyped, <1>1 DEF Msgs
    <2>3. \A x \in Wakes : msg'[x].st \in Live => msg[x].st \in Live \/ (Reactivatable(x) /\ Failed(msg[x]))
      BY <1>2, <1>6 DEF Serving
    <2>4. CASE msg[m].st \in Live /\ msg[k].st \in Live BY <1>1, <2>4 DEF OneLiveWake
    <2>5. CASE (Reactivatable(m) /\ Failed(msg[m])) \/ (Reactivatable(k) /\ Failed(msg[k]))
      <3>1. Reactivatable(m) /\ Failed(msg[m]) /\ Reactivatable(k) /\ Failed(msg[k]) BY <2>1, <2>3, <2>5
      <3>2. m <= k /\ k <= m BY <2>1, <3>1
      <3> QED BY <2>2, <3>2
    <2> QED BY <2>3, <2>4, <2>5
  <1> QED BY <1>2, <1>3, <1>7, <1>8, RowwiseFrame

\* A new wake runtime, or a new connection.
LEMMA RouteSteps ==
  ASSUME WakeInv, ReplaceRoute \/ Reconnect
  PROVE  WakeInv'
  <1>1. WakeTypeOK /\ ScalarsOK BY Unchanged DEF WakeInv
  <1>2. route \in [n : Nat, st : {"waiting", "busy", "missing"}] /\ route.n \in Nat BY <1>1 DEF ScalarsOK
  <1>3. CASE ReplaceRoute
    <2>1. /\ \A m \in Msgs : msg[m].st = "queued" => msg[m].gen < MaxGen
          /\ route' = [n |-> route.n + 1, st |-> "waiting"]
          /\ msg' = Reactivated(Rebound(route.n + 1), route.n + 1)
          /\ UNCHANGED <<prov, job, boundary, turn, done, ready, proof, scan, retract, intents, epoch, faults>>
      BY <1>3 DEF ReplaceRoute
    <2>2. route' \in [n : Nat, st : {"waiting", "busy", "missing"}] /\ route.n + 1 \in Nat BY <1>2, <2>1
    <2>3. ScalarsOK' BY <1>1, <2>1, <2>2 DEF ScalarsOK
    <2>4. \A m \in Msgs : /\ Rebound(route.n + 1)[m] \in MsgRows /\ Calm(msg[m], Rebound(route.n + 1)[m])
                          /\ RowSound(Rebound(route.n + 1)[m]) /\ Quieter(msg[m], Rebound(route.n + 1)[m])
                          /\ Serving(msg[m], Rebound(route.n + 1)[m])
                          /\ msg[m].st # "queued" => Rebound(route.n + 1)[m] = msg[m]
      BY <2>1, <2>2, ReboundRows
    <2> QED BY <2>1, <2>2, <2>3, <2>4, ReactivateStep
  <1>4. CASE Reconnect
    <2>1. /\ ready' = TRUE /\ msg' = Reactivated(msg, route.n)
          /\ UNCHANGED <<prov, job, boundary, turn, done, route, proof, scan, retract, intents, epoch, faults>>
      BY <1>4 DEF Reconnect
    <2>2. ready' \in BOOLEAN BY <2>1
    <2>3. ScalarsOK' BY <1>1, <2>1, <2>2 DEF ScalarsOK
    <2>4. \A m \in Msgs : /\ msg[m] \in MsgRows /\ Calm(msg[m], msg[m]) /\ RowSound(msg[m])
                          /\ Quieter(msg[m], msg[m]) /\ Serving(msg[m], msg[m])
      BY RowOf, SameRow
    <2> QED BY <1>2, <2>1, <2>3, <2>4, ReactivateStep
  <1> QED BY <1>3, <1>4

\* The frame of a new message: its row is new and nothing was submitted for it.
LEMMA AppendFrame ==
  ASSUME WakeInv, Room, NEW k \in {"info", "wake", "repair", "notice", "notice2"},
         NEW rows \in [Msgs -> MsgRows],
         \A m \in Msgs : Calm(msg[m], rows[m]) /\ RowSound(rows[m]) /\ Quieter(msg[m], rows[m]),
         msg' = Append(rows, NewMessage(k)), prov' = Append(prov, NotSubmitted)
  PROVE  /\ Steady /\ Len(msg') = Len(msg) + 1 /\ Added = {Len(msg) + 1} /\ ProvKept
         /\ msg'[Len(msg) + 1].kind = k /\ msg'[Len(msg) + 1].st = "queued"
         /\ \A m \in Msgs : msg'[m] = rows[m] /\ m # Len(msg) + 1
         /\ Wakes' = IF k \in {"wake", "repair"} THEN Wakes \cup {Len(msg) + 1} ELSE Wakes
  <1> DEFINE s == NewMessage(k)
  <1>1. WakeTypeOK BY DEF WakeInv
  <1>2. Len(msg) \in Nat /\ MaxGen \in Nat \ {0} /\ route.n \in Nat BY <1>1, RowsTyped DEF WakeTypeOK
  <1>3. s \in MsgRows /\ NewRow(s) /\ s.kind = k /\ s.st = "queued"
    BY <1>2 DEF NewMessage, MsgRows, DeliveryStates, NewRow
  <1>5. Len(msg) < MaxMessages BY DEF Room
  <1> HIDE DEF s
  <1>6. /\ Steady /\ Len(msg') = Len(msg) + 1 /\ Added = {Len(msg) + 1}
        /\ msg'[Len(msg) + 1] = s /\ \A m \in Msgs : msg'[m] = rows[m]
    <2>1. msg' = Append(rows, s) BY DEF s
    <2> QED BY <1>1, <1>3, <1>5, <2>1, AppendRow
  <1>7. ProvKept
    <2>1. prov \in Seq(ProvRows) /\ Len(prov) = Len(msg) BY <1>1 DEF WakeTypeOK
    <2>2. NotSubmitted \in ProvRows BY DEF NotSubmitted, ProvRows
    <2>3. /\ prov' \in Seq(ProvRows) /\ Len(prov') = Len(msg) + 1 /\ prov'[Len(msg) + 1] = NotSubmitted
          /\ \A m \in 1 .. Len(msg) : prov'[m] = prov[m]
      BY <2>1, <2>2
    <2> QED BY <1>6, <2>3 DEF ProvKept, ProvMoves, Msgs
  <1>8. \A m \in Msgs : m # Len(msg) + 1 BY <1>2 DEF Msgs
  <1>9. \A m \in Msgs : msg'[m].kind = msg[m].kind BY <1>6 DEF Calm
  <1>10. 1 .. Len(msg') = Msgs \cup {Len(msg) + 1} BY <1>2, <1>6 DEF Msgs
  <1>11. Wakes' = {m \in Msgs \cup {Len(msg) + 1} : msg'[m].kind \in {"wake", "repair"}}
    BY <1>10 DEF Wakes, IsWake, Msgs
  <1>12. Wakes' = IF k \in {"wake", "repair"} THEN Wakes \cup {Len(msg) + 1} ELSE Wakes
    <2>1. \A m \in Msgs : msg'[m].kind \in {"wake", "repair"} <=> m \in Wakes BY <1>9 DEF Wakes, IsWake
    <2>2. Wakes \subseteq Msgs BY DEF Wakes
    <2>3. CASE k \in {"wake", "repair"} BY <1>3, <1>6, <1>11, <2>1, <2>2, <2>3
    <2>4. CASE k \notin {"wake", "repair"} BY <1>3, <1>6, <1>11, <2>1, <2>2, <2>4
    <2> QED BY <2>3, <2>4
  <1> QED BY <1>3, <1>6, <1>7, <1>8, <1>12

\* The rows as they are.
LEMMA RowsAsTheyAre ==
  ASSUME WakeInv
  PROVE  /\ msg \in [Msgs -> MsgRows]
         /\ \A m \in Msgs : Calm(msg[m], msg[m]) /\ RowSound(msg[m]) /\ Quieter(msg[m], msg[m])
  <1>1. msg \in [Msgs -> MsgRows] BY RowsTyped DEF WakeInv
  <1> QED BY <1>1, RowOf, SameRow

\* A Worker or the supervision records something for the CAO.
LEMMA InformStep ==
  ASSUME WakeInv, Inform
  PROVE  WakeInv'
  <1>1. /\ Room /\ msg' = Append(msg, NewMessage("info")) /\ prov' = Append(prov, NotSubmitted)
        /\ boundary = "none"
        /\ UNCHANGED <<job, boundary, turn, done, route, ready, proof, scan, retract, intents, epoch, faults>>
    BY DEF Inform
  <1>2. WakeTypeOK BY DEF WakeInv
  <1>3. /\ Steady /\ Added = {Len(msg) + 1} /\ ProvKept /\ msg'[Len(msg) + 1].kind = "info"
    BY <1>1, AppendFrame, RowsAsTheyAre
  <1>4. JobsKept /\ RemovalKept /\ ScanKept /\ ScalarsOK' BY <1>1, <1>2, Unchanged
  <1>5. BoundaryKept BY <1>1, <1>3 DEF BoundaryKept
  <1>6. ObligationKept' /\ OneLiveWake' BY <1>1 DEF ObligationKept, OneLiveWake, Obliged
  <1> QED BY <1>3, <1>4, <1>5, <1>6, SteadyStep

\* A Boundary is recorded with its wake, or a forgotten one gets a wake again: it has no other.
LEMMA WakeSteps ==
  ASSUME WakeInv, RecordBoundary \/ RearmObligation
  PROVE  WakeInv'
  <1>1. /\ Room /\ msg' = Append(msg, NewMessage("wake")) /\ prov' = Append(prov, NotSubmitted)
        /\ boundary' = "open"
        /\ UNCHANGED <<job, turn, done, route, ready, proof, scan, retract, intents, epoch, faults>>
    BY DEF RecordBoundary, RearmObligation, Rearmable, Obliged
  <1>2. WakeTypeOK /\ ScalarsOK /\ WakesOfBoundary BY Unchanged DEF WakeInv
  <1>3. /\ Steady /\ Added = {Len(msg) + 1} /\ ProvKept /\ msg'[Len(msg) + 1].st = "queued"
        /\ Wakes' = Wakes \cup {Len(msg) + 1} /\ \A m \in Msgs : msg'[m] = msg[m]
    BY <1>1, AppendFrame, RowsAsTheyAre
  <1>4. JobsKept /\ RemovalKept /\ ScanKept BY <1>1, <1>2, Unchanged
  <1>5. ScalarsOK' BY <1>1, <1>2 DEF ScalarsOK
  <1>6. BoundaryKept BY <1>1 DEF BoundaryKept
  <1>7. \A m \in Wakes : m \in Msgs /\ msg[m].st = "handled"
    BY <1>2 DEF RecordBoundary, RearmObligation, Rearmable, WakesOfBoundary, Wakes
  <1>8. ObligationKept' BY <1>3 DEF ObligationKept, Live
  <1>9. OneLiveWake' BY <1>3, <1>7 DEF OneLiveWake, Live
  <1> QED BY <1>3, <1>4, <1>5, <1>6, <1>8, <1>9, SteadyStep

\* A repair or an escalation supersedes what was under way, so that one wake serves the Boundary.
LEMMA RepairFrame ==
  ASSUME WakeInv, Obliged, RepairOrEscalate, UNCHANGED <<done, ready, route, epoch, faults>>,
         proof' \subseteq (1 .. MaxMessages) \X (1 .. MaxGen)
  PROVE  Steady /\ ProvKept /\ BoundaryKept /\ ScalarsOK' /\ ObligationKept' /\ OneLiveWake'
  <1> PICK k \in {"notice", "repair"} : k = IF HasRepair THEN "notice" ELSE "repair" OBVIOUS
  <1>1. /\ Room /\ turn' = "none" /\ msg' = Append(Superseded, NewMessage(k)) /\ prov' = Append(prov, NotSubmitted)
        /\ boundary' = IF k = "notice" THEN "asked" ELSE boundary
    BY DEF RepairOrEscalate
  <1>2. WakeTypeOK /\ ScalarsOK BY Unchanged DEF WakeInv
  <1>3. \A m \in Msgs : /\ Superseded[m] \in MsgRows
                        /\ Calm(msg[m], Superseded[m]) /\ RowSound(Superseded[m]) /\ Quieter(msg[m], Superseded[m])
                        /\ IsWake(m) => Superseded[m].st \notin Live
    <2> SUFFICES ASSUME NEW m \in Msgs
                 PROVE  /\ Superseded[m] \in MsgRows
                        /\ Calm(msg[m], Superseded[m]) /\ RowSound(Superseded[m]) /\ Quieter(msg[m], Superseded[m])
                        /\ IsWake(m) => Superseded[m].st \notin Live
      OBVIOUS
    <2> DEFINE s == [msg[m] EXCEPT !.st = "dead", !.own = 0, !.live = FALSE, !.sup = TRUE]
    <2>1. msg[m] \in MsgRows /\ RowSound(msg[m]) BY RowOf
    <2>2. Superseded[m] = IF IsWake(m) /\ msg[m].st \in Live THEN s ELSE msg[m] BY DEF Superseded
    <2>3. CASE IsWake(m) /\ msg[m].st \in Live
      <3>1. s \in MsgRows BY <2>1 DEF MsgRows, DeliveryStates
      <3>2. s.st = "dead" /\ s.own = 0 /\ s.live = FALSE /\ s.gen = msg[m].gen /\ s.kind = msg[m].kind
            /\ s.pol = msg[m].pol
        BY <2>1 DEF MsgRows
      <3> HIDE DEF s
      <3>3. Calm(msg[m], s) /\ RowSound(s) /\ Quieter(msg[m], s) BY <2>1, <2>3, <3>1, <3>2, SupersededRow
      <3> QED BY <2>2, <2>3, <3>1, <3>2, <3>3 DEF Live
    <2>4. CASE ~(IsWake(m) /\ msg[m].st \in Live) BY <2>1, <2>2, <2>4, SameRow
    <2> QED BY <2>3, <2>4
  <1>4. Superseded \in [Msgs -> MsgRows]
    <2>1. DOMAIN Superseded = Msgs /\ Superseded = [m \in Msgs |-> Superseded[m]] BY DEF Superseded
    <2> QED BY <1>3, <2>1
  <1>5. /\ Steady /\ Added = {Len(msg) + 1} /\ ProvKept
        /\ msg'[Len(msg) + 1].kind = k /\ msg'[Len(msg) + 1].st = "queued"
        /\ \A m \in Msgs : msg'[m] = Superseded[m]
        /\ Wakes' = IF k = "repair" THEN Wakes \cup {Len(msg) + 1} ELSE Wakes
    <2>1. \A m \in Msgs : Calm(msg[m], Superseded[m]) /\ RowSound(Superseded[m]) /\ Quieter(msg[m], Superseded[m])
      BY <1>3
    <2>2. k \in {"info", "wake", "repair", "notice", "notice2"} OBVIOUS
    <2>3. /\ Steady /\ Added = {Len(msg) + 1} /\ ProvKept
          /\ msg'[Len(msg) + 1].kind = k /\ msg'[Len(msg) + 1].st = "queued"
          /\ \A m \in Msgs : msg'[m] = Superseded[m]
          /\ Wakes' = IF k \in {"wake", "repair"} THEN Wakes \cup {Len(msg) + 1} ELSE Wakes
      BY <1>1, <1>4, <2>1, <2>2, AppendFrame
    <2> QED BY <2>3
  <1>6. BoundaryKept BY <1>1 DEF BoundaryKept, Obliged
  <1>7. ScalarsOK' BY <1>1, <1>2 DEF ScalarsOK
  <1>8. \A m \in Wakes : msg'[m].st \notin Live BY <1>3, <1>5 DEF Wakes
  <1>9. CASE k = "notice"
    BY <1>1, <1>5, <1>6, <1>7, <1>9 DEF ObligationKept, OneLiveWake, Obliged
  <1>10. CASE k = "repair"
    <2>1. ObligationKept' BY <1>5, <1>10 DEF ObligationKept, Live
    <2>2. OneLiveWake' BY <1>5, <1>8, <1>10 DEF OneLiveWake
    <2> QED BY <1>5, <1>6, <1>7, <2>1, <2>2
  <1> QED BY <1>9, <1>10

\* An expired decision turn is repaired or escalated.
LEMMA ExpiredTurnStep ==
  ASSUME WakeInv, RecoverExpiredTurn
  PROVE  WakeInv'
  <1>1. /\ Obliged /\ RepairOrEscalate
        /\ UNCHANGED <<job, done, route, ready, proof, scan, retract, intents, epoch, faults>>
    BY DEF RecoverExpiredTurn
  <1>2. WakeTypeOK /\ ScalarsOK BY Unchanged DEF WakeInv
  <1>3. Steady /\ ProvKept /\ BoundaryKept /\ ScalarsOK' /\ ObligationKept' /\ OneLiveWake'
    BY <1>1, <1>2, RepairFrame DEF ScalarsOK
  <1>4. JobsKept /\ RemovalKept /\ ScanKept BY <1>1, <1>2, Unchanged
  <1> QED BY <1>3, <1>4, SteadyStep

\* A delivered or acknowledged notice whose turn ended without an answer is closed.
LEMMA ClosedRow ==
  ASSUME WakeInv, NEW m \in Msgs, msg[m].st \in {"delivered", "acknowledged"}, NEW rows,
         rows = [msg EXCEPT ![m].st = "dead", ![m].pol = "terminal"]
         \/ rows = [msg EXCEPT ![m].st = "dead", ![m].pol = "terminal", ![m].sup = TRUE]
  PROVE  \E s \in MsgRows :
            /\ rows = [msg EXCEPT ![m] = s] /\ Closed(s)
            /\ Calm(msg[m], s) /\ RowSound(s) /\ Quieter(msg[m], s)
  <1>1. msg \in [Msgs -> MsgRows] /\ msg[m] \in MsgRows /\ RowSound(msg[m]) BY RowOf
  <1>2. PICK b \in BOOLEAN : rows = [msg EXCEPT ![m] = [msg[m] EXCEPT !.st = "dead", !.pol = "terminal", !.sup = b]]
    <2>1. CASE rows = [msg EXCEPT ![m].st = "dead", ![m].pol = "terminal"]
      <3>1. [msg[m] EXCEPT !.st = "dead", !.pol = "terminal"]
            = [msg[m] EXCEPT !.st = "dead", !.pol = "terminal", !.sup = msg[m].sup]
        BY <1>1 DEF MsgRows
      <3>2. msg[m].sup \in BOOLEAN BY <1>1 DEF MsgRows
      <3> QED BY <1>1, <2>1, <3>1, <3>2
    <2>2. CASE rows = [msg EXCEPT ![m].st = "dead", ![m].pol = "terminal", ![m].sup = TRUE]
      BY <1>1, <2>2
    <2> QED BY <2>1, <2>2
  <1> DEFINE s == [msg[m] EXCEPT !.st = "dead", !.pol = "terminal", !.sup = b]
  <1>3. s \in MsgRows BY <1>1 DEF MsgRows, DeliveryStates
  <1>4. s.st = "dead" /\ s.own = msg[m].own /\ s.live = msg[m].live /\ s.gen = msg[m].gen /\ s.kind = msg[m].kind
        /\ s.pol = "terminal"
    BY <1>1 DEF MsgRows
  <1>5. Closed(s) /\ Calm(msg[m], s) BY <1>1, <1>4 DEF Calm, First, Closed, MsgRows
  <1>6. RowSound(s) BY <1>1, <1>4 DEF RowSound, Live
  <1>7. Quieter(msg[m], s) BY <1>4 DEF Quieter, Fresh
  <1>8. rows = [msg EXCEPT ![m] = s] BY <1>2
  <1> HIDE DEF s
  <1> QED BY <1>3, <1>5, <1>6, <1>7, <1>8

\* The second identical proof that the turn of a wake, or of a notice, ended undecided.
LEMMA IncompleteStep ==
  ASSUME WakeInv, NEW m \in Msgs, RecoverIncomplete(m), msg[m].st \in {"delivered", "acknowledged"},
         (IsWake(m) /\ Obliged) \/ CurrentNotice(m),
         scan' = NoScan, UNCHANGED <<job, done, route, ready, proof, retract, intents, epoch, faults>>
  PROVE  WakeInv'
  <1>1. WakeTypeOK /\ RowsSound /\ ScalarsOK BY Unchanged DEF WakeInv
  <1>2. JobsKept /\ RemovalKept /\ ScanKept BY <1>1, Unchanged DEF ScanKept
  <1>3. CASE IsWake(m) /\ Latest(m) /\ RepairOrEscalate
    <2>1. Obliged BY <1>3 DEF CurrentNotice, IsWake
    <2>2. Steady /\ ProvKept /\ BoundaryKept /\ ScalarsOK' /\ ObligationKept' /\ OneLiveWake'
      BY <1>1, <1>3, <2>1, RepairFrame DEF ScalarsOK
    <2> QED BY <1>2, <2>2, SteadyStep
  <1>4. CASE IsWake(m) /\ UNCHANGED <<msg, prov, boundary, turn>>
    <2>1. ScalarsOK' BY <1>1, <1>4, Unchanged
    <2> QED BY <1>4, <2>1, NoRowFrame DEF Obliged
  <1>5. CASE ~IsWake(m)
    <2> DEFINE closed == [msg EXCEPT ![m].st = "dead", ![m].pol = "terminal"]
    <2>1. boundary = "asked" /\ UNCHANGED <<boundary, turn>>
          /\ \/ msg' = closed /\ UNCHANGED prov
             \/ Room /\ msg' = Append(closed, NewMessage("notice2")) /\ prov' = Append(prov, NotSubmitted)
      BY <1>5 DEF RecoverIncomplete, CurrentNotice
    <2>2. ScalarsOK' BY <1>1, <2>1, Unchanged
    <2>3. BoundaryKept /\ ObligationKept' /\ OneLiveWake'
      BY <2>1 DEF BoundaryKept, ObligationKept, OneLiveWake, Obliged
    <2> PICK rows : rows = closed OBVIOUS
    <2>4. PICK s \in MsgRows : rows = [msg EXCEPT ![m] = s] /\ Calm(msg[m], s) /\ RowSound(s) /\ Quieter(msg[m], s)
      BY ClosedRow
    <2> HIDE DEF closed
    <2>5. CASE msg' = closed /\ UNCHANGED prov
      <3>1. Steady /\ Len(msg') = Len(msg) /\ Added = {} BY <1>1, <2>4, <2>5, OneRow
      <3>2. ProvKept BY <1>1, <2>5, <3>1, Unchanged DEF Steady
      <3> QED BY <1>2, <2>2, <2>3, <3>1, <3>2, SteadyStep
    <2>6. CASE Room /\ msg' = Append(closed, NewMessage("notice2")) /\ prov' = Append(prov, NotSubmitted)
      <3>1. /\ rows \in [Msgs -> MsgRows]
            /\ \A n \in Msgs : Calm(msg[n], rows[n]) /\ RowSound(rows[n]) /\ Quieter(msg[n], rows[n])
        BY <2>4, RowsAsTheyAre
      <3>2. Steady /\ ProvKept BY <2>6, <3>1, AppendFrame
      <3> QED BY <1>2, <2>2, <2>3, <3>2, SteadyStep
    <2> QED BY <2>1, <2>5, <2>6
  <1> QED BY <1>3, <1>4, <1>5 DEF RecoverIncomplete

\* What the scan found is recorded, acted on, or no longer due.
LEMMA ReconcileStep ==
  ASSUME WakeInv, ReconcileIncomplete
  PROVE  WakeInv'
  <1> PICK m : m = scan.m OBVIOUS
  <1>1. /\ scan # NoScan /\ scan' = NoScan
        /\ UNCHANGED <<job, done, route, ready, retract, intents, epoch, faults>>
    BY DEF ReconcileIncomplete
  <1>2. m \in Msgs /\ scan.gen \in 1 .. MaxGen BY <1>1 DEF WakeInv, ScanSound
  <1>3. WakeTypeOK /\ ScalarsOK BY Unchanged DEF WakeInv
  <1>4. CASE UNCHANGED <<msg, prov, boundary, turn>> /\ proof' \in {proof, proof \cup {<<m, scan.gen>>}}
    <2>1. m \in 1 .. MaxMessages BY <1>2, <1>3, RowsTyped DEF Msgs
    <2>2. proof' \subseteq (1 .. MaxMessages) \X (1 .. MaxGen) BY <1>2, <1>3, <1>4, <2>1 DEF ScalarsOK
    <2>3. ScalarsOK' BY <1>1, <1>3, <1>4, <2>2 DEF ScalarsOK
    <2> QED BY <1>1, <1>4, <2>3, NoRowFrame DEF Obliged
  <1>5. CASE /\ msg[m].st \in {"delivered", "acknowledged"} /\ RecoverIncomplete(m) /\ UNCHANGED proof
             /\ (IsWake(m) /\ Obliged) \/ CurrentNotice(m)
    BY <1>1, <1>2, <1>5, IncompleteStep
  <1>6. \/ UNCHANGED <<msg, prov, boundary, turn>> /\ proof' \in {proof, proof \cup {<<m, scan.gen>>}}
        \/ /\ msg[m].st \in {"delivered", "acknowledged"} /\ RecoverIncomplete(m) /\ UNCHANGED proof
           /\ (IsWake(m) /\ Obliged) \/ CurrentNotice(m)
    BY DEF ReconcileIncomplete
  <1> QED BY <1>4, <1>5, <1>6

-----------------------------------------------------------------------------
(* Scans and retractions *)

\* The invariant under a step of the scan of the thread or of a removal from its queue.
LEMMA RemovalStep ==
  ASSUME WakeInv, Steady, ScalarsOK', ServedStep, BoundaryKept, JobsKept, OfferedOnce',
         prov' \in Seq(ProvRows), Len(prov') = Len(msg'),
         scan' \in Candidates, retract' \in Retractions, intents' \subseteq 1 .. Len(msg'),
         ScanSound', RemovalSound', RemovalVisible'
  PROVE  WakeInv'
  <1>1. WakeTypeOK /\ Stepped /\ ObligationKept /\ OneLiveWake BY DEF WakeInv, Steady
  <1>2. ObligationKept' /\ OneLiveWake' BY <1>1, StillServed
  <1>3. ClaimedInOrder' BY <1>1, OrderKept DEF WakeInv, Steady, Quieter
  <1>4. WakeTypeOK' /\ RowsSound' BY <1>1, TypedStep DEF JobsKept
  <1>5. WakesOfBoundary' BY <1>1, BoundaryFirst DEF WakeInv
  <1> QED BY <1>2, <1>3, <1>4, <1>5 DEF WakeInv

\* The frame of a step that leaves the rows, the jobs and the Boundary alone.
LEMMA RowsAlone ==
  ASSUME WakeInv, UNCHANGED <<msg, job, boundary, turn, done, route, ready, proof, epoch, faults>>
  PROVE  /\ WakeTypeOK /\ Steady /\ ScalarsOK' /\ ServedStep /\ BoundaryKept /\ JobsKept
         /\ Len(prov) = Len(msg') /\ prov \in Seq(ProvRows) /\ Msgs = 1 .. Len(msg')
  <1>1. WakeTypeOK /\ RowsSound /\ ScalarsOK BY Unchanged DEF WakeInv
  <1>2. Steady /\ Added = {} /\ \A m \in Msgs : Serving(msg[m], msg'[m]) BY <1>1, NoRow
  <1>3. ScalarsOK' /\ JobsKept /\ BoundaryKept BY <1>1, <1>2, Unchanged
  <1>4. ServedStep BY <1>2 DEF ServedStep, Obliged
  <1> QED BY <1>1, <1>2, <1>3, <1>4 DEF WakeTypeOK, Msgs

\* The same, when the thread's queue is left alone too.
LEMMA QueueAlone ==
  ASSUME WakeInv, UNCHANGED <<msg, prov, job, boundary, turn, done, route, ready, proof, epoch, faults>>,
         scan' \in Candidates, retract' \in Retractions, intents' \subseteq Msgs,
         ScanSound', RemovalSound', RemovalVisible'
  PROVE  WakeInv'
  <1>1. OfferedOnce' BY DEF WakeInv, OfferedOnce, Msgs
  <1>2. /\ WakeTypeOK /\ Steady /\ ScalarsOK' /\ ServedStep /\ BoundaryKept /\ JobsKept
        /\ Len(prov) = Len(msg') /\ prov \in Seq(ProvRows) /\ Msgs = 1 .. Len(msg')
    BY RowsAlone
  <1> QED BY <1>1, <1>2, RemovalStep

\* A candidate is taken, or its thread is observed.
LEMMA ScanSteps ==
  ASSUME WakeInv, ObserveThread \/ \E m \in Msgs : ActivationCandidate(m)
  PROVE  WakeInv'
  <1>1. WakeTypeOK BY DEF WakeInv
  <1>2. CASE ObserveThread
    <2>1. /\ UNCHANGED <<msg, prov, job, boundary, turn, done, route, ready, proof, retract, intents, epoch, faults>>
          /\ scan # NoScan /\ scan \in Candidates
          /\ scan' = [scan EXCEPT !.at = "seen", !.ended = prov[scan.m].st = "ended"]
      BY <1>1, <1>2 DEF ObserveThread, WakeTypeOK
    <2>2. /\ scan' \in Candidates /\ scan'.m = scan.m /\ scan'.gen = scan.gen
          /\ scan'.ended => prov[scan.m].st = "ended"
      BY <2>1 DEF Candidates
    <2>3. ScanSound' BY <2>1, <2>2 DEF WakeInv, ScanSound, Msgs
    <2>4. RemovalSound' /\ RemovalVisible'
      BY <2>1 DEF WakeInv, RemovalSound, RemovalVisible, ObsoleteRow, Superseding, Wakes, IsWake, Msgs
    <2>5. retract' \in Retractions /\ intents' \subseteq Msgs BY <1>1, <2>1 DEF WakeTypeOK
    <2> QED BY <2>1, <2>2, <2>3, <2>4, <2>5, QueueAlone
  <1>3. ASSUME NEW m \in Msgs, ActivationCandidate(m) PROVE WakeInv'
    <2>1. /\ UNCHANGED <<msg, prov, job, boundary, turn, done, route, ready, proof, retract, intents, epoch, faults>>
          /\ scan' = [m |-> m, gen |-> msg[m].gen, ended |-> FALSE, at |-> "taken"]
      BY <1>3 DEF ActivationCandidate
    <2>2. m \in Nat /\ msg[m].gen \in 1 .. MaxGen /\ msg[m].gen \in Nat
      BY <1>1, RowsTyped DEF Msgs, MsgRows
    <2>3. scan' \in Candidates /\ ScanSound' BY <2>1, <2>2 DEF Candidates, ScanSound, Msgs
    <2>4. RemovalSound' /\ RemovalVisible'
      BY <2>1 DEF WakeInv, RemovalSound, RemovalVisible, ObsoleteRow, Superseding, Wakes, IsWake, Msgs
    <2>5. retract' \in Retractions /\ intents' \subseteq Msgs BY <1>1, <2>1 DEF WakeTypeOK
    <2> QED BY <2>1, <2>3, <2>4, <2>5, QueueAlone
  <1> QED BY <1>2, <1>3

\* A message is listed for removal, or its removal is requested with a durable intent.
LEMMA RequestSteps ==
  ASSUME WakeInv, RequestRemoval \/ \E m \in Msgs : ListQueue(m)
  PROVE  WakeInv'
  <1>1. WakeTypeOK BY DEF WakeInv
  <1>2. CASE RequestRemoval
    <2> PICK m : m = retract.m OBVIOUS
    <2>1. /\ UNCHANGED <<msg, prov, job, boundary, turn, done, route, ready, proof, scan, epoch, faults>>
          /\ retract.st = "listed" /\ retract \in Retractions
      BY <1>1, <1>2 DEF RequestRemoval, WakeTypeOK
    <2>2. m \in Msgs /\ prov[m].st # "gone" BY <2>1 DEF WakeInv, RemovalSound
    <2>3. scan' \in Candidates /\ ScanSound' BY <1>1, <2>1 DEF WakeInv, WakeTypeOK, ScanSound, Msgs
    <2>4. CASE Obsolete(m) /\ msg[m].gen = retract.gen
      <3>1. retract' = [retract EXCEPT !.st = "asked"] /\ intents' = intents \cup {m} BY <1>2, <2>4 DEF RequestRemoval
      <3>2. retract' \in Retractions /\ retract'.st = "asked" /\ retract'.m = m /\ retract'.gen = retract.gen
        BY <2>1, <3>1 DEF Retractions
      <3>3. ObsoleteRow(m)
        BY <2>4 DEF Obsolete, ObsoleteRow, Closed
      <3>4. RemovalSound'
        BY <2>1, <2>2, <2>4, <3>1, <3>2, <3>3 DEF RemovalSound, ObsoleteRow, Superseding, Wakes, IsWake, Msgs
      <3>5. RemovalVisible' BY <2>1, <3>1 DEF WakeInv, RemovalVisible, Msgs
      <3>6. intents' \subseteq Msgs BY <1>1, <2>2, <3>1 DEF WakeTypeOK
      <3> QED BY <2>1, <2>3, <3>2, <3>4, <3>5, <3>6, QueueAlone
    <2>5. CASE ~(Obsolete(m) /\ msg[m].gen = retract.gen)
      <3>1. retract' = NoRetract /\ UNCHANGED intents BY <1>2, <2>5 DEF RequestRemoval
      <3>2. retract' \in Retractions /\ RemovalSound' BY <3>1 DEF Retractions, NoRetract, RemovalSound
      <3>3. RemovalVisible' BY <2>1, <3>1 DEF WakeInv, RemovalVisible, Msgs
      <3>4. intents' \subseteq Msgs BY <1>1, <3>1 DEF WakeTypeOK
      <3> QED BY <2>1, <2>3, <3>2, <3>3, <3>4, QueueAlone
    <2> QED BY <2>4, <2>5
  <1>3. ASSUME NEW m \in Msgs, ListQueue(m) PROVE WakeInv'
    <2>1. /\ UNCHANGED <<msg, prov, job, boundary, turn, done, route, ready, proof, scan, intents, epoch, faults>>
          /\ retract' = [st |-> "listed", m |-> m, gen |-> msg[m].gen, gone |-> FALSE]
          /\ prov[m].st = "queued"
      BY <1>3 DEF ListQueue
    <2>2. m \in Nat /\ msg[m].gen \in Nat BY <1>1, RowsTyped DEF Msgs, MsgRows
    <2>3. retract' \in Retractions BY <2>1, <2>2 DEF Retractions
    <2>4. RemovalSound' BY <2>1 DEF RemovalSound, Msgs
    <2>5. RemovalVisible' BY <2>1 DEF WakeInv, RemovalVisible, Msgs
    <2>6. scan' \in Candidates /\ ScanSound' BY <1>1, <2>1 DEF WakeInv, WakeTypeOK, ScanSound, Msgs
    <2>7. intents' \subseteq Msgs BY <1>1, <2>1 DEF WakeTypeOK
    <2> QED BY <2>1, <2>3, <2>4, <2>5, <2>6, <2>7, QueueAlone
  <1> QED BY <1>2, <1>3

\* The provider deletes the message unless it has consumed it; the answer may be lost.
LEMMA DeleteStep ==
  ASSUME WakeInv, DeleteQueued
  PROVE  WakeInv'
  <1> PICK m : m = retract.m OBVIOUS
  <1>1. WakeTypeOK BY DEF WakeInv
  <1>2. /\ UNCHANGED <<msg, job, boundary, turn, done, route, ready, proof, scan, intents, epoch, faults>>
        /\ retract.st = "asked" /\ retract \in Retractions
    BY <1>1 DEF DeleteQueued, WakeTypeOK
  <1>3. /\ m \in Msgs /\ m \in intents /\ ObsoleteRow(m) /\ prov[m].st # "gone"
        /\ msg[m].st \in {"delivered", "acknowledged"} => msg[m].gen = retract.gen
    BY <1>2 DEF WakeInv, RemovalSound
  <1>4. prov \in [Msgs -> ProvRows] /\ \A n \in Msgs : prov[n] \in ProvRows BY <1>1, RowsTyped
  <1>5. prov' = IF prov[m].st = "queued" THEN [prov EXCEPT ![m].st = "gone"] ELSE prov BY DEF DeleteQueued
  <1>6. /\ prov' \in Seq(ProvRows) /\ Len(prov') = Len(prov)
        /\ \A n \in Msgs : /\ prov'[n].subs = prov[n].subs /\ (prov'[n].st = "no" <=> prov[n].st = "no")
                           /\ prov'[n].st = "gone" => prov[n].st = "gone" \/ n = m
                           /\ prov[n].st = "ended" => prov'[n].st = "ended"
        /\ prov[m].st # "queued" => prov'[m].st # "gone"
    <2>1. CASE prov[m].st = "queued"
      <3> DEFINE s == [prov[m] EXCEPT !.st = "gone"]
      <3>1. s \in ProvRows /\ s.subs = prov[m].subs /\ s.st = "gone" BY <1>3, <1>4 DEF ProvRows
      <3>2. prov' = [prov EXCEPT ![m] = s] BY <1>5, <2>1
      <3> HIDE DEF s
      <3>3. prov' \in [Msgs -> ProvRows] /\ prov'[m] = s /\ \A n \in Msgs : n # m => prov'[n] = prov[n]
        BY <1>3, <1>4, <3>1, <3>2
      <3>4. Len(msg) \in Nat /\ Len(prov) = Len(msg) BY <1>1, RowsTyped DEF WakeTypeOK
      <3>5. prov' \in Seq(ProvRows) /\ Len(prov') = Len(prov) BY <3>3, <3>4, FunIsSeq DEF Msgs
      <3> QED BY <2>1, <3>1, <3>3, <3>5
    <2>2. CASE prov[m].st # "queued"
      BY <1>1, <1>3, <1>5, <2>2 DEF WakeTypeOK
    <2> QED BY <2>1, <2>2
  <1>7. /\ WakeTypeOK /\ Steady /\ ScalarsOK' /\ ServedStep /\ BoundaryKept /\ JobsKept
        /\ Len(prov) = Len(msg') /\ Msgs = 1 .. Len(msg')
    BY <1>2, RowsAlone
  <1>8. OfferedOnce'
    <2>1. OfferedOnce BY DEF WakeInv
    <2>2. \A n \in Msgs : /\ prov'[n].subs <= 1 /\ (prov'[n].st = "no" <=> prov'[n].subs = 0)
                          /\ Fresh(msg'[n]) => prov'[n].subs = 0
      BY <1>2, <1>6, <2>1 DEF OfferedOnce
    <2>3. \A j \in Jobs : /\ job'[j].st # "idle" => job'[j].m \in Msgs /\ job'[j].tok # 0
                          /\ job'[j].st \in Offering => ~Fresh(msg'[job'[j].m])
                          /\ job'[j].st \in {"sending", "unstarted"} => prov'[job'[j].m].subs = 0
      BY <1>2, <1>6, <2>1 DEF OfferedOnce
    <2>4. \A j, k \in Jobs : job'[j].st \in Offering /\ job'[k].st \in Offering /\ job'[j].m = job'[k].m => j = k
      BY <1>2, <2>1 DEF OfferedOnce
    <2> QED BY <1>7, <2>2, <2>3, <2>4 DEF OfferedOnce, Msgs
  <1>9. scan' \in Candidates /\ ScanSound'
    BY <1>1, <1>2, <1>6 DEF WakeInv, WakeTypeOK, ScanSound, Msgs
  <1>10. \/ retract' = [retract EXCEPT !.st = "answered", !.gone = (prov[m].st = "queued")]
         \/ retract' = NoRetract
    BY DEF DeleteQueued
  <1>11. retract' \in Retractions /\ RemovalSound'
    <2>1. CASE retract' = NoRetract BY <2>1 DEF NoRetract, Retractions, RemovalSound
    <2>2. CASE retract' = [retract EXCEPT !.st = "answered", !.gone = (prov[m].st = "queued")]
      <3>1. /\ retract' \in Retractions /\ retract'.st = "answered" /\ retract'.m = m /\ retract'.gen = retract.gen
            /\ retract'.gone <=> prov[m].st = "queued"
        BY <1>2, <2>2 DEF Retractions
      <3>2. ObsoleteRow(m)' BY <1>1, <1>3, <1>7, StaysObsolete DEF Steady
      <3> QED BY <1>2, <1>3, <1>6, <1>7, <3>1, <3>2 DEF RemovalSound, Msgs
    <2> QED BY <1>10, <2>1, <2>2
  <1>12. RemovalVisible' BY <1>2, <1>3, <1>6 DEF WakeInv, RemovalVisible, Msgs
  <1>13. intents' \subseteq 1 .. Len(msg') BY <1>1, <1>2, <1>7 DEF WakeTypeOK
  <1> QED BY <1>6, <1>7, <1>8, <1>9, <1>11, <1>12, <1>13, RemovalStep

\* The result is recorded: a removed informational message is closed.
LEMMA RecordStep ==
  ASSUME WakeInv, RecordRemoval
  PROVE  WakeInv'
  <1> PICK m : m = retract.m OBVIOUS
  <1>1. WakeTypeOK /\ RowsSound /\ ScalarsOK BY Unchanged DEF WakeInv
  <1>2. /\ UNCHANGED <<prov, job, boundary, turn, done, route, ready, proof, scan, epoch, faults>>
        /\ retract.st = "answered" /\ intents' = intents \ {m} /\ retract' = NoRetract
    BY DEF RecordRemoval
  <1>3. /\ m \in Msgs /\ ObsoleteRow(m) /\ (~retract.gone => prov[m].st # "gone")
        /\ msg[m].st \in {"delivered", "acknowledged"} => msg[m].gen = retract.gen
    BY <1>2 DEF WakeInv, RemovalSound
  <1> DEFINE closes == retract.gone /\ msg[m].st \in {"delivered", "acknowledged"}
  <1>4. /\ closes => Superseding(m) /\ msg' = [msg EXCEPT ![m].st = "dead", ![m].pol = "terminal", ![m].sup = TRUE]
        /\ ~closes => msg' = msg
    BY <1>3 DEF RecordRemoval, ObsoleteRow, Closed
  <1>5. /\ Steady /\ Len(msg') = Len(msg) /\ Added = {}
        /\ \A n \in Msgs : IsWake(n) => Serving(msg[n], msg'[n])
        /\ closes => msg'[m].st = "dead"
    <2>1. CASE closes
      <3> PICK rows : rows = [msg EXCEPT ![m].st = "dead", ![m].pol = "terminal", ![m].sup = TRUE] OBVIOUS
      <3>1. PICK s \in MsgRows : /\ rows = [msg EXCEPT ![m] = s] /\ Closed(s)
                                 /\ Calm(msg[m], s) /\ RowSound(s) /\ Quieter(msg[m], s)
        BY <1>3, <2>1, ClosedRow
      <3>2. msg' = [msg EXCEPT ![m] = s] /\ ~IsWake(m) BY <1>4, <2>1, <3>1 DEF Superseding, IsWake
      <3>3. /\ Steady /\ Len(msg') = Len(msg) /\ Added = {} /\ msg'[m] = s
            /\ \A n \in Msgs : n # m => Serving(msg[n], msg'[n])
        BY <1>1, <1>3, <3>1, <3>2, OneRow
      <3>4. s.st = "dead"
        <4>1. msg \in [Msgs -> MsgRows] BY <1>1, RowsTyped
        <4>2. rows[m].st = "dead" BY <1>3, <4>1 DEF MsgRows
        <4> QED BY <1>3, <3>1, <4>1, <4>2
      <3> QED BY <3>2, <3>3, <3>4
    <2>2. CASE ~closes BY <1>1, <1>4, <2>2, NoRow
    <2> QED BY <2>1, <2>2
  <1>6. ProvKept /\ JobsKept /\ BoundaryKept /\ ScanKept /\ ScalarsOK'
    BY <1>1, <1>2, <1>5, Unchanged DEF Steady
  <1>7. ServedStep BY <1>2, <1>5 DEF ServedStep, Obliged
  <1>8. OfferedOnce' BY <1>1, <1>5, <1>6, StillOfferedOnce DEF WakeInv
  <1>9. scan' \in Candidates /\ ScanSound'
    BY <1>1, <1>2, <1>5 DEF WakeInv, WakeTypeOK, ScanSound, Msgs
  <1>10. retract' \in Retractions /\ RemovalSound' BY <1>2 DEF NoRetract, Retractions, RemovalSound
  <1>11. RemovalVisible'
    <2> SUFFICES ASSUME NEW n \in Msgs, prov[n].st = "gone"
                 PROVE  n \in intents' \/ msg'[n].st \in {"handled", "dead"}
      BY <1>2, <1>5 DEF RemovalVisible, Msgs
    <2>1. Calm(msg[n], msg'[n]) BY <1>5 DEF Steady, Stepped
    <2>2. CASE n = m
      <3>1. retract.gone BY <1>3, <2>2
      <3>2. CASE closes BY <1>5, <2>2, <3>2
      <3>3. CASE ~closes
        <4>1. Closed(msg[n]) BY <1>3, <2>2, <3>1, <3>3 DEF ObsoleteRow
        <4> QED BY <2>1, <4>1 DEF Calm, Closed
      <3> QED BY <3>2, <3>3
    <2>3. CASE n # m
      <3>1. n \in intents \/ msg[n].st \in {"handled", "dead"} BY DEF WakeInv, RemovalVisible
      <3>2. CASE n \in intents BY <1>2, <2>3, <3>2
      <3>3. CASE msg[n].st \in {"handled", "dead"}
        <4>1. Closed(msg[n]) BY <1>1, <3>3, GoneIsClosed DEF WakeInv
        <4> QED BY <2>1, <4>1 DEF Calm, Closed
      <3> QED BY <3>1, <3>2, <3>3
    <2> QED BY <2>2, <2>3
  <1>12. prov' \in Seq(ProvRows) /\ Len(prov') = Len(msg') BY <1>1, <1>2, <1>5 DEF WakeTypeOK
  <1>13. intents' \subseteq 1 .. Len(msg') BY <1>1, <1>2, <1>5 DEF WakeTypeOK, Msgs
  <1> QED BY <1>5, <1>6, <1>7, <1>8, <1>9, <1>10, <1>11, <1>12, <1>13, RemovalStep

-----------------------------------------------------------------------------
(* The theorems *)

\* Every action of the conversation, the Dispatcher and the requester keeps the invariant.
LEMMA WakeNextStep == WakeInv /\ [WakeNext]_wakes => WakeInv'
  <1> SUFFICES ASSUME WakeInv, [WakeNext]_wakes PROVE WakeInv' OBVIOUS
  <1>1. CASE CaoActs
    <2>1. CASE Decide BY <2>1, DecideStep
    <2>2. CASE AcquireTurn \/ LeaseOfTurnExpires BY <2>2, WorldSteps
    <2>3. ASSUME NEW m \in Msgs, Acknowledge(m) \/ AcknowledgeDead(m) \/ HandleMessage(m) PROVE WakeInv'
      BY <2>3, AcknowledgeStep, HandleStep
    <2> QED BY <1>1, <2>1, <2>2, <2>3 DEF CaoActs
  <1>2. CASE Environment
    <2>1. CASE Inform BY <2>1, InformStep
    <2>2. CASE RecordBoundary BY <2>2, WakeSteps
    <2>3. CASE EndWork \/ RequesterReplies \/ RouteLost \/ CatalogRollover BY <2>3, WorldSteps
    <2>4. CASE Reconnect BY <2>4, RouteSteps
    <2>5. CASE Crash BY <2>5, CrashStep
    <2>6. ASSUME NEW m \in Msgs, ProviderStarts(m) \/ ProviderEnds(m) \/ LeaseRunsOut(m) PROVE WakeInv'
      BY <2>6, ProviderSteps, LeaseStep
    <2> QED BY <1>2, <2>1, <2>2, <2>3, <2>4, <2>5, <2>6 DEF Environment
  <1>3. CASE Scans
    <2>1. CASE RecoverExpiredTurn BY <2>1, ExpiredTurnStep
    <2>2. CASE RearmObligation BY <2>2, WakeSteps
    <2>3. CASE SettleTerminalWakes BY <2>3, TerminalStep
    <2>4. CASE ReplaceRoute BY <2>4, RouteSteps
    <2>5. CASE RebindQueued BY <2>5, RebindStep
    <2>6. CASE ObserveThread BY <2>6, ScanSteps
    <2>7. CASE ReconcileIncomplete BY <2>7, ReconcileStep
    <2>8. CASE RequestRemoval BY <2>8, RequestSteps
    <2>9. CASE DeleteQueued BY <2>9, DeleteStep
    <2>10. CASE RecordRemoval BY <2>10, RecordStep
    <2>11. ASSUME NEW m \in Msgs, CoalesceProgress(m) \/ ActivationCandidate(m) \/ ListQueue(m) PROVE WakeInv'
      BY <2>11, CoalesceStep, ScanSteps, RequestSteps
    <2> QED BY <1>3, <2>1, <2>2, <2>3, <2>4, <2>5, <2>6, <2>7, <2>8, <2>9, <2>10, <2>11 DEF Scans
  <1>4. ASSUME NEW j \in Jobs, JobStep(j) PROVE WakeInv'
    BY <1>4, NotSentSteps, ReserveStep, SubmitStep, AcceptedStep, UnknownStep, RetryStep DEF JobStep
  <1>5. ASSUME NEW j \in Jobs, NEW m \in Msgs, Claim(j, m) PROVE WakeInv' BY <1>5, ClaimStep
  <1>6. CASE UNCHANGED wakes
    <2>1. WakeTypeOK /\ RowsSound /\ ScalarsOK BY Unchanged DEF WakeInv
    <2>2. UNCHANGED <<msg, prov, job, boundary, turn, done, route, ready, proof, scan, retract, intents, epoch, faults>>
      BY <1>6 DEF wakes
    <2>3. Steady /\ Len(msg') = Len(msg) /\ Added = {} /\ \A m \in Msgs : Serving(msg[m], msg'[m])
      BY <2>1, <2>2, NoRow
    <2>4. ProvKept /\ JobsKept /\ RemovalKept /\ ScanKept /\ BoundaryKept /\ ScalarsOK'
      BY <2>1, <2>2, <2>3, Unchanged DEF Steady
    <2>5. ServedStep BY <2>2, <2>3 DEF ServedStep, Obliged
    <2> QED BY <2>3, <2>4, <2>5, PlainStep
  <1> QED BY <1>1, <1>2, <1>3, <1>4, <1>5, <1>6 DEF WakeNext

\* The invariant implies what is wanted of the wakes; their order follows from the order of the claims.
LEMMA InvKeepsWakes == WakeInv => WakesKept
  <1> SUFFICES ASSUME WakeInv PROVE WakesKept OBVIOUS
  <1>1. WakeSubmittedOnce BY DEF WakeInv, OfferedOnce, WakeSubmittedOnce
  <1>2. WakesInOrder
    <2> SUFFICES ASSUME NEW j \in Jobs, job[j].st = "sending", Holds(j, "dispatched"),
                        NEW p \in 1 .. job[j].m - 1, msg[p].gen = 1
                 PROVE  ~(msg[p].st \in {"queued", "leased"} \/ (msg[p].st = "dispatched" /\ msg[p].live))
      BY DEF WakesInOrder
    <2>1. job[j].m \in Msgs BY DEF WakeInv, OfferedOnce
    <2>2. msg[job[j].m].st = "dispatched" BY DEF Holds
    <2>3. ~First(msg[p]) BY <2>1, <2>2 DEF WakeInv, ClaimedInOrder
    <2> QED BY <2>3 DEF First
  <1> QED BY <1>1, <1>2 DEF WakeInv, WakesKept

\* Whatever crashes, losses of the route, expired leases and late answers: no wake of the
\* conversation is submitted twice or ahead of an earlier one, an open Boundary is served by one
\* wake, a turn, or a scan that re-arms it, and a removal from the queue stays visible.
THEOREM WakesAreKept == WakeSpec => []WakesKept
  <1>1. WakeInit => WakeInv BY InitWakeInv
  <1>2. WakeInv /\ [WakeNext]_wakes => WakeInv' BY WakeNextStep
  <1>3. WakeInv => WakesKept BY InvKeepsWakes
  <1> QED BY <1>1, <1>2, <1>3, PTL DEF WakeSpec

\* The scan of the thread appends a message only for a turn that it saw end.
LEMMA RepairStep ==
  ASSUME WakeInv, WakeNext, scan # NoScan, scan' = NoScan, msg' # msg
  PROVE  prov[scan.m].st = "ended"
  <1>1. ReconcileIncomplete
    <2>1. CASE CaoActs
      BY <2>1 DEF CaoActs, AcquireTurn, Decide, LeaseOfTurnExpires, Acknowledge, AcknowledgeDead, HandleMessage
    <2>2. CASE Environment
      BY <2>2 DEF Environment, Inform, RecordBoundary, EndWork, RequesterReplies, RouteLost, CatalogRollover,
                  Reconnect, Crash, ProviderStarts, ProviderEnds, LeaseRunsOut
    <2>3. CASE Scans
      BY <2>3 DEF Scans, RecoverExpiredTurn, RearmObligation, SettleTerminalWakes, ReplaceRoute, RebindQueued,
                  ObserveThread, RequestRemoval, DeleteQueued, RecordRemoval, CoalesceProgress,
                  ActivationCandidate, ListQueue
    <2>4. ASSUME NEW j \in Jobs, JobStep(j) PROVE FALSE
      BY <2>4 DEF JobStep, Park, NotPrepared, Reserve, Submit, SettleAccepted, SettleUnknown, RetryUnstarted
    <2>5. ASSUME NEW j \in Jobs, NEW m \in Msgs, Claim(j, m) PROVE FALSE BY <2>5 DEF Claim
    <2> QED BY <2>1, <2>2, <2>3, <2>4, <2>5 DEF WakeNext
  <1>2. scan.ended BY <1>1 DEF ReconcileIncomplete
  <1> QED BY <1>2 DEF WakeInv, ScanSound

\* No repair wake is sent on account of a turn that is still running in the conversation,
\* however long before the second proof the thread was looked at.
THEOREM RepairAnswersEnd == WakeSpec => [][RepairAfterEnd]_wakes
  <1>1. WakeInit => WakeInv BY InitWakeInv
  <1>2. WakeInv /\ [WakeNext]_wakes => WakeInv' BY WakeNextStep
  <1>3. WakeInv /\ [WakeNext]_wakes => [RepairAfterEnd]_wakes
    <2> SUFFICES ASSUME WakeInv, WakeNext PROVE RepairAfterEnd OBVIOUS
    <2> SUFFICES ASSUME NEW m \in Msgs, Len(msg') > Len(msg), scan # NoScan, scan' = NoScan, m = scan.m
                 PROVE  prov[m].st # "running"
      BY DEF RepairAfterEnd
    <2>1. msg' # msg
      <3>1. Len(msg) \in Nat BY RowsTyped DEF WakeInv
      <3> QED BY <3>1
    <2> QED BY <2>1, RepairStep
  <1> QED BY <1>1, <1>2, <1>3, PTL DEF WakeSpec
===============================================================================
