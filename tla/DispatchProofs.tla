----------------------------- MODULE DispatchProofs -----------------------------
(***************************************************************************)
(* Proofs about ProviderCircuit for any number of Workers, conversations,  *)
(* Assignments and 429 Boundaries: one probe per epoch of the circuit.     *)
(*                                                                         *)
(* The argument (CircuitInv): what was handed over since the 429 is never  *)
(* counted anywhere in the program; it is bounded by the circuit's row.    *)
(* An open circuit has handed over nothing, and one with a probe at most   *)
(* that probe (HandedSound).  This needs that a reservation never finds    *)
(* the circuit half open for its own, not yet dispatched Assignment        *)
(* (ValidProbe wants it dispatched), and that whatever clears the probe    *)
(* also takes back what was handed over, or begins a new epoch.            *)
(*                                                                         *)
(* Proofs about StateReads (state_read_admission.py), for any number of    *)
(* reads and readers: per cause every page of a resource is returned once, *)
(* and a conversation that is refused a read has had it, is having it, or  *)
(* lost it with its process.                                               *)
(*                                                                         *)
(* Proofs about PushOutbox, for any number of configurations, events, jobs *)
(* and crashes: while no job outlives its lease, a push has one worker and *)
(* what is settled stays settled (OutboxInv: who works on a push holds a   *)
(* live lease on a leased or deleted row).                                 *)
(***************************************************************************)
EXTENDS ProviderCircuit, StateReads, PushOutbox, FiniteSetTheorems, TLAPS

-----------------------------------------------------------------------------
(* ProviderCircuit: the invariant.                                         *)

\* The row of the circuit: its probe and what was handed over in this epoch.
HandedSound ==
    /\ circuit.state \in {"closed", "open"} => handed = {}
    /\ circuit.state \in {"half_open", "blocked"} => handed \subseteq {circuit.probe}

\* The probe is an Assignment of the conversation that was refused.
ProbeSound ==
    circuit.state \in {"half_open", "blocked"} =>
        circuit.probe \in 1 .. used /\ AttachmentOf[msgs[circuit.probe].w] = AttachmentOf[circuit.srcW]

CircuitInv == TypeOK /\ HandedSound /\ ProbeSound

-----------------------------------------------------------------------------
(* The writers of the circuit's row keep its type.                         *)

\* The numbers of the module as numbers.
LEMMA Numbers ==
    ASSUME CircuitAssumption, TypeOK
    PROVE  /\ MaxMsgs \in Nat /\ MaxSeq \in Nat /\ Msgs \subseteq Nat /\ used \in Nat /\ seq \in Nat
           /\ circuit.src \in Nat /\ circuit.probe \in Nat
<1>1. MaxMsgs \in Nat /\ MaxSeq \in Nat
  BY DEF CircuitAssumption
<1>2. circuit.src \in 0 .. MaxSeq /\ circuit.probe \in 0 .. MaxMsgs
  BY DEF TypeOK, Circuits
<1> QED BY <1>1, <1>2 DEF TypeOK, Msgs

\* A Boundary's record, as a source of the circuit.
LEMMA RateLimitedType ==
    ASSUME TypeOK, CircuitAssumption, NEW b \in [seq : 1 .. MaxSeq, w : Workers, ep : Nat]
    PROVE  RateLimited(b) \in Circuits
<1>1. b.seq \in 0 .. MaxSeq /\ 0 \in 0 .. MaxSeq /\ 0 \in 0 .. MaxMsgs
  BY Numbers
<1> QED BY <1>1 DEF RateLimited, TypeOK, Circuits

\* Marking the probe unknown, releasing it, closing the circuit, claiming the slot.
LEMMA WriterTypes ==
    ASSUME TypeOK, CircuitAssumption
    PROVE  /\ \A w \in Workers : MarkedUnknown(w) \in Circuits
           /\ \A m \in Msgs : /\ Released(m) \in Circuits /\ ClosedOnProgress(m) \in Circuits
                              /\ Claimed(m) \in Circuits
<1>1. 0 \in 0 .. MaxSeq /\ 0 \in 0 .. MaxMsgs /\ \A m \in Msgs : m \in 0 .. MaxMsgs
  BY Numbers DEF Msgs
<1>2. circuit \in Circuits /\ \A m \in Msgs : msgs[m].seq \in 0 .. MaxSeq
  BY DEF TypeOK, Deliveries
<1>3. \A w \in Workers : MarkedUnknown(w) \in Circuits
  BY <1>2 DEF MarkedUnknown, Circuits
<1>4. \A m \in Msgs : Released(m) \in Circuits
  BY <1>1, <1>2 DEF Released, Circuits
<1>5. \A m \in Msgs : ClosedOnProgress(m) \in Circuits
  BY <1>1, <1>2 DEF ClosedOnProgress, Circuits
<1>6. \A m \in Msgs : Claimed(m) \in Circuits
  BY <1>1, <1>2 DEF Claimed, Circuits
<1> QED BY <1>3, <1>4, <1>5, <1>6

\* A change of a delivery's state or of its unknown mark keeps its record.
LEMMA Moved ==
    ASSUME TypeOK, NEW m \in Msgs, NEW s \in DeliveryStates, NEW u \in BOOLEAN
    PROVE  [msgs EXCEPT ![m].st = s, ![m].unknown = u] \in [Msgs -> Deliveries]
<1> DEFINE d == [msgs[m] EXCEPT !.st = s, !.unknown = u]
<1>1. msgs \in [Msgs -> Deliveries] /\ msgs[m] \in Deliveries
  BY DEF TypeOK
<1>2. d \in Deliveries
  BY <1>1 DEF Deliveries
<1>3. [msgs EXCEPT ![m].st = s, ![m].unknown = u] = [msgs EXCEPT ![m] = d]
  BY <1>1
<1> HIDE DEF d
<1> QED BY <1>1, <1>2, <1>3

-----------------------------------------------------------------------------
(* What a step may do to the circuit and to what was handed over.          *)

CircuitMove ==
    \/ UNCHANGED <<circuit, handed>>
    \/ handed' = handed /\ \E w \in Workers : circuit' = MarkedUnknown(w)
    \/ \E m \in Msgs : circuit' = Released(m) /\ handed' = handed \ {m}
    \/ \E m \in Msgs : circuit' = ClosedOnProgress(m) /\ handed' = HandedIn(circuit', handed)
    \/ /\ \E b \in [seq : 1 .. MaxSeq, w : Workers, ep : Nat] : circuit' = RateLimited(b)
       /\ handed' = HandedIn(circuit', handed)
    \/ circuit.state = "closed" /\ circuit' = circuit /\ handed' = {}
    \/ /\ circuit.state = "open"
       /\ \E m \in 1 .. used : /\ circuit' = Claimed(m) /\ handed' = handed \cup {m}
                               /\ AttachmentOf[msgs[m].w] = AttachmentOf[circuit.srcW]

\* Assignments keep their Worker, and none disappears.
SameWorkers == used <= used' /\ \A m \in 1 .. used : msgs'[m].w = msgs[m].w

\* Every such step keeps the bound on what was handed over, and moves the epochs forward.
LEMMA MoveKeeps ==
    ASSUME CircuitAssumption, CircuitInv, CircuitMove, SameWorkers, used' \in Nat
    PROVE  HandedSound' /\ ProbeSound' /\ EpochsMoveForward
<1> USE DEF CircuitInv, SameWorkers
<1>0. /\ circuit \in Circuits /\ used \in Nat /\ circuit.src \in Nat
      /\ circuit.probe \in 1 .. used => circuit.probe \in 1 .. used'
  BY Numbers DEF TypeOK
<1>1. CASE UNCHANGED <<circuit, handed>>
  BY <1>0, <1>1 DEF HandedSound, ProbeSound, EpochsMoveForward
<1>2. CASE handed' = handed /\ \E w \in Workers : circuit' = MarkedUnknown(w)
  <2>1. /\ circuit'.src = circuit.src /\ circuit'.srcW = circuit.srcW /\ circuit'.probe = circuit.probe
        /\ \/ circuit'.state = circuit.state
           \/ circuit'.state = "blocked" /\ circuit.state = "half_open"
    BY <1>0, <1>2 DEF MarkedUnknown, Circuits
  <2> QED BY <1>0, <1>2, <2>1 DEF HandedSound, ProbeSound, EpochsMoveForward
<1>3. CASE \E m \in Msgs : circuit' = Released(m) /\ handed' = handed \ {m}
  <2>1. PICK m \in Msgs : circuit' = Released(m) /\ handed' = handed \ {m}
    BY <1>3
  <2>2. CASE circuit' = circuit
    BY <1>0, <2>1, <2>2 DEF HandedSound, ProbeSound, EpochsMoveForward
  <2>3. CASE /\ circuit.state \in {"half_open", "blocked"} /\ circuit.probe = m
             /\ circuit' = [circuit EXCEPT !.state = "open", !.probe = 0, !.pseq = 0, !.outcome = "none"]
    <3>1. circuit'.state = "open" /\ circuit'.src = circuit.src /\ handed' = {}
      BY <2>1, <2>3 DEF HandedSound, Circuits
    <3> QED BY <1>0, <2>3, <3>1 DEF HandedSound, ProbeSound, EpochsMoveForward
  <2> QED BY <2>1, <2>2, <2>3 DEF Released
<1>4. CASE \E m \in Msgs : circuit' = ClosedOnProgress(m) /\ handed' = HandedIn(circuit', handed)
  <2>1. \/ circuit' = circuit
        \/ circuit'.state = "closed" /\ circuit'.src = circuit.src /\ circuit'.probe = circuit.probe
    BY <1>0, <1>4 DEF ClosedOnProgress, Circuits
  <2>2. handed' = IF circuit'.state = "closed" THEN {} ELSE handed
    BY <1>4, <2>1 DEF HandedIn
  <2> QED BY <1>0, <2>1, <2>2 DEF HandedSound, ProbeSound, EpochsMoveForward
<1>5. CASE /\ \E b \in [seq : 1 .. MaxSeq, w : Workers, ep : Nat] : circuit' = RateLimited(b)
           /\ handed' = HandedIn(circuit', handed)
  <2>1. PICK b \in [seq : 1 .. MaxSeq, w : Workers, ep : Nat] : circuit' = RateLimited(b)
    BY <1>5
  <2>2. b.seq \in Nat
    BY Numbers
  <2>3. CASE circuit.src >= b.seq
    <3>1. circuit' = circuit
      BY <2>1, <2>3 DEF RateLimited
    <3>2. handed' = IF circuit.state = "closed" THEN {} ELSE handed
      BY <1>5, <3>1 DEF HandedIn
    <3> QED BY <1>0, <3>1, <3>2 DEF HandedSound, ProbeSound, EpochsMoveForward
  <2>4. CASE ~(circuit.src >= b.seq)
    <3>1. circuit'.state = "open" /\ circuit'.src = b.seq /\ b.seq > circuit.src
      BY <1>0, <2>1, <2>2, <2>4 DEF RateLimited
    <3>2. handed' = {}
      BY <1>0, <1>5, <2>2, <3>1 DEF HandedIn
    <3> QED BY <1>0, <2>2, <3>1, <3>2 DEF HandedSound, ProbeSound, EpochsMoveForward
  <2> QED BY <2>3, <2>4
<1>6. CASE circuit.state = "closed" /\ circuit' = circuit /\ handed' = {}
  BY <1>0, <1>6 DEF HandedSound, ProbeSound, EpochsMoveForward
<1>7. CASE /\ circuit.state = "open"
           /\ \E m \in 1 .. used : /\ circuit' = Claimed(m) /\ handed' = handed \cup {m}
                                   /\ AttachmentOf[msgs[m].w] = AttachmentOf[circuit.srcW]
  <2>1. PICK m \in 1 .. used : /\ circuit' = Claimed(m) /\ handed' = handed \cup {m}
                               /\ AttachmentOf[msgs[m].w] = AttachmentOf[circuit.srcW]
    BY <1>7
  <2>2. /\ circuit'.state = "half_open" /\ circuit'.probe = m /\ circuit'.src = circuit.src
        /\ circuit'.srcW = circuit.srcW
    BY <1>0, <2>1 DEF Claimed, Circuits
  <2>3. handed' = {m} /\ m # 0 /\ m \in 1 .. used'
    BY <1>0, <1>7, <2>1 DEF HandedSound
  <2> QED BY <1>0, <2>1, <2>2, <2>3 DEF HandedSound, ProbeSound, EpochsMoveForward
<1> QED BY <1>1, <1>2, <1>3, <1>4, <1>5, <1>6, <1>7 DEF CircuitMove

-----------------------------------------------------------------------------
(* The actions.                                                            *)

\* What is shown of an action.
StepOK == TypeOK' /\ CircuitMove /\ SameWorkers /\ OldInstructionsWait

\* Only the state or the unknown mark of one delivery changes, and it does not start a turn.
LEMMA OneMoved ==
    ASSUME CircuitAssumption, TypeOK, NEW m \in Msgs, NEW s \in DeliveryStates, NEW u \in BOOLEAN,
           msgs' = [msgs EXCEPT ![m].st = s, ![m].unknown = u], used' = used,
           msgs[m].st = "leased" /\ s = "dispatched" /\ circuit.state # "closed"
               => msgs[m].seq > circuit.src
    PROVE  msgs' \in [Msgs -> Deliveries] /\ SameWorkers /\ OldInstructionsWait
<1>1. msgs' \in [Msgs -> Deliveries]
  BY Moved
<1>2. \A n \in Msgs : /\ msgs'[n].w = msgs[n].w
                      /\ n # m => msgs'[n].st = msgs[n].st
                      /\ n = m => msgs'[n].st = s
  BY DEF TypeOK, Deliveries
<1>3. SameWorkers
  BY <1>2, Numbers DEF SameWorkers, TypeOK, Msgs
<1>4. OldInstructionsWait
  BY <1>2 DEF OldInstructionsWait
<1> QED BY <1>1, <1>3, <1>4

\* The same for the state alone.
LEMMA StateMoved ==
    ASSUME CircuitAssumption, TypeOK, NEW m \in Msgs, NEW s \in DeliveryStates,
           msgs' = [msgs EXCEPT ![m].st = s], used' = used,
           msgs[m].st = "leased" /\ s = "dispatched" /\ circuit.state # "closed"
               => msgs[m].seq > circuit.src
    PROVE  msgs' \in [Msgs -> Deliveries] /\ SameWorkers /\ OldInstructionsWait
<1>1. msgs[m].unknown \in BOOLEAN
  BY DEF TypeOK, Deliveries
<1>2. msgs' = [msgs EXCEPT ![m].st = s, ![m].unknown = msgs[m].unknown]
  BY DEF TypeOK, Deliveries
<1> QED BY <1>1, <1>2, OneMoved

\* No delivery changes.
LEMMA NoneMoved ==
    ASSUME CircuitAssumption, TypeOK, UNCHANGED <<msgs, used>>
    PROVE  SameWorkers /\ OldInstructionsWait
  BY Numbers DEF SameWorkers, OldInstructionsWait

\* The number of a delivery that exists.
LEMMA Existing == ASSUME CircuitAssumption, TypeOK PROVE 1 .. used \subseteq Msgs
  BY Numbers DEF TypeOK, Msgs

\* Assign: a new row, queued.
LEMMA AssignStep == ASSUME CircuitAssumption, TypeOK, NEW w \in Workers, Assign(w) PROVE StepOK
<1> DEFINE queued == [st |-> "queued", w |-> w, ep |-> rts[w].ep, seq |-> seq + 1,
                      mark |-> SourceBoundary, unknown |-> FALSE]
<1>1. /\ used < MaxMsgs /\ seq < MaxSeq /\ used' = used + 1 /\ seq' = seq + 1
      /\ msgs' = [msgs EXCEPT ![used + 1] = queued]
      /\ UNCHANGED <<circuit, rts, atts, bounds, handed>>
  BY DEF Assign
<1>2. /\ used \in Nat /\ seq \in Nat /\ used + 1 \in Msgs /\ used' \in 0 .. MaxMsgs /\ seq + 1 \in 0 .. MaxSeq
      /\ 0 \in 0 .. MaxSeq
  BY <1>1, Numbers DEF Msgs
<1>3. queued \in Deliveries
  <2>1. rts[w].ep \in Nat /\ SourceBoundary \in 0 .. MaxSeq
    BY <1>2 DEF TypeOK, SourceBoundary, Circuits
  <2> QED BY <1>2, <2>1 DEF Deliveries, DeliveryStates
<1>4. queued.st = "queued"
  OBVIOUS
<1> HIDE DEF queued
<1>5. TypeOK'
  BY <1>1, <1>2, <1>3 DEF TypeOK
<1>6. SameWorkers
  BY <1>1, <1>2 DEF SameWorkers, TypeOK, Msgs
<1>7. OldInstructionsWait
  BY <1>1, <1>2, <1>4 DEF OldInstructionsWait, TypeOK
<1> QED BY <1>1, <1>5, <1>6, <1>7 DEF StepOK, CircuitMove

\* Precheck, ReserveRefused, Acknowledge, Handle: a delivery moves on without a word to the circuit.
LEMMA PlainStep ==
    ASSUME CircuitAssumption, TypeOK, NEW m \in 1 .. used,
           Precheck(m) \/ ReserveRefused(m) \/ Acknowledge(m) \/ Handle(m)
    PROVE  StepOK
<1>1. PICK s \in {"leased", "queued", "acknowledged", "handled"} :
        /\ msgs' = [msgs EXCEPT ![m].st = s]
        /\ UNCHANGED <<circuit, used, rts, atts, seq, bounds, handed>>
  BY DEF Precheck, ReserveRefused, Acknowledge, Handle
<1>2. m \in Msgs /\ s \in DeliveryStates /\ s # "dispatched"
  BY Existing DEF DeliveryStates
<1>3. msgs' \in [Msgs -> Deliveries] /\ SameWorkers /\ OldInstructionsWait
  BY <1>1, <1>2, StateMoved
<1>4. TypeOK'
  BY <1>1, <1>3 DEF TypeOK
<1> QED BY <1>1, <1>3, <1>4 DEF StepOK, CircuitMove

\* A later instruction of the refused conversation is the only one that can be a candidate: the
\* takeover by another conversation would need a proof that no code records.
LEMMA CandidateIsLater ==
    ASSUME NEW m \in Msgs, Candidate(m)
    PROVE  msgs[m].seq > circuit.src /\ AttachmentOf[msgs[m].w] = AttachmentOf[circuit.srcW]
<1>1. TakeoverSequence(Att(m)) = 0
  BY DEF TakeoverSequence, StoppedByClose
<1>2. InstructionFloor(m) > 0 /\ msgs[m].seq > InstructionFloor(m)
  BY DEF Candidate
<1>3. InstructionFloor(m) # 0
  BY <1>2
<1> QED BY <1>1, <1>2, <1>3 DEF InstructionFloor, Att

\* Reserve: a closed circuit lets it pass, an open one makes it the probe; a half open one cannot
\* allow an Assignment that is still leased.
LEMMA ReserveStep ==
    ASSUME CircuitAssumption, TypeOK, NEW m \in 1 .. used, Reserve(m) PROVE StepOK
<1>1. /\ msgs[m].st = "leased" /\ msgs' = [msgs EXCEPT ![m].st = "dispatched"]
      /\ circuit' = IF circuit.state = "open" THEN Claimed(m) ELSE circuit
      /\ handed' = IF circuit.state = "closed" THEN {} ELSE handed \cup {m}
      /\ rts' = [rts EXCEPT ![msgs[m].w].state = "busy"]
      /\ UNCHANGED <<used, atts, seq, bounds>>
  BY DEF Reserve
<1>2. m \in Msgs /\ "dispatched" \in DeliveryStates
  BY Existing DEF DeliveryStates
<1>3. circuit.state = "closed" \/ (circuit.state = "open" /\ Candidate(m))
  BY <1>1 DEF Reserve, ClaimAllows, ValidProbe
<1>4. circuit.state # "closed" =>
        msgs[m].seq > circuit.src /\ AttachmentOf[msgs[m].w] = AttachmentOf[circuit.srcW]
  BY <1>2, <1>3, CandidateIsLater
<1>5. msgs' \in [Msgs -> Deliveries] /\ SameWorkers /\ OldInstructionsWait
  BY <1>1, <1>2, <1>4, StateMoved
<1>6. TypeOK'
  <2>1. circuit' \in Circuits
    BY <1>1, <1>2, WriterTypes DEF TypeOK
  <2>2. rts' \in [Workers -> [ep : Nat, state : RuntimeStates]]
    BY <1>1 DEF TypeOK, RuntimeStates
  <2> QED BY <1>1, <1>2, <1>5, <2>1, <2>2 DEF TypeOK
<1>7. CircuitMove
  BY <1>1, <1>3, <1>4 DEF CircuitMove
<1> QED BY <1>5, <1>6, <1>7 DEF StepOK

\* LaunchDenied: the slot is free again, nothing was handed over.
LEMMA LaunchDeniedStep ==
    ASSUME CircuitAssumption, TypeOK, NEW m \in 1 .. used, LaunchDenied(m) PROVE StepOK
<1>1. /\ msgs' = [msgs EXCEPT ![m].st = "dead"] /\ circuit' = Released(m) /\ handed' = handed \ {m}
      /\ UNCHANGED <<used, rts, atts, seq, bounds>>
  BY DEF LaunchDenied
<1>2. m \in Msgs /\ "dead" \in DeliveryStates
  BY Existing DEF DeliveryStates
<1>3. msgs' \in [Msgs -> Deliveries] /\ SameWorkers /\ OldInstructionsWait
  BY <1>1, <1>2, StateMoved
<1>4. TypeOK'
  BY <1>1, <1>2, <1>3, WriterTypes DEF TypeOK
<1> QED BY <1>1, <1>2, <1>3, <1>4 DEF StepOK, CircuitMove

\* Report, RecoverAgain: progress closes the circuit, an old Boundary seen again does nothing.
LEMMA CircuitOnlyStep ==
    ASSUME CircuitAssumption, TypeOK,
           (\E m \in 1 .. used : Report(m)) \/ (\E b \in bounds : RecoverAgain(b))
    PROVE  StepOK
<1>1. /\ UNCHANGED <<msgs, used, rts, atts, seq, bounds>> /\ handed' = HandedIn(circuit', handed)
      /\ \/ \E m \in 1 .. used : circuit' = ClosedOnProgress(m)
         \/ \E b \in bounds : circuit' = RateLimited(b)
  BY DEF Report, RecoverAgain
<1>2. bounds \subseteq [seq : 1 .. MaxSeq, w : Workers, ep : Nat]
  BY DEF TypeOK
<1>3. circuit' \in Circuits /\ handed' \subseteq Msgs
  BY <1>1, <1>2, Existing, WriterTypes, RateLimitedType DEF HandedIn, TypeOK
<1>4. CircuitMove
  BY <1>1, <1>2, Existing DEF CircuitMove
<1>5. TypeOK'
  BY <1>1, <1>3 DEF TypeOK
<1> QED BY <1>1, <1>4, <1>5, NoneMoved DEF StepOK

\* TurnEnds, OutcomeUnknown, LeaseExpires: the probe of the runtime becomes unknown.
LEMMA MarkStep ==
    ASSUME CircuitAssumption, TypeOK,
           \/ \E m \in 1 .. used : TurnEnds(m) \/ OutcomeUnknown(m)
           \/ \E w \in Workers : LeaseExpires(w)
    PROVE  StepOK
<1>1. CASE \E m \in 1 .. used : TurnEnds(m)
  <2>1. PICK m \in 1 .. used : TurnEnds(m)
    BY <1>1
  <2>2. /\ msgs[m].st # "leased"
        /\ msgs' = [msgs EXCEPT ![m].st = IF msgs[m].st = "dispatched" THEN "delivered" ELSE msgs[m].st]
        /\ rts' = [rts EXCEPT ![msgs[m].w].state = "waiting"]
        /\ circuit' = MarkedUnknown(msgs[m].w) /\ UNCHANGED <<used, atts, seq, bounds, handed>>
    BY <2>1 DEF TurnEnds
  <2>3. /\ m \in Msgs /\ msgs[m].w \in Workers
        /\ (IF msgs[m].st = "dispatched" THEN "delivered" ELSE msgs[m].st) \in DeliveryStates
    BY Existing DEF TypeOK, Deliveries, DeliveryStates
  <2>4. msgs' \in [Msgs -> Deliveries] /\ SameWorkers /\ OldInstructionsWait
    BY <2>2, <2>3, StateMoved
  <2>5. rts' \in [Workers -> [ep : Nat, state : RuntimeStates]]
    BY <2>2 DEF TypeOK, RuntimeStates
  <2>6. TypeOK'
    BY <2>2, <2>3, <2>4, <2>5, WriterTypes DEF TypeOK
  <2> QED BY <2>2, <2>3, <2>4, <2>6 DEF StepOK, CircuitMove
<1>2. CASE \E m \in 1 .. used : OutcomeUnknown(m)
  <2>1. PICK m \in 1 .. used : OutcomeUnknown(m)
    BY <1>2
  <2>2. m \in Msgs /\ msgs[m].w \in Workers /\ msgs[m].st = "dispatched" /\ "dispatched" \in DeliveryStates
    BY <2>1, Existing DEF OutcomeUnknown, TypeOK, Deliveries, DeliveryStates
  <2>3. /\ msgs' = [msgs EXCEPT ![m].st = "dispatched", ![m].unknown = TRUE]
        /\ circuit' = MarkedUnknown(msgs[m].w) /\ UNCHANGED <<used, rts, atts, seq, bounds, handed>>
    BY <2>1, <2>2 DEF OutcomeUnknown, TypeOK, Deliveries
  <2>4. msgs' \in [Msgs -> Deliveries] /\ SameWorkers /\ OldInstructionsWait
    BY <2>2, <2>3, OneMoved
  <2>5. TypeOK'
    BY <2>2, <2>3, <2>4, WriterTypes DEF TypeOK
  <2> QED BY <2>2, <2>3, <2>4, <2>5 DEF StepOK, CircuitMove
<1>3. CASE \E w \in Workers : LeaseExpires(w)
  <2>1. PICK w \in Workers : LeaseExpires(w)
    BY <1>3
  <2>2. /\ rts' = [rts EXCEPT ![w].state = "missing"] /\ circuit' = MarkedUnknown(w)
        /\ UNCHANGED <<msgs, used, atts, seq, bounds, handed>>
    BY <2>1 DEF LeaseExpires
  <2>3. rts' \in [Workers -> [ep : Nat, state : RuntimeStates]]
    BY <2>2 DEF TypeOK, RuntimeStates
  <2>4. TypeOK'
    BY <2>2, <2>3, WriterTypes DEF TypeOK
  <2> QED BY <2>2, <2>4, NoneMoved DEF StepOK, CircuitMove
<1> QED BY <1>1, <1>2, <1>3

\* RateLimit: a new Boundary, and with it a new epoch.
LEMMA RateLimitStep ==
    ASSUME CircuitAssumption, TypeOK, NEW m \in 1 .. used, RateLimit(m) PROVE StepOK
<1> DEFINE b == [seq |-> seq + 1, w |-> msgs[m].w, ep |-> msgs[m].ep]
<1>1. /\ seq < MaxSeq /\ msgs[m].st \in {"dispatched", "acknowledged", "handled"}
      /\ seq' = seq + 1 /\ bounds' = bounds \cup {b}
      /\ circuit' = RateLimited(b) /\ handed' = HandedIn(circuit', handed)
      /\ rts' = [rts EXCEPT ![msgs[m].w].state = "failed"]
      /\ msgs' = [msgs EXCEPT ![m].unknown = TRUE] /\ UNCHANGED <<used, atts>>
  BY DEF RateLimit
<1>2. m \in Msgs /\ msgs[m] \in Deliveries
  BY Existing DEF TypeOK
<1>3. seq + 1 \in 1 .. MaxSeq /\ seq + 1 \in 0 .. MaxSeq
  BY <1>1, Numbers
<1>4. b \in [seq : 1 .. MaxSeq, w : Workers, ep : Nat]
  BY <1>2, <1>3 DEF Deliveries
<1> HIDE DEF b
<1>5. circuit' \in Circuits
  BY <1>1, <1>4, RateLimitedType
<1>6. msgs' = [msgs EXCEPT ![m].st = msgs[m].st, ![m].unknown = TRUE] /\ msgs[m].st \in DeliveryStates
  BY <1>1, <1>2 DEF TypeOK, Deliveries
<1>7. msgs' \in [Msgs -> Deliveries] /\ SameWorkers /\ OldInstructionsWait
  BY <1>1, <1>2, <1>6, OneMoved
<1>8. TypeOK'
  <2>1. rts' \in [Workers -> [ep : Nat, state : RuntimeStates]]
    BY <1>1 DEF TypeOK, RuntimeStates
  <2>2. handed' \subseteq Msgs
    BY <1>1 DEF HandedIn, TypeOK
  <2> QED BY <1>1, <1>3, <1>4, <1>5, <1>7, <2>1, <2>2 DEF TypeOK
<1>9. CircuitMove
  BY <1>1, <1>4 DEF CircuitMove
<1> QED BY <1>7, <1>8, <1>9 DEF StepOK

\* Resolve: only not_delivered frees the slot.
LEMMA ResolveStep ==
    ASSUME CircuitAssumption, TypeOK, NEW m \in 1 .. used,
           NEW o \in {"delivered", "not_delivered", "dead"}, Resolve(m, o)
    PROVE  StepOK
<1>1. PICK s \in {"delivered", "queued", "dead"} :
        msgs' = [msgs EXCEPT ![m].unknown = FALSE, ![m].st = s]
  BY DEF Resolve
<1>2. /\ circuit' = IF o = "not_delivered" THEN Released(m) ELSE circuit
      /\ handed' = IF o = "not_delivered" THEN handed \ {m} ELSE handed
      /\ UNCHANGED <<used, rts, atts, seq, bounds>>
  BY DEF Resolve
<1>3. m \in Msgs /\ s \in DeliveryStates /\ s # "dispatched"
  BY Existing DEF DeliveryStates
<1>4. msgs' = [msgs EXCEPT ![m].st = s, ![m].unknown = FALSE]
  BY <1>1, <1>3 DEF TypeOK, Deliveries
<1>5. msgs' \in [Msgs -> Deliveries] /\ SameWorkers /\ OldInstructionsWait
  BY <1>2, <1>3, <1>4, OneMoved
<1>6. TypeOK'
  <2>1. circuit' \in Circuits /\ handed' \subseteq Msgs
    BY <1>2, <1>3, WriterTypes DEF TypeOK
  <2> QED BY <1>2, <1>5, <2>1 DEF TypeOK
<1>7. CircuitMove
  BY <1>2, <1>3 DEF CircuitMove
<1> QED BY <1>5, <1>6, <1>7 DEF StepOK

\* Close, Reopen: a conversation ends with its undispatched deliveries, or begins again.
LEMMA ConversationStep ==
    ASSUME CircuitAssumption, TypeOK, NEW a \in Attachments, Close(a) \/ Reopen(a)
    PROVE  StepOK
<1>1. CASE Close(a)
  <2>1. /\ seq < MaxSeq /\ seq' = seq + 1
        /\ atts' = [atts EXCEPT ![a] = [state |-> "revoked", closeSeq |-> seq + 1,
                                        closes |-> atts[a].closes + 1]]
        /\ msgs' = [m \in Msgs |-> IF Att(m) = a /\ Open(m) THEN [msgs[m] EXCEPT !.st = "dead"]
                                   ELSE msgs[m]]
        /\ UNCHANGED <<circuit, used, rts, bounds, handed>>
    BY <1>1 DEF Close
  <2>2. \A m \in Msgs : /\ msgs'[m] \in Deliveries /\ msgs'[m].w = msgs[m].w
                        /\ msgs'[m].st = msgs[m].st \/ msgs'[m].st = "dead"
    <3> SUFFICES ASSUME NEW m \in Msgs
                 PROVE  /\ msgs'[m] \in Deliveries /\ msgs'[m].w = msgs[m].w
                        /\ msgs'[m].st = msgs[m].st \/ msgs'[m].st = "dead"
      OBVIOUS
    <3>1. msgs[m] \in Deliveries
      BY DEF TypeOK
    <3>2. msgs'[m] = [msgs[m] EXCEPT !.st = "dead"] \/ msgs'[m] = msgs[m]
      BY <2>1
    <3> QED BY <3>1, <3>2 DEF Deliveries, DeliveryStates
  <2>3. msgs' \in [Msgs -> Deliveries]
    BY <2>1, <2>2
  <2>4. seq + 1 \in 0 .. MaxSeq
    BY <2>1, Numbers
  <2>5. atts' \in [Attachments -> [state : {"active", "revoked"}, closeSeq : 0 .. MaxSeq, closes : Nat]]
    <3>1. atts[a].closes + 1 \in Nat
      BY DEF TypeOK
    <3> QED BY <2>1, <2>4, <3>1 DEF TypeOK
  <2>6. TypeOK'
    BY <2>1, <2>3, <2>4, <2>5 DEF TypeOK
  <2>7. SameWorkers
    BY <2>1, <2>2, Existing, Numbers DEF SameWorkers
  <2>8. OldInstructionsWait
    BY <2>2 DEF OldInstructionsWait
  <2> QED BY <2>1, <2>6, <2>7, <2>8 DEF StepOK, CircuitMove
<1>2. CASE Reopen(a)
  <2>1. atts' = [atts EXCEPT ![a].state = "active"] /\ UNCHANGED <<circuit, msgs, used, rts, seq, bounds, handed>>
    BY <1>2 DEF Reopen
  <2>2. TypeOK'
    BY <2>1 DEF TypeOK
  <2> QED BY <2>1, <2>2, NoneMoved DEF StepOK, CircuitMove
<1> QED BY <1>1, <1>2

\* Restart, Stop: a runtime begins or ends; the circuit does not hear of it.
LEMMA RuntimeStep ==
    ASSUME CircuitAssumption, TypeOK, NEW w \in Workers, Restart(w) \/ Stop(w)
    PROVE  StepOK
<1>1. /\ \/ rts' = [rts EXCEPT ![w] = [ep |-> rts[w].ep + 1, state |-> "ready"]]
         \/ rts' = [rts EXCEPT ![w].state = "failed"]
      /\ UNCHANGED <<circuit, msgs, used, atts, seq, bounds, handed>>
  BY DEF Restart, Stop
<1>2. rts' \in [Workers -> [ep : Nat, state : RuntimeStates]]
  <2>1. rts[w].ep + 1 \in Nat
    BY DEF TypeOK
  <2> QED BY <1>1, <2>1 DEF TypeOK, RuntimeStates
<1>3. TypeOK'
  BY <1>1, <1>2 DEF TypeOK
<1> QED BY <1>1, <1>3, NoneMoved DEF StepOK, CircuitMove

-----------------------------------------------------------------------------
(* The theorems.                                                           *)

\* A circuit that has seen nothing.
LEMMA CircuitInit == ASSUME CircuitAssumption, Init PROVE CircuitInv
<1> USE DEF Init
<1>1. (CHOOSE w \in Workers : TRUE) \in Workers
  BY DEF CircuitAssumption
<1>2. MaxMsgs \in Nat /\ MaxSeq \in Nat /\ 0 \in 0 .. MaxSeq /\ 0 \in 0 .. MaxMsgs
  BY DEF CircuitAssumption
<1>3. Closed \in Circuits /\ NoMsg \in Deliveries
  BY <1>1, <1>2 DEF Closed, NoMsg, Circuits, Deliveries, DeliveryStates
<1>4. TypeOK
  <2>1. rts \in [Workers -> [ep : Nat, state : RuntimeStates]]
    BY DEF RuntimeStates
  <2>2. atts \in [Attachments -> [state : {"active", "revoked"}, closeSeq : 0 .. MaxSeq, closes : Nat]]
    BY <1>2
  <2>3. msgs \in [Msgs -> Deliveries]
    BY <1>3
  <2> QED BY <1>2, <1>3, <2>1, <2>2, <2>3 DEF TypeOK
<1>5. HandedSound /\ ProbeSound
  BY DEF HandedSound, ProbeSound, Closed
<1> QED BY <1>4, <1>5 DEF CircuitInv

\* Every action moves the circuit in one of the ways of CircuitMove.
LEMMA NextStep == ASSUME CircuitAssumption, TypeOK, [Next]_vars PROVE StepOK
<1>1. CASE UNCHANGED vars
  BY <1>1, NoneMoved DEF vars, StepOK, TypeOK, CircuitMove
<1>2. CASE \E w \in Workers : Assign(w) \/ LeaseExpires(w) \/ Restart(w) \/ Stop(w)
  BY <1>2, AssignStep, MarkStep, RuntimeStep
<1>3. CASE \E m \in 1 .. used :
             \/ Precheck(m) \/ Reserve(m) \/ ReserveRefused(m) \/ LaunchDenied(m)
             \/ Acknowledge(m) \/ Handle(m) \/ Report(m) \/ TurnEnds(m) \/ OutcomeUnknown(m)
             \/ RateLimit(m)
             \/ \E o \in {"delivered", "not_delivered", "dead"} : Resolve(m, o)
  BY <1>3, PlainStep, ReserveStep, LaunchDeniedStep, CircuitOnlyStep, MarkStep, RateLimitStep, ResolveStep
<1>4. CASE \E b \in bounds : RecoverAgain(b)
  BY <1>4, CircuitOnlyStep
<1>5. CASE \E a \in Attachments : Close(a) \/ Reopen(a)
  BY <1>5, ConversationStep
<1> QED BY <1>1, <1>2, <1>3, <1>4, <1>5 DEF Next

\* One step of the invariant, and what no step may do.
LEMMA InvStep ==
    ASSUME CircuitAssumption, CircuitInv, [Next]_vars
    PROVE  CircuitInv' /\ EpochsMoveForward /\ OldInstructionsWait
<1>1. TypeOK' /\ CircuitMove /\ SameWorkers /\ OldInstructionsWait
  BY NextStep DEF CircuitInv, StepOK
<1>2. used' \in Nat
  BY <1>1 DEF TypeOK
<1>3. HandedSound' /\ ProbeSound' /\ EpochsMoveForward
  BY <1>1, <1>2, MoveKeeps
<1> QED BY <1>1, <1>3 DEF CircuitInv

\* The row of the circuit bounds what was handed over, for ever.
THEOREM CircuitInvariant == ASSUME CircuitAssumption PROVE Spec => []CircuitInv
<1>1. Init => CircuitInv
  BY CircuitInit
<1>2. CircuitInv /\ [Next]_vars => CircuitInv'
  BY InvStep
<1> QED BY <1>1, <1>2, PTL DEF Spec

\* The rows that the circuit's transactions write keep the values their columns allow.
THEOREM CircuitTypes == ASSUME CircuitAssumption PROVE Spec => []TypeOK
<1>1. CircuitInv => TypeOK
  BY DEF CircuitInv
<1> QED BY <1>1, CircuitInvariant, PTL

\* Between a 429 and the proof that the provider answers, the Dispatcher hands over at most one
\* Assignment of the scope, whatever races with the claim in the reservation.
THEOREM ProbedOnce == ASSUME CircuitAssumption PROVE Spec => []OneProbePerEpoch
<1>1. CircuitInv => OneProbePerEpoch
  <2> SUFFICES ASSUME CircuitInv, circuit.state # "closed" PROVE Cardinality(handed) <= 1
    BY DEF OneProbePerEpoch
  <2>1. handed = {} \/ handed = {circuit.probe}
    BY DEF CircuitInv, HandedSound, TypeOK, Circuits
  <2>2. Cardinality({}) = 0 /\ Cardinality({circuit.probe}) = 1
    BY FS_EmptySet, FS_Singleton
  <2> QED BY <2>1, <2>2
<1> QED BY <1>1, CircuitInvariant, PTL

\* No instruction older than the 429 starts a turn while the circuit is not closed, and a 429 that a
\* later recovery sees again neither restores an old epoch nor takes the slot of its probe.
THEOREM CircuitMovesForward ==
    ASSUME CircuitAssumption PROVE Spec => [][OldInstructionsWait /\ EpochsMoveForward]_vars
<1>1. CircuitInv /\ [Next]_vars => [OldInstructionsWait /\ EpochsMoveForward]_vars
  BY InvStep
<1> QED BY <1>1, CircuitInvariant, PTL DEF Spec

-----------------------------------------------------------------------------
(* StateReads: the invariant.                                              *)

\* What the database knows now: the cause that a read without a new native input has.
Now == Cause(inputs)

\* No component of x is ahead of y.
UpTo(x, y) == x[1] <= y[1] /\ x[2] <= y[2] /\ x[3] <= y[3]

Reads(c) == call[c].st = "reading"
ServedOf(k) == {p \in served : p[1] = k}

\* Nothing that was reserved, kept or returned is of a later cause than the present one.
CausesKnown ==
    /\ row # None => UpTo(row.cause, Now)
    /\ \A p \in served : UpTo(p[1], Now)
    /\ \A c \in Readers : Reads(c) =>
          /\ UpTo(call[c].cause, Now)
          /\ call[c].prev # None => UpTo(call[c].prev.cause, call[c].cause)

\* A row with the reservation id of a read under way is that read's own, and still pending.
OwnRow(r, x) == r.id = x.id => r.cause = x.cause /\ r.pending

\* Reservations are told apart by their ids; two reads under way have different causes.
ReadsApart ==
    \A c \in Readers : Reads(c) =>
        /\ row # None => OwnRow(row, call[c])
        /\ \A d \in Readers : Reads(d) =>
              /\ d # c => call[d].id # call[c].id /\ call[d].cause # call[c].cause
              /\ call[d].prev # None => OwnRow(call[d].prev, call[c])

\* A page being read was not returned yet.
PagesUnread == \A c \in Readers : Reads(c) => <<call[c].cause, call[c].cur>> \notin served

\* The row of the present cause is the reservation of the read of that cause.
ReadOfNow == \A c \in Readers : Reads(c) /\ call[c].cause = Now =>
                 row # None /\ row.id = call[c].id /\ row.cause = Now

\* A row r that admits a cursor of the present cause: the pages before it were returned, no other.
Continues(r) == IF r # None /\ r.cause = Now
                THEN /\ r.pending \/ ServedOf(Now) # {}
                     /\ ~r.pending => r.next = 0 \/ \A p \in ServedOf(Now) : p[2] < r.next
                ELSE ServedOf(Now) = {}

\* What a failed read of the present cause puts back.
KeptForNow == \A c \in Readers : Reads(c) /\ call[c].cause = Now =>
                 /\ Continues(call[c].prev)
                 /\ call[c].prev # None /\ call[c].prev.cause = Now =>
                       ~call[c].prev.pending /\ call[c].prev.next = call[c].cur /\ call[c].cur # 0

\* A pending row of the present cause has its read, or lost it with its process.
PendingIsRead == row # None /\ row.cause = Now /\ row.pending =>
                    \/ \E c \in Readers : Reads(c) /\ call[c].cause = Now
                    \/ Now \in dead

ReadInv ==
    /\ ReadTypeOK /\ NoPolling
    /\ CausesKnown /\ ReadsApart /\ PagesUnread
    /\ ReadOfNow /\ Continues(row) /\ KeptForNow /\ PendingIsRead

-----------------------------------------------------------------------------
(* Causes: Cause, WithInput *)

\* Two causes of which neither is ahead of the other are the same, and a cause that is not ahead of
\* an earlier one is not ahead of a later one.
LEMMA CausesOrdered ==
    /\ \A x, y \in Causes : UpTo(x, y) /\ UpTo(y, x) => x = y
    /\ \A x, y, z \in Causes : UpTo(x, y) /\ UpTo(y, z) => UpTo(x, z)
    /\ \A x \in Causes : UpTo(x, x)
<1>. USE ReadAssumption DEF ReadConstants
<1>1. ASSUME NEW x \in Causes, NEW y \in Causes, UpTo(x, y), UpTo(y, x) PROVE x = y
  <2>1. PICK a \in 0 .. MaxInputs, b \in 0 .. MaxNews, e \in 0 .. MaxNews : x = <<a, b, e>>
    BY DEF Causes
  <2>2. PICK f \in 0 .. MaxInputs, g \in 0 .. MaxNews, h \in 0 .. MaxNews : y = <<f, g, h>>
    BY DEF Causes
  <2>3. a <= f /\ b <= g /\ e <= h /\ f <= a /\ g <= b /\ h <= e  BY <1>1, <2>1, <2>2 DEF UpTo
  <2>4. a = f /\ b = g /\ e = h  BY <2>3
  <2>. QED  BY <2>1, <2>2, <2>4
<1>2. ASSUME NEW x \in Causes, NEW y \in Causes, NEW z \in Causes, UpTo(x, y), UpTo(y, z)
      PROVE UpTo(x, z)
  <2>1. \A v \in Causes : v[1] \in Int /\ v[2] \in Int /\ v[3] \in Int  BY DEF Causes
  <2>. QED  BY <1>2, <2>1 DEF UpTo
<1>3. \A x \in Causes : UpTo(x, x)
  <2>1. \A v \in Causes : v[1] \in Int /\ v[2] \in Int /\ v[3] \in Int  BY DEF Causes
  <2>. QED  BY <2>1 DEF UpTo
<1>. QED  BY <1>1, <1>2, <1>3

\* INSERT OR IGNORE of an observed input keeps the inputs, and the cause it makes is a cause.
LEMMA CauseOfInputs ==
    ASSUME ReadTypeOK, NEW d \in 0 .. MaxInputs
    PROVE  /\ inputs \subseteq WithInput(d) /\ WithInput(d) \subseteq 1 .. MaxInputs
           /\ Cause(WithInput(d)) \in Causes /\ Now \in Causes /\ UpTo(Now, Cause(WithInput(d)))
<1>. USE ReadAssumption DEF ReadConstants
<1>1. inputs \subseteq WithInput(d) /\ WithInput(d) \subseteq 1 .. MaxInputs
  BY DEF ReadTypeOK, WithInput
<1>2. IsFiniteSet(1 .. MaxInputs) /\ Cardinality(1 .. MaxInputs) = MaxInputs
  <2>1. 1 \in Int /\ MaxInputs \in Int  OBVIOUS
  <2>2. Cardinality(1 .. MaxInputs) = IF 1 > MaxInputs THEN 0 ELSE MaxInputs - 1 + 1
    BY <2>1, FS_Interval
  <2>3. IsFiniteSet(1 .. MaxInputs)  BY <2>1, FS_Interval
  <2>. QED  BY <2>2, <2>3
<1>3. IsFiniteSet(WithInput(d)) /\ Cardinality(WithInput(d)) <= MaxInputs
  BY <1>1, <1>2, FS_Subset
<1>4. IsFiniteSet(inputs) /\ Cardinality(inputs) <= Cardinality(WithInput(d))
  BY <1>1, <1>3, FS_Subset
<1>5. Cardinality(inputs) \in Nat /\ Cardinality(WithInput(d)) \in Nat
  BY <1>3, <1>4, FS_CardinalityType
<1>6. news.note \in 0 .. MaxNews /\ news.cmd \in 0 .. MaxNews  BY DEF ReadTypeOK
<1>7. Cause(WithInput(d)) \in Causes /\ Now \in Causes
  BY <1>3, <1>4, <1>5, <1>6 DEF Cause, Causes, Now
<1>8. UpTo(Now, Cause(WithInput(d)))
  BY <1>4, <1>5, <1>6 DEF Cause, Now, UpTo
<1>. QED  BY <1>1, <1>7, <1>8

\* Nothing is known of a cause later than the present one.
LEMMA LaterUnknown ==
    ASSUME ReadTypeOK, CausesKnown, Now \in Causes
    PROVE  \A k \in Causes : UpTo(Now, k) /\ k # Now =>
               /\ row # None => row.cause # k
               /\ ServedOf(k) = {}
               /\ \A c \in Readers : Reads(c) =>
                     call[c].cause # k /\ (call[c].prev # None => call[c].prev.cause # k)
<1>. SUFFICES ASSUME NEW k \in Causes, UpTo(Now, k), k # Now
              PROVE  /\ row # None => row.cause # k
                     /\ ServedOf(k) = {}
                     /\ \A c \in Readers : Reads(c) =>
                           call[c].cause # k /\ (call[c].prev # None => call[c].prev.cause # k)
  OBVIOUS
<1>1. \A x \in Causes : UpTo(x, Now) => x # k  BY CausesOrdered
<1>2. row # None => row.cause # k  BY <1>1 DEF ReadTypeOK, CausesKnown, Rows
<1>3. ServedOf(k) = {}
  <2>1. \A p \in served : p[1] \in Causes  BY DEF ReadTypeOK
  <2>. QED  BY <1>1, <2>1 DEF CausesKnown, ServedOf
<1>4. ASSUME NEW c \in Readers, Reads(c)
      PROVE  /\ call[c].cause # k
             /\ call[c].prev # None => call[c].prev.cause # k
  <2>1. call[c].cause \in Causes /\ UpTo(call[c].cause, Now)  BY <1>4 DEF Reads, ReadTypeOK, CausesKnown
  <2>2. call[c].prev # None => call[c].prev \in Rows  BY DEF ReadTypeOK, CallRows
  <2>3. call[c].prev # None => call[c].prev.cause \in Causes /\ UpTo(call[c].prev.cause, call[c].cause)
    BY <1>4, <2>2 DEF CausesKnown, Rows
  <2>4. call[c].prev # None => UpTo(call[c].prev.cause, Now)  BY <2>1, <2>3, CausesOrdered
  <2>. QED  BY <1>1, <2>1, <2>3, <2>4
<1>. QED  BY <1>2, <1>3, <1>4

\* When only the cause moves on, or a call that does not read, nothing is under way, kept or
\* returned of the later cause.
LEMMA LaterStarts ==
    ASSUME ReadInv, ReadTypeOK', Now \in Causes, Now' \in Causes, UpTo(Now, Now'),
           UNCHANGED <<row, served, repeats, dead>>,
           \A c \in Readers : (Reads(c)' <=> Reads(c)) /\ (Reads(c) => call'[c] = call[c])
    PROVE  ReadInv'
<1>1. CausesKnown'
  <2>1. row' # None => UpTo(row'.cause, Now')
    BY CausesOrdered DEF ReadInv, CausesKnown, ReadTypeOK, Rows
  <2>2. ASSUME NEW p \in served' PROVE UpTo(p[1], Now')
    <3>1. p[1] \in Causes /\ UpTo(p[1], Now)  BY DEF ReadInv, CausesKnown, ReadTypeOK
    <3>. QED  BY <3>1, CausesOrdered
  <2>3. ASSUME NEW c \in Readers, Reads(c)'
        PROVE  /\ UpTo(call'[c].cause, Now')
               /\ call'[c].prev # None => UpTo(call'[c].prev.cause, call'[c].cause)
    <3>1. call[c].cause \in Causes /\ UpTo(call[c].cause, Now)
      BY <2>3 DEF ReadInv, CausesKnown, ReadTypeOK, Reads
    <3>2. UpTo(call[c].cause, Now')  BY <3>1, CausesOrdered
    <3>. QED  BY <2>3, <3>2 DEF ReadInv, CausesKnown, Reads
  <2>. QED  BY <2>1, <2>2, <2>3 DEF CausesKnown
<1>2. NoPolling' /\ ReadsApart' /\ PagesUnread'
  BY DEF ReadInv, NoPolling, ReadsApart, PagesUnread, Reads, OwnRow
<1>3. ReadOfNow' /\ Continues(row)' /\ KeptForNow' /\ PendingIsRead'
  <2>1. CASE Now' = Now
    <3>1. ReadOfNow' /\ Continues(row)' /\ PendingIsRead'
      BY <2>1 DEF ReadInv, ReadOfNow, Continues, PendingIsRead, Reads, ServedOf
    <3>2. KeptForNow'
      BY <2>1 DEF ReadInv, KeptForNow, Continues, Reads, ServedOf
    <3>. QED  BY <3>1, <3>2
  <2>2. CASE Now' # Now
    <3>1. /\ row # None => row.cause # Now'
          /\ ServedOf(Now') = {}
          /\ \A c \in Readers : Reads(c) => call[c].cause # Now'
      <4>1. PICK k \in Causes : k = Now'  OBVIOUS
      <4>2. UpTo(Now, k) /\ k # Now  BY <2>2, <4>1
      <4>3. /\ row # None => row.cause # k
            /\ ServedOf(k) = {}
            /\ \A c \in Readers : Reads(c) => call[c].cause # k
        <5>1. ReadTypeOK /\ CausesKnown  BY DEF ReadInv
        <5>. QED  BY <4>2, <5>1, LaterUnknown
      <4>. QED  BY <4>1, <4>3
    <3>2. ServedOf(Now)' = {}  BY <3>1 DEF ServedOf
    <3>. QED  BY <3>1, <3>2 DEF ReadOfNow, Continues, KeptForNow, PendingIsRead, Reads
  <2>. QED  BY <2>1, <2>2
<1>. QED  BY <1>1, <1>2, <1>3 DEF ReadInv

-----------------------------------------------------------------------------
(* Types *)

\* Admission starts with no read, no row and no cause.
LEMMA ReadInitInv == ReadInit => ReadInv
<1>. SUFFICES ASSUME ReadInit PROVE ReadInv
  OBVIOUS
<1>. USE ReadAssumption DEF ReadConstants
<1>1. IdleCall \in CallRows  BY DEF IdleCall, CallRows, Cursors
<1>2. ReadTypeOK
  <2>1. call \in [Readers -> CallRows]  BY <1>1 DEF ReadInit
  <2>2. \A c \in Readers : call[c].st # "reading"  BY DEF ReadInit, IdleCall
  <2>. QED  BY <2>1, <2>2 DEF ReadInit, ReadTypeOK
<1>3. \A c \in Readers : ~Reads(c)  BY DEF ReadInit, IdleCall, Reads
<1>4. row = None /\ served = {} /\ repeats = {}  BY DEF ReadInit
<1>5. Continues(row)  BY <1>4 DEF Continues, ServedOf
<1>6. NoPolling /\ CausesKnown /\ ReadsApart /\ PagesUnread /\ ReadOfNow /\ KeptForNow /\ PendingIsRead
  BY <1>3, <1>4 DEF NoPolling, CausesKnown, ReadsApart, PagesUnread, ReadOfNow, KeptForNow, PendingIsRead
<1>. QED  BY <1>2, <1>5, <1>6 DEF ReadInv

\* The row that reserve writes, and the call that holds it.
LEMMA ReserveTyped ==
    ASSUME ReadTypeOK, NEW c \in Readers, ReserveRead(c)
    PROVE  /\ call[c].digest \in 0 .. MaxInputs /\ call[c].st = "observed"
           /\ Now' = Cause(WithInput(call[c].digest)) /\ Now \in Causes /\ Now' \in Causes /\ UpTo(Now, Now')
           /\ ~Prohibited(Now', call[c].cur)
           /\ row' \in Rows /\ row' # None
           /\ row'.cause = Now' /\ row'.id = fresh + 1 /\ row'.pending /\ row'.next = 0
           /\ call' = [call EXCEPT ![c] = call'[c]] /\ call'[c] \in CallRows /\ Reads(c)'
           /\ call'[c].cause = Now' /\ call'[c].id = fresh + 1 /\ call'[c].prev = row
           /\ call'[c].cur = call[c].cur
           /\ UNCHANGED <<native, news, served, repeats, dead>> /\ fresh' = fresh + 1 /\ fresh < MaxReads
           /\ inputs' = WithInput(call[c].digest)
<1>. USE ReadAssumption DEF ReadConstants
<1>. DEFINE cause == Cause(WithInput(call[c].digest))
<1>1. call[c] \in CallRows  BY DEF ReadTypeOK
<1>2. call[c].digest \in 0 .. MaxInputs /\ call[c].st = "observed"  BY <1>1 DEF CallRows, ReserveRead
<1>3. /\ UNCHANGED <<native, news, served, repeats, dead>> /\ fresh' = fresh + 1 /\ fresh < MaxReads
      /\ inputs' = WithInput(call[c].digest)
      /\ ~Prohibited(cause, call[c].cur)
      /\ row' = [cause |-> cause, id |-> fresh + 1, pending |-> TRUE, next |-> 0]
      /\ call' = [call EXCEPT ![c].st = "reading", ![c].id = fresh + 1, ![c].cause = cause, ![c].prev = row]
  BY DEF ReserveRead
<1>4. Now' = cause  BY <1>3 DEF Now, Cause
<1>5. Now \in Causes /\ cause \in Causes /\ UpTo(Now, cause)  BY <1>2, CauseOfInputs
<1>6. fresh \in 0 .. MaxReads /\ row \in Rows \cup {None}  BY DEF ReadTypeOK
<1>7. fresh + 1 \in 1 .. MaxReads /\ 0 \in Cursors  BY <1>3, <1>6 DEF Cursors
<1>8. row' \in Rows /\ row'.cause = cause /\ row'.id = fresh + 1 /\ row'.pending /\ row'.next = 0
  BY <1>3, <1>5, <1>7 DEF Rows
<1>9. call'[c] = [call[c] EXCEPT !.st = "reading", !.id = fresh + 1, !.cause = cause, !.prev = row]
  BY <1>3 DEF ReadTypeOK
<1>10. /\ call'[c] \in CallRows /\ call'[c].st = "reading"
       /\ call'[c].cause = cause /\ call'[c].id = fresh + 1 /\ call'[c].prev = row
       /\ call'[c].cur = call[c].cur
  <2>. HIDE DEF cause
  <2>1. fresh + 1 \in 0 .. MaxReads  BY <1>7
  <2>2. call[c].cur \in Cursors  BY <1>1 DEF CallRows
  <2>. QED  BY <1>1, <1>5, <1>6, <1>9, <2>1, <2>2 DEF CallRows
<1>11. call' = [call EXCEPT ![c] = call'[c]]  BY <1>3, <1>9 DEF ReadTypeOK
<1>. QED  BY <1>2, <1>3, <1>4, <1>5, <1>8, <1>10, <1>11 DEF Reads

\* A call that ends is idle, and the calls beside it are as before.
LEMMA CallEnds ==
    ASSUME ReadTypeOK, NEW c \in Readers, call' = [call EXCEPT ![c] = IdleCall]
    PROVE  /\ call' \in [Readers -> CallRows] /\ ~Reads(c)'
           /\ \A d \in Readers : Reads(d)' => d # c /\ Reads(d) /\ call'[d] = call[d]
           /\ \A d \in Readers : d # c => call'[d] = call[d]
<1>1. IdleCall \in CallRows /\ IdleCall.st = "idle"
  BY ReadAssumption DEF IdleCall, CallRows, Cursors, ReadConstants
<1>2. call \in [Readers -> CallRows]  BY DEF ReadTypeOK
<1>3. call' \in [Readers -> CallRows] /\ call'[c] = IdleCall /\ (\A d \in Readers : d # c => call'[d] = call[d])
  BY <1>1, <1>2
<1>. QED  BY <1>1, <1>3 DEF Reads

\* FinishRead leaves the row of the read without a reservation, with the next cursor.
LEMMA FinishTyped ==
    ASSUME ReadTypeOK, NEW c \in Readers, FinishRead(c)
    PROVE  /\ Mine(c) => /\ row' \in Rows /\ row' # None
                         /\ row'.cause = row.cause /\ row'.id = row.id
                         /\ row'.pending = FALSE /\ row'.next = NextCursor(call[c].cur)
           /\ ~Mine(c) => row' = row
           /\ NextCursor(call[c].cur) \in {0, call[c].cur + 1} /\ call[c].cur \in Cursors
<1>. USE ReadAssumption DEF ReadConstants
<1>1. call[c].cur \in Cursors  BY DEF ReadTypeOK, CallRows
<1>2. NextCursor(call[c].cur) \in Cursors /\ NextCursor(call[c].cur) \in {0, call[c].cur + 1}
  BY <1>1 DEF Cursors, NextCursor
<1>3. ASSUME Mine(c)
      PROVE  /\ row' \in Rows
             /\ row'.cause = row.cause /\ row'.id = row.id
             /\ row'.pending = FALSE /\ row'.next = NextCursor(call[c].cur)
  <2>1. row \in Rows  BY <1>3 DEF Mine, ReadTypeOK
  <2>2. row' = [row EXCEPT !.pending = FALSE, !.next = NextCursor(call[c].cur)]
    BY <1>3 DEF FinishRead
  <2>. QED  BY <1>2, <2>1, <2>2 DEF Rows
<1>4. ~Mine(c) => row' = row  BY DEF FinishRead
<1>. QED  BY <1>1, <1>2, <1>3, <1>4

\* What a call that ends leaves to the others, whatever it did with the row, is of the right types.
LEMMA EndTyped ==
    ASSUME ReadTypeOK, NEW c \in Readers, call' = [call EXCEPT ![c] = IdleCall],
           UNCHANGED <<native, inputs, news, fresh>>,
           row' \in Rows \cup {None},
           row' # None => row'.id <= fresh /\ (row'.pending => row'.next = 0),
           served' \subseteq Causes \X Cursors, repeats' \subseteq served', dead' \subseteq Causes
    PROVE  ReadTypeOK'
<1>1. call' \in [Readers -> CallRows] /\ \A d \in Readers : Reads(d)' => Reads(d) /\ call'[d] = call[d]
  BY CallEnds
<1>2. ASSUME NEW d \in Readers, call'[d].st = "reading"
      PROVE  /\ call'[d].cause \in Causes /\ call'[d].id \in 1 .. fresh'
             /\ call'[d].prev # None => call'[d].prev.id < call'[d].id
                                        /\ (call'[d].prev.pending => call'[d].prev.next = 0)
  <2>1. call[d].st = "reading" /\ call'[d] = call[d]  BY <1>1, <1>2 DEF Reads
  <2>. QED  BY <2>1 DEF ReadTypeOK
<1>. QED  BY <1>1, <1>2 DEF ReadTypeOK

\* Every step of a conversation or of a read keeps the rows well formed.
LEMMA ReadTyped == ReadTypeOK /\ [ReadNext]_reading => ReadTypeOK'
<1>. SUFFICES ASSUME ReadTypeOK, [ReadNext]_reading PROVE ReadTypeOK'
  OBVIOUS
<1>. USE ReadAssumption DEF ReadConstants
<1>1. CASE NativeInput
  <2>1. native' \in 0 .. MaxInputs  BY <1>1 DEF NativeInput, ReadTypeOK
  <2>2. UNCHANGED <<inputs, news, row, fresh, call, served, repeats, dead>>  BY <1>1 DEF NativeInput
  <2>. QED  BY <2>1, <2>2 DEF ReadTypeOK
<1>2. CASE Notified
  <2>1. news.note \in 0 .. MaxNews /\ news.cmd \in 0 .. MaxNews /\ news.note + news.cmd < MaxNews
    BY <1>2 DEF Notified, ReadTypeOK
  <2>2. news.note + 1 \in 0 .. MaxNews /\ news.cmd + 1 \in 0 .. MaxNews  BY <2>1
  <2>3. news' \in [note : 0 .. MaxNews, cmd : 0 .. MaxNews]  BY <1>2, <2>2 DEF Notified, ReadTypeOK
  <2>4. UNCHANGED <<native, inputs, row, fresh, call, served, repeats, dead>>  BY <1>2 DEF Notified
  <2>. QED  BY <2>3, <2>4 DEF ReadTypeOK
<1>3. ASSUME NEW c \in Readers, NEW cur \in Cursors, ObserveInput(c, cur) PROVE ReadTypeOK'
  <2>1. PICK d \in {0, native} :
          call' = [call EXCEPT ![c] = [IdleCall EXCEPT !.st = "observed", !.digest = d, !.cur = cur]]
    BY <1>3 DEF ObserveInput
  <2>2. d \in 0 .. MaxInputs  BY DEF ReadTypeOK
  <2>3. [IdleCall EXCEPT !.st = "observed", !.digest = d, !.cur = cur] \in CallRows
    <3>1. IdleCall \in CallRows  BY DEF IdleCall, CallRows, Cursors
    <3>. QED  BY <2>2, <3>1 DEF CallRows
  <2>4. [IdleCall EXCEPT !.st = "observed", !.digest = d, !.cur = cur].st = "observed"
    BY DEF IdleCall
  <2>5. call \in [Readers -> CallRows]  BY DEF ReadTypeOK
  <2>6. call' \in [Readers -> CallRows] /\ call'[c].st = "observed" /\ \A e \in Readers : e # c => call'[e] = call[e]
    BY <2>1, <2>3, <2>4, <2>5
  <2>7. UNCHANGED <<native, inputs, news, row, fresh, served, repeats, dead>>  BY <1>3 DEF ObserveInput
  <2>8. \A e \in Readers : call'[e].st = "reading" => call'[e] = call[e]  BY <2>6
  <2>. QED  BY <2>6, <2>7, <2>8 DEF ReadTypeOK
<1>4. ASSUME NEW c \in Readers, ReserveRead(c) PROVE ReadTypeOK'
  <2>1. /\ call[c].digest \in 0 .. MaxInputs /\ Now' \in Causes
        /\ row' \in Rows /\ row'.id = fresh + 1 /\ row'.next = 0
        /\ call' = [call EXCEPT ![c] = call'[c]] /\ call'[c] \in CallRows
        /\ call'[c].cause = Now' /\ call'[c].id = fresh + 1 /\ call'[c].prev = row
        /\ UNCHANGED <<native, news, served, repeats, dead>> /\ fresh' = fresh + 1 /\ fresh < MaxReads
        /\ inputs' = WithInput(call[c].digest)
    BY <1>4, ReserveTyped
  <2>2. inputs' \subseteq 1 .. MaxInputs  BY <2>1, CauseOfInputs
  <2>3. fresh \in 0 .. MaxReads /\ fresh' \in 0 .. MaxReads  BY <2>1 DEF ReadTypeOK
  <2>4. call \in [Readers -> CallRows]  BY DEF ReadTypeOK
  <2>5. call' \in [Readers -> CallRows] /\ \A d \in Readers : d # c => call'[d] = call[d]
    BY <2>1, <2>4
  <2>6. row # None => row.id \in Int /\ row.id <= fresh /\ (row.pending => row.next = 0)
    BY DEF ReadTypeOK, Rows
  <2>7. ASSUME NEW d \in Readers, call'[d].st = "reading"
        PROVE  /\ call'[d].cause \in Causes /\ call'[d].id \in 1 .. fresh'
               /\ call'[d].prev # None => call'[d].prev.id < call'[d].id
                                          /\ (call'[d].prev.pending => call'[d].prev.next = 0)
    <3>1. CASE d = c  BY <2>1, <2>3, <2>6, <3>1
    <3>2. CASE d # c
      <4>1. call'[d] = call[d] /\ call[d].st = "reading"  BY <2>5, <2>7, <3>2
      <4>. QED  BY <2>1, <2>3, <4>1 DEF ReadTypeOK
    <3>. QED  BY <3>1, <3>2
  <2>8. /\ native' \in 0 .. MaxInputs /\ news' \in [note : 0 .. MaxNews, cmd : 0 .. MaxNews]
        /\ served' \subseteq Causes \X Cursors /\ repeats' \subseteq served' /\ dead' \subseteq Causes
    BY <2>1 DEF ReadTypeOK
  <2>9. row' # None => row'.id <= fresh' /\ (row'.pending => row'.next = 0)  BY <2>1, <2>3
  <2>. QED  BY <2>1, <2>2, <2>3, <2>5, <2>7, <2>8, <2>9 DEF ReadTypeOK
<1>5. ASSUME NEW c \in Readers, Refuse(c) PROVE ReadTypeOK'
  <2>1. call' = [call EXCEPT ![c] = IdleCall] /\ UNCHANGED <<native, inputs, news, row, fresh, served, repeats, dead>>
    BY <1>5 DEF Refuse
  <2>. QED  BY <2>1, EndTyped DEF ReadTypeOK
<1>6. ASSUME NEW c \in Readers, FinishRead(c) PROVE ReadTypeOK'
  <2>1. /\ call[c].st = "reading" /\ call' = [call EXCEPT ![c] = IdleCall]
        /\ UNCHANGED <<native, inputs, news, fresh, dead>>
        /\ served' = served \cup {<<call[c].cause, call[c].cur>>}
        /\ repeats' \in {repeats, repeats \cup {<<call[c].cause, call[c].cur>>}}
    BY <1>6 DEF FinishRead
  <2>2. call[c].cause \in Causes /\ call[c].cur \in Cursors  BY <2>1 DEF ReadTypeOK, CallRows
  <2>3. served' \subseteq Causes \X Cursors /\ repeats' \subseteq served' /\ dead' \subseteq Causes
    BY <2>1, <2>2 DEF ReadTypeOK
  <2>4. row' \in Rows \cup {None} /\ (row' # None => row'.id <= fresh /\ (row'.pending => row'.next = 0))
    <3>1. CASE Mine(c)
      <4>1. row # None  BY <3>1 DEF Mine
      <4>. QED  BY <1>6, <3>1, <4>1, FinishTyped DEF ReadTypeOK
    <3>2. CASE ~Mine(c)  BY <1>6, <3>2, FinishTyped DEF ReadTypeOK
    <3>. QED  BY <3>1, <3>2
  <2>. QED  BY <2>1, <2>3, <2>4, EndTyped
<1>7. ASSUME NEW c \in Readers, FailRead(c) PROVE ReadTypeOK'
  <2>1. /\ call[c].st = "reading" /\ call' = [call EXCEPT ![c] = IdleCall]
        /\ row' \in {row, call[c].prev}
        /\ UNCHANGED <<native, inputs, news, fresh, served, repeats, dead>>
    BY <1>7 DEF FailRead, Restored
  <2>2. call[c].prev \in Rows \cup {None} /\ call[c].id \in 1 .. fresh /\ fresh \in 0 .. MaxReads
    BY <2>1 DEF ReadTypeOK, CallRows
  <2>3. call[c].prev # None => call[c].prev.id < call[c].id /\ (call[c].prev.pending => call[c].prev.next = 0)
    BY <2>1 DEF ReadTypeOK
  <2>4. call[c].prev # None => call[c].prev.id \in Int  BY <2>2 DEF Rows
  <2>5. row' \in Rows \cup {None} /\ (row' # None => row'.id <= fresh /\ (row'.pending => row'.next = 0))
    BY <2>1, <2>2, <2>3, <2>4 DEF ReadTypeOK
  <2>. QED  BY <2>1, <2>5, EndTyped DEF ReadTypeOK
<1>8. ASSUME NEW c \in Readers, DieReading(c) PROVE ReadTypeOK'
  <2>1. /\ call[c].st = "reading" /\ call' = [call EXCEPT ![c] = IdleCall]
        /\ dead' = dead \cup {call[c].cause}
        /\ UNCHANGED <<native, inputs, news, row, fresh, served, repeats>>
    BY <1>8 DEF DieReading
  <2>2. dead' \subseteq Causes  BY <2>1 DEF ReadTypeOK
  <2>. QED  BY <2>1, <2>2, EndTyped DEF ReadTypeOK
<1>9. CASE UNCHANGED reading  BY <1>9 DEF reading, ReadTypeOK
<1>. QED  BY <1>1, <1>2, <1>3, <1>4, <1>5, <1>6, <1>7, <1>8, <1>9 DEF ReadNext

-----------------------------------------------------------------------------
(* reserve: a read of a cause that was not read, or the next page of it *)

\* What an admitted read finds: nothing under way of its cause, its page not returned, and the row
\* that it replaces tells exactly which pages were.
LEMMA Admitted ==
    ASSUME ReadInv, NEW c \in Readers, ReserveRead(c)
    PROVE  \E k \in Causes :
             /\ k = Now'
             /\ \A d \in Readers : Reads(d) => call[d].cause # k
             /\ <<k, call[c].cur>> \notin served
             /\ IF row # None /\ row.cause = k
                THEN ~row.pending /\ row.next = call[c].cur /\ call[c].cur # 0
                     /\ ServedOf(k) # {} /\ \A p \in ServedOf(k) : p[2] < row.next
                ELSE ServedOf(k) = {}
<1>0. ReadTypeOK /\ CausesKnown /\ ReadsApart /\ ReadOfNow /\ Continues(row)  BY DEF ReadInv
<1>1. /\ Now \in Causes /\ Now' \in Causes /\ UpTo(Now, Now')
      /\ ~Prohibited(Now', call[c].cur)
  BY <1>0, ReserveTyped
<1>2. PICK k \in Causes : k = Now'  BY <1>1
<1>3. UpTo(Now, k) /\ ~Prohibited(k, call[c].cur)  BY <1>1, <1>2
<1>4. call[c].cur \in Int  BY <1>0 DEF ReadTypeOK, CallRows, Cursors
<1>5. /\ \A d \in Readers : Reads(d) => call[d].cause # k
      /\ IF row # None /\ row.cause = k
         THEN ~row.pending /\ row.next = call[c].cur /\ call[c].cur # 0
              /\ ServedOf(k) # {} /\ \A p \in ServedOf(k) : p[2] < row.next
         ELSE ServedOf(k) = {}
  <2>1. CASE k # Now
    <3>1. /\ row # None => row.cause # k
          /\ ServedOf(k) = {}
          /\ \A d \in Readers : Reads(d) =>
                call[d].cause # k /\ (call[d].prev # None => call[d].prev.cause # k)
      BY <1>0, <1>1, <1>3, <2>1, LaterUnknown
    <3>. QED  BY <3>1
  <2>2. CASE k = Now
    <3>1. row # None /\ row.cause = k => ~row.pending /\ row.next = call[c].cur /\ call[c].cur # 0
      BY <1>3 DEF Prohibited, ForwardPage
    <3>2. ASSUME NEW d \in Readers, Reads(d), call[d].cause = k PROVE FALSE
      <4>1. row # None /\ row.id = call[d].id /\ row.cause = k  BY <1>0, <2>2, <3>2 DEF ReadOfNow
      <4>2. row.pending  BY <1>0, <3>2, <4>1 DEF ReadsApart, OwnRow
      <4>. QED  BY <3>1, <4>1, <4>2
    <3>3. CASE row # None /\ row.cause = k
      <4>1. ServedOf(k) # {} /\ (\A p \in ServedOf(k) : p[2] < row.next)
        BY <1>0, <2>2, <3>1, <3>3 DEF Continues
      <4>. QED  BY <3>1, <3>2, <3>3, <4>1
    <3>4. CASE ~(row # None /\ row.cause = k)
      <4>1. ServedOf(k) = {}  BY <1>0, <2>2, <3>4 DEF Continues
      <4>. QED  BY <3>2, <3>4, <4>1
    <3>. QED  BY <3>3, <3>4
  <2>. QED  BY <2>1, <2>2
<1>6. <<k, call[c].cur>> \notin served
  <2>1. SUFFICES ASSUME <<k, call[c].cur>> \in served PROVE FALSE
    OBVIOUS
  <2>2. <<k, call[c].cur>> \in ServedOf(k)  BY <2>1 DEF ServedOf
  <2>3. CASE row # None /\ row.cause = k
    <3>1. row.next = call[c].cur /\ \A p \in ServedOf(k) : p[2] < row.next  BY <1>5, <2>3
    <3>2. <<k, call[c].cur>>[2] < row.next  BY <2>2, <3>1
    <3>. QED  BY <1>4, <3>1, <3>2
  <2>4. CASE ~(row # None /\ row.cause = k)  BY <1>5, <2>2, <2>4
  <2>. QED  BY <2>3, <2>4
<1>. QED  BY <1>2, <1>5, <1>6

\* ReserveRead: the new row is the reservation of the new read, which keeps the row it replaced.
LEMMA ReserveReadStep == ReadInv /\ (\E c \in Readers : ReserveRead(c)) => ReadInv'
<1>. SUFFICES ASSUME ReadInv, NEW c \in Readers, ReserveRead(c) PROVE ReadInv'
  OBVIOUS
<1>0. ReadTypeOK /\ NoPolling /\ CausesKnown /\ ReadsApart /\ PagesUnread  BY DEF ReadInv
<1>1. ReadTypeOK'  BY <1>0, ReadTyped DEF ReadNext
<1>2. /\ Now \in Causes /\ Now' \in Causes /\ UpTo(Now, Now')
      /\ row' \in Rows /\ row' # None /\ row'.cause = Now' /\ row'.id = fresh + 1 /\ row'.pending /\ row'.next = 0
      /\ call' = [call EXCEPT ![c] = call'[c]] /\ Reads(c)'
      /\ call'[c].cause = Now' /\ call'[c].id = fresh + 1 /\ call'[c].prev = row /\ call'[c].cur = call[c].cur
      /\ UNCHANGED <<served, repeats, dead>>
  BY <1>0, ReserveTyped
<1>3. PICK k \in Causes :
        /\ k = Now'
        /\ \A d \in Readers : Reads(d) => call[d].cause # k
        /\ <<k, call[c].cur>> \notin served
        /\ IF row # None /\ row.cause = k
           THEN ~row.pending /\ row.next = call[c].cur /\ call[c].cur # 0
                /\ ServedOf(k) # {} /\ \A p \in ServedOf(k) : p[2] < row.next
           ELSE ServedOf(k) = {}
  BY Admitted
<1>4. \A d \in Readers : d # c => call'[d] = call[d]  BY <1>0, <1>2 DEF ReadTypeOK
<1>5. \A d \in Readers : d # c => (Reads(d)' <=> Reads(d))  BY <1>4 DEF Reads
<1>6. ServedOf(Now)' = ServedOf(k)  BY <1>2, <1>3 DEF ServedOf
<1>7. fresh \in Nat /\ (row # None => row \in Rows /\ row.id <= fresh /\ row.id \in Int)
  BY <1>0 DEF ReadTypeOK, Rows
<1>8. ASSUME NEW d \in Readers, Reads(d)
      PROVE  /\ call[d].id \in 1 .. fresh /\ call[d].cause \in Causes
             /\ call[d].prev # None => call[d].prev \in Rows /\ call[d].prev.id < call[d].id /\ call[d].prev.id \in Int
  BY <1>0, <1>8 DEF ReadTypeOK, Reads, CallRows, Rows
<1>9. NoPolling'  BY <1>0, <1>2 DEF NoPolling
<1>10. CausesKnown'
  <2>1. row' # None => UpTo(row'.cause, Now')  BY <1>2, CausesOrdered
  <2>2. ASSUME NEW p \in served' PROVE UpTo(p[1], Now')
    <3>1. p[1] \in Causes /\ UpTo(p[1], Now)  BY <1>0, <1>2 DEF CausesKnown, ReadTypeOK
    <3>. QED  BY <1>2, <3>1, CausesOrdered
  <2>3. ASSUME NEW d \in Readers, Reads(d)'
        PROVE  /\ UpTo(call'[d].cause, Now')
               /\ call'[d].prev # None => UpTo(call'[d].prev.cause, call'[d].cause)
    <3>1. CASE d = c
      <4>1. row # None => row.cause \in Causes /\ UpTo(row.cause, Now)  BY <1>0, <1>7 DEF CausesKnown, Rows
      <4>2. row # None => UpTo(row.cause, Now')  BY <1>2, <4>1, CausesOrdered
      <4>. QED  BY <1>2, <3>1, <4>2, CausesOrdered
    <3>2. CASE d # c
      <4>1. call'[d] = call[d] /\ Reads(d)  BY <1>4, <1>5, <2>3, <3>2
      <4>2. call[d].cause \in Causes /\ UpTo(call[d].cause, Now)  BY <1>0, <1>8, <4>1 DEF CausesKnown
      <4>3. UpTo(call[d].cause, Now')  BY <1>2, <4>2, CausesOrdered
      <4>. QED  BY <1>0, <4>1, <4>3 DEF CausesKnown
    <3>. QED  BY <3>1, <3>2
  <2>. QED  BY <2>1, <2>2, <2>3 DEF CausesKnown
<1>11. ReadsApart'
  <2>1. ASSUME NEW d \in Readers, Reads(d)' PROVE row' # None => OwnRow(row', call'[d])
    <3>1. CASE d = c  BY <1>2, <3>1 DEF OwnRow
    <3>2. CASE d # c
      <4>1. call'[d] = call[d] /\ Reads(d)  BY <1>4, <1>5, <2>1, <3>2
      <4>2. row'.id # call[d].id  BY <1>2, <1>7, <1>8, <4>1
      <4>. QED  BY <4>1, <4>2 DEF OwnRow
    <3>. QED  BY <3>1, <3>2
  <2>2. ASSUME NEW d \in Readers, Reads(d)', NEW e \in Readers, Reads(e)'
        PROVE  /\ e # d => call'[e].id # call'[d].id /\ call'[e].cause # call'[d].cause
               /\ call'[e].prev # None => OwnRow(call'[e].prev, call'[d])
    <3>1. CASE d = c /\ e = c
      <4>1. row # None => row.id # call'[c].id  BY <1>2, <1>7
      <4>. QED  BY <1>2, <3>1, <4>1 DEF OwnRow
    <3>2. CASE d = c /\ e # c
      <4>1. call'[e] = call[e] /\ Reads(e)  BY <1>4, <1>5, <2>2, <3>2
      <4>2. call[e].id # call'[c].id /\ call[e].cause # call'[c].cause
        BY <1>2, <1>3, <1>7, <1>8, <4>1
      <4>3. call[e].prev # None => call[e].prev.id # call'[c].id  BY <1>2, <1>7, <1>8, <4>1
      <4>. QED  BY <3>2, <4>1, <4>2, <4>3 DEF OwnRow
    <3>3. CASE d # c /\ e = c
      <4>1. call'[d] = call[d] /\ Reads(d)  BY <1>4, <1>5, <2>2, <3>3
      <4>2. call[d].id # call'[c].id /\ call[d].cause # call'[c].cause
        BY <1>2, <1>3, <1>7, <1>8, <4>1
      <4>3. row # None => OwnRow(row, call[d])  BY <1>0, <4>1 DEF ReadsApart
      <4>. QED  BY <1>2, <3>3, <4>1, <4>2, <4>3 DEF OwnRow
    <3>4. CASE d # c /\ e # c
      <4>1. call'[d] = call[d] /\ Reads(d) /\ call'[e] = call[e] /\ Reads(e)  BY <1>4, <1>5, <2>2, <3>4
      <4>. QED  BY <1>0, <4>1 DEF ReadsApart, OwnRow
    <3>. QED  BY <3>1, <3>2, <3>3, <3>4
  <2>. QED  BY <2>1, <2>2 DEF ReadsApart
<1>12. PagesUnread'
  <2>1. ASSUME NEW d \in Readers, Reads(d)' PROVE <<call'[d].cause, call'[d].cur>> \notin served'
    <3>1. CASE d = c  BY <1>2, <1>3, <3>1
    <3>2. CASE d # c
      <4>1. call'[d] = call[d] /\ Reads(d)  BY <1>4, <1>5, <2>1, <3>2
      <4>. QED  BY <1>0, <1>2, <4>1 DEF PagesUnread
    <3>. QED  BY <3>1, <3>2
  <2>. QED  BY <2>1 DEF PagesUnread
<1>13. \A d \in Readers : Reads(d)' /\ call'[d].cause = Now' => d = c
  BY <1>3, <1>4, <1>5
<1>14. ReadOfNow'  BY <1>2, <1>13 DEF ReadOfNow
<1>15. Continues(row)'
  BY <1>2 DEF Continues
<1>16. KeptForNow'
  <2>2. /\ call'[c].prev # None /\ call'[c].prev.cause = Now' =>
              ~call'[c].prev.pending /\ call'[c].prev.next = call'[c].cur /\ call'[c].cur # 0
    BY <1>2, <1>3
  <2>3. Continues(call[c].prev)'
    <3>1. IF row # None /\ row.cause = Now'
          THEN /\ row.pending \/ ServedOf(k) # {}
               /\ ~row.pending => row.next = 0 \/ \A p \in ServedOf(k) : p[2] < row.next
          ELSE ServedOf(k) = {}
      BY <1>3
    <3>. QED  BY <1>2, <1>6, <3>1 DEF Continues
  <2>. QED  BY <1>13, <2>2, <2>3 DEF KeptForNow
<1>17. PendingIsRead'  BY <1>2 DEF PendingIsRead
<1>. QED  BY <1>1, <1>9, <1>10, <1>11, <1>12, <1>14, <1>15, <1>16, <1>17 DEF ReadInv

-----------------------------------------------------------------------------
(* finish: the page was returned, the read raised, or the process died *)

\* What remains true of the other reads when one ends and the present cause does not change: a row
\* that is known, and no other read's, and pages that the other reads do not read.
LEMMA EndApart ==
    ASSUME ReadInv, NEW c \in Readers, Reads(c), call' = [call EXCEPT ![c] = IdleCall],
           UNCHANGED <<inputs, news>>,
           served' \in {served, served \cup {<<call[c].cause, call[c].cur>>}}, repeats' = {},
           row' # None => UpTo(row'.cause, Now),
           \A d \in Readers : d # c /\ Reads(d) /\ row' # None => OwnRow(row', call[d])
    PROVE  /\ NoPolling' /\ CausesKnown' /\ ReadsApart' /\ PagesUnread'
           /\ Now' = Now
           /\ \A d \in Readers : Reads(d)' => d # c /\ Reads(d) /\ call'[d] = call[d]
<1>0. ReadTypeOK /\ CausesKnown /\ ReadsApart /\ PagesUnread  BY DEF ReadInv
<1>1. Now' = Now  BY DEF Now, Cause
<1>2. \A d \in Readers : Reads(d)' => d # c /\ Reads(d) /\ call'[d] = call[d]  BY <1>0, CallEnds
<1>3. NoPolling'  BY DEF NoPolling
<1>4. CausesKnown'
  <2>1. UpTo(call[c].cause, Now)  BY <1>0 DEF CausesKnown
  <2>2. \A p \in served' : UpTo(p[1], Now')
    <3>1. <<call[c].cause, call[c].cur>>[1] = call[c].cause  OBVIOUS
    <3>2. \A p \in served : UpTo(p[1], Now)  BY <1>0 DEF CausesKnown
    <3>. QED  BY <1>1, <2>1, <3>1, <3>2
  <2>3. ASSUME NEW d \in Readers, Reads(d)'
        PROVE  /\ UpTo(call'[d].cause, Now')
               /\ call'[d].prev # None => UpTo(call'[d].prev.cause, call'[d].cause)
    BY <1>0, <1>1, <1>2, <2>3 DEF CausesKnown
  <2>. QED  BY <1>1, <2>2, <2>3 DEF CausesKnown
<1>5. ReadsApart'
  <2>1. ASSUME NEW d \in Readers, Reads(d)' PROVE row' # None => OwnRow(row', call'[d])
    BY <1>2, <2>1
  <2>2. ASSUME NEW d \in Readers, Reads(d)', NEW e \in Readers, Reads(e)'
        PROVE  /\ e # d => call'[e].id # call'[d].id /\ call'[e].cause # call'[d].cause
               /\ call'[e].prev # None => OwnRow(call'[e].prev, call'[d])
    <3>1. Reads(d) /\ call'[d] = call[d] /\ Reads(e) /\ call'[e] = call[e]  BY <1>2, <2>2
    <3>. QED  BY <1>0, <3>1 DEF ReadsApart
  <2>. QED  BY <2>1, <2>2 DEF ReadsApart
<1>6. PagesUnread'
  <2>1. ASSUME NEW d \in Readers, Reads(d)' PROVE <<call'[d].cause, call'[d].cur>> \notin served'
    <3>1. d # c /\ Reads(d) /\ call'[d] = call[d]  BY <1>2, <2>1
    <3>2. call[d].cause # call[c].cause  BY <1>0, <3>1 DEF ReadsApart
    <3>3. <<call[d].cause, call[d].cur>> \notin served  BY <1>0, <3>1 DEF PagesUnread
    <3>. QED  BY <3>1, <3>2, <3>3
  <2>. QED  BY <2>1 DEF PagesUnread
<1>. QED  BY <1>1, <1>2, <1>3, <1>4, <1>5, <1>6

\* A read of an earlier cause ends: nothing changes of the present one, as long as the row that is
\* there afterwards is of the present cause only if it was before, and unchanged.
LEMMA EarlierEnds ==
    ASSUME ReadInv, NEW c \in Readers, Reads(c), call[c].cause # Now, Now' = Now,
           \A d \in Readers : Reads(d)' => d # c /\ Reads(d) /\ call'[d] = call[d],
           call' = [call EXCEPT ![c] = IdleCall], dead \subseteq dead',
           served' \in {served, served \cup {<<call[c].cause, call[c].cur>>}},
           \/ row' = row
           \/ row # None /\ row.cause # Now /\ (row' # None => row'.cause # Now)
    PROVE  ReadOfNow' /\ Continues(row)' /\ KeptForNow' /\ PendingIsRead'
<1>0. ReadTypeOK /\ ReadOfNow /\ Continues(row) /\ KeptForNow /\ PendingIsRead  BY DEF ReadInv
<1>1. ServedOf(Now)' = ServedOf(Now)
  <2>1. <<call[c].cause, call[c].cur>>[1] # Now  OBVIOUS
  <2>. QED  BY <2>1 DEF ServedOf
<1>2. \A r : Continues(r) => IF r # None /\ r.cause = Now
                             THEN /\ r.pending \/ ServedOf(Now) # {}
                                  /\ ~r.pending => r.next = 0 \/ \A p \in ServedOf(Now) : p[2] < r.next
                             ELSE ServedOf(Now) = {}
  BY DEF Continues
<1>3. CASE row' = row
  <2>1. ReadOfNow'  BY <1>0, <1>3 DEF ReadOfNow
  <2>2. Continues(row)'  BY <1>0, <1>1, <1>2, <1>3 DEF Continues
  <2>3. KeptForNow'
    <3>1. ASSUME NEW d \in Readers, Reads(d)', call'[d].cause = Now'
          PROVE  /\ Continues(call[d].prev)'
                 /\ call'[d].prev # None /\ call'[d].prev.cause = Now' =>
                       ~call'[d].prev.pending /\ call'[d].prev.next = call'[d].cur /\ call'[d].cur # 0
      <4>1. Reads(d) /\ call'[d] = call[d] /\ call[d].cause = Now  BY <3>1
      <4>2. /\ Continues(call[d].prev)
            /\ call[d].prev # None /\ call[d].prev.cause = Now =>
                  ~call[d].prev.pending /\ call[d].prev.next = call[d].cur /\ call[d].cur # 0
        BY <1>0, <4>1 DEF KeptForNow
      <4>3. Continues(call[d].prev)'  BY <1>1, <1>2, <4>1, <4>2 DEF Continues
      <4>. QED  BY <4>1, <4>2, <4>3
    <3>. QED  BY <3>1 DEF KeptForNow
  <2>4. PendingIsRead'
    <3>1. SUFFICES ASSUME row # None, row.cause = Now, row.pending
                   PROVE  (\E d \in Readers : Reads(d)' /\ call'[d].cause = Now) \/ Now \in dead'
      BY <1>3 DEF PendingIsRead
    <3>2. CASE Now \in dead  BY <3>2
    <3>3. ASSUME NEW d \in Readers, Reads(d), call[d].cause = Now PROVE Reads(d)' /\ call'[d].cause = Now
      <4>1. d # c  BY <3>3
      <4>2. call'[d] = call[d]  BY <1>0, <4>1, CallEnds
      <4>. QED  BY <3>3, <4>2 DEF Reads
    <3>. QED  BY <1>0, <3>1, <3>2, <3>3 DEF PendingIsRead
  <2>. QED  BY <2>1, <2>2, <2>3, <2>4
<1>4. CASE row # None /\ row.cause # Now /\ (row' # None => row'.cause # Now)
  <2>1. \A d \in Readers : Reads(d) => call[d].cause # Now  BY <1>0, <1>4 DEF ReadOfNow
  <2>2. \A d \in Readers : Reads(d)' => call'[d].cause # Now'  BY <2>1
  <2>3. ServedOf(Now)' = {}  BY <1>0, <1>1, <1>4 DEF Continues
  <2>4. Continues(row)'  BY <1>4, <2>3 DEF Continues
  <2>. QED  BY <1>4, <2>2, <2>4 DEF ReadOfNow, KeptForNow, PendingIsRead
<1>. QED  BY <1>3, <1>4

\* The read of the present cause ends: no other read of it is under way.
LEMMA LatestEnds ==
    ASSUME ReadInv, NEW c \in Readers, Reads(c), call[c].cause = Now, Now' = Now,
           \A d \in Readers : Reads(d)' => d # c /\ Reads(d) /\ call'[d] = call[d]
    PROVE  /\ row # None /\ Mine(c) /\ row.cause = Now /\ row.pending
           /\ \A d \in Readers : Reads(d)' => call'[d].cause # Now'
           /\ ReadOfNow' /\ KeptForNow'
<1>1. row # None /\ row.id = call[c].id /\ row.cause = Now  BY DEF ReadInv, ReadOfNow
<1>2. row.pending  BY <1>1 DEF ReadInv, ReadsApart, OwnRow
<1>3. ASSUME NEW d \in Readers, Reads(d)' PROVE call'[d].cause # Now'
  <2>1. d # c /\ Reads(d) /\ call'[d] = call[d]  BY <1>3
  <2>2. call[d].cause # call[c].cause  BY <2>1 DEF ReadInv, ReadsApart
  <2>. QED  BY <2>1, <2>2
<1>4. ReadOfNow' /\ KeptForNow'  BY <1>3 DEF ReadOfNow, KeptForNow
<1>. QED  BY <1>1, <1>2, <1>3, <1>4 DEF Mine

\* FinishRead: the page was not returned before, and the row gets the cursor of the next one.
LEMMA FinishStep == ReadInv /\ (\E c \in Readers : FinishRead(c)) => ReadInv'
<1>. SUFFICES ASSUME ReadInv, NEW c \in Readers, FinishRead(c) PROVE ReadInv'
  OBVIOUS
<1>0. ReadTypeOK /\ NoPolling /\ CausesKnown /\ ReadsApart /\ PagesUnread /\ Continues(row)  BY DEF ReadInv
<1>1. ReadTypeOK'  BY <1>0, ReadTyped DEF ReadNext
<1>2. /\ Reads(c) /\ call' = [call EXCEPT ![c] = IdleCall] /\ UNCHANGED <<inputs, news, dead>>
      /\ served' = served \cup {<<call[c].cause, call[c].cur>>}
      /\ repeats' = IF <<call[c].cause, call[c].cur>> \in served
                    THEN repeats \cup {<<call[c].cause, call[c].cur>>} ELSE repeats
  BY DEF FinishRead, Reads
<1>3. repeats' = {}  BY <1>0, <1>2 DEF PagesUnread, NoPolling
<1>4. /\ Mine(c) => /\ row' \in Rows /\ row' # None
                    /\ row'.cause = row.cause /\ row'.id = row.id
                    /\ row'.pending = FALSE /\ row'.next = NextCursor(call[c].cur)
      /\ ~Mine(c) => row' = row
      /\ NextCursor(call[c].cur) \in {0, call[c].cur + 1} /\ call[c].cur \in Cursors
  BY <1>0, FinishTyped
<1>5. row' # None => row # None /\ row'.cause = row.cause /\ row'.id = row.id  BY <1>4 DEF Mine
<1>6. row' # None => UpTo(row'.cause, Now)  BY <1>0, <1>5 DEF CausesKnown
<1>7. ASSUME NEW d \in Readers, d # c, Reads(d), row' # None PROVE OwnRow(row', call[d])
  <2>1. OwnRow(row, call[d])  BY <1>0, <1>5, <1>7 DEF ReadsApart
  <2>2. call[d].id # call[c].id  BY <1>0, <1>2, <1>7 DEF ReadsApart
  <2>3. CASE Mine(c)  BY <1>5, <1>7, <2>2, <2>3 DEF Mine, OwnRow
  <2>4. CASE ~Mine(c)  BY <1>4, <2>1, <2>4
  <2>. QED  BY <2>3, <2>4
<1>8. /\ NoPolling' /\ CausesKnown' /\ ReadsApart' /\ PagesUnread' /\ Now' = Now
      /\ \A d \in Readers : Reads(d)' => d # c /\ Reads(d) /\ call'[d] = call[d]
  BY <1>2, <1>3, <1>6, <1>7, EndApart
<1>9. ReadOfNow' /\ Continues(row)' /\ KeptForNow' /\ PendingIsRead'
  <2>1. CASE call[c].cause # Now
    <3>1. Mine(c) => row # None /\ row.cause = call[c].cause
      BY <1>0, <1>2 DEF Mine, ReadsApart, OwnRow
    <3>2. row' = row \/ (row # None /\ row.cause # Now /\ (row' # None => row'.cause # Now))
      BY <1>4, <2>1, <3>1
    <3>. QED  BY <1>2, <1>8, <2>1, <3>2, EarlierEnds
  <2>2. CASE call[c].cause = Now
    <3>1. Mine(c) /\ row # None /\ row.cause = Now /\ row.pending /\ ReadOfNow' /\ KeptForNow'
      BY <1>2, <1>8, <2>2, LatestEnds
    <3>2. row' # None /\ row'.cause = Now' /\ row'.pending = FALSE /\ row'.next = NextCursor(call[c].cur)
      BY <1>4, <1>8, <3>1
    <3>3. ServedOf(Now)' = ServedOf(Now) \cup {<<Now, call[c].cur>>}  BY <1>2, <1>8, <2>2 DEF ServedOf
    <3>4. ASSUME NEW p \in ServedOf(Now) PROVE p[2] <= call[c].cur
      <4>1. p[1] = Now /\ p \in served  BY DEF ServedOf
      <4>2. call[c].prev # None /\ call[c].prev.cause = Now =>
               ~call[c].prev.pending /\ call[c].prev.next = call[c].cur /\ call[c].cur # 0
        BY <1>2, <2>2 DEF ReadInv, KeptForNow
      <4>3. Continues(call[c].prev)  BY <1>2, <2>2 DEF ReadInv, KeptForNow
      <4>4. call[c].prev # None /\ call[c].prev.cause = Now  BY <4>3 DEF Continues
      <4>5. p[2] < call[c].prev.next  BY <4>2, <4>3, <4>4 DEF Continues
      <4>6. p[2] \in Int /\ call[c].cur \in Int  BY <1>0, <1>4, <4>1 DEF ReadTypeOK, Cursors
      <4>. QED  BY <4>2, <4>4, <4>5, <4>6
    <3>5. NextCursor(call[c].cur) = 0 \/ \A p \in ServedOf(Now) \cup {<<Now, call[c].cur>>} : p[2] < NextCursor(call[c].cur)
      <4>1. \A p \in ServedOf(Now) : p[2] \in Int  BY <1>0 DEF ServedOf, ReadTypeOK, Cursors
      <4>2. <<Now, call[c].cur>>[2] = call[c].cur /\ call[c].cur \in Int  BY <1>4 DEF Cursors
      <4>. QED  BY <1>4, <3>4, <4>1, <4>2
    <3>6. Continues(row)'
      <4>1. ServedOf(Now)' # {}  BY <3>3
      <4>2. row'.next = 0 \/ \A p \in ServedOf(Now)' : p[2] < row'.next  BY <3>2, <3>3, <3>5
      <4>. QED  BY <3>2, <4>1, <4>2 DEF Continues
    <3>7. PendingIsRead'  BY <3>2 DEF PendingIsRead
    <3>. QED  BY <3>1, <3>6, <3>7
  <2>. QED  BY <2>1, <2>2
<1>. QED  BY <1>1, <1>8, <1>9 DEF ReadInv

\* FailRead: the row that the read replaced comes back, unless another read replaced it since.
LEMMA FailStep == ReadInv /\ (\E c \in Readers : FailRead(c)) => ReadInv'
<1>. SUFFICES ASSUME ReadInv, NEW c \in Readers, FailRead(c) PROVE ReadInv'
  OBVIOUS
<1>0. ReadTypeOK /\ NoPolling /\ CausesKnown /\ ReadsApart  BY DEF ReadInv
<1>1. ReadTypeOK'  BY <1>0, ReadTyped DEF ReadNext
<1>2. /\ Reads(c) /\ call' = [call EXCEPT ![c] = IdleCall] /\ UNCHANGED <<inputs, news, served, repeats, dead>>
      /\ Mine(c) => row' = call[c].prev
      /\ ~Mine(c) => row' = row
  BY DEF FailRead, Restored, Reads
<1>3. repeats' = {}  BY <1>0, <1>2 DEF NoPolling
<1>4. /\ Now \in Causes /\ call[c].cause \in Causes /\ UpTo(call[c].cause, Now)
      /\ call[c].prev # None => call[c].prev.cause \in Causes /\ UpTo(call[c].prev.cause, call[c].cause)
  <2>1. Now \in Causes
    <3>1. 0 \in 0 .. MaxInputs  BY ReadAssumption DEF ReadConstants
    <3>. QED  BY <1>0, <3>1, CauseOfInputs
  <2>2. call[c].prev # None => call[c].prev \in Rows  BY <1>0 DEF ReadTypeOK, CallRows
  <2>. QED  BY <1>0, <1>2, <2>1, <2>2 DEF CausesKnown, ReadTypeOK, Reads, Rows
<1>5. row' # None => UpTo(row'.cause, Now)
  <2>1. call[c].prev # None => UpTo(call[c].prev.cause, Now)  BY <1>4, CausesOrdered
  <2>. QED  BY <1>0, <1>2, <2>1 DEF CausesKnown
<1>6. ASSUME NEW d \in Readers, d # c, Reads(d), row' # None PROVE OwnRow(row', call[d])
  BY <1>0, <1>2, <1>6 DEF ReadsApart
<1>7. /\ NoPolling' /\ CausesKnown' /\ ReadsApart' /\ PagesUnread' /\ Now' = Now
      /\ \A d \in Readers : Reads(d)' => d # c /\ Reads(d) /\ call'[d] = call[d]
  BY <1>2, <1>3, <1>5, <1>6, EndApart
<1>8. ReadOfNow' /\ Continues(row)' /\ KeptForNow' /\ PendingIsRead'
  <2>1. CASE call[c].cause # Now
    <3>1. Mine(c) => row # None /\ row.cause = call[c].cause
      BY <1>0, <1>2 DEF Mine, ReadsApart, OwnRow
    <3>2. call[c].prev # None => call[c].prev.cause # Now  BY <1>4, <2>1, CausesOrdered
    <3>3. row' = row \/ (row # None /\ row.cause # Now /\ (row' # None => row'.cause # Now))
      BY <1>2, <2>1, <3>1, <3>2
    <3>. QED  BY <1>2, <1>7, <2>1, <3>3, EarlierEnds
  <2>2. CASE call[c].cause = Now
    <3>1. Mine(c) /\ ReadOfNow' /\ KeptForNow'  BY <1>2, <1>7, <2>2, LatestEnds
    <3>2. row' = call[c].prev  BY <1>2, <3>1
    <3>3. /\ Continues(call[c].prev)
          /\ call[c].prev # None /\ call[c].prev.cause = Now => ~call[c].prev.pending
      BY <1>2, <2>2 DEF ReadInv, KeptForNow
    <3>4. ServedOf(Now)' = ServedOf(Now)  BY <1>2, <1>7 DEF ServedOf
    <3>5. Continues(row)'  BY <1>7, <3>2, <3>3, <3>4 DEF Continues
    <3>6. PendingIsRead'  BY <1>7, <3>2, <3>3 DEF PendingIsRead
    <3>. QED  BY <3>1, <3>5, <3>6
  <2>. QED  BY <2>1, <2>2
<1>. QED  BY <1>1, <1>7, <1>8 DEF ReadInv

\* DieReading: the reservation stays pending for ever.
LEMMA DieStep == ReadInv /\ (\E c \in Readers : DieReading(c)) => ReadInv'
<1>. SUFFICES ASSUME ReadInv, NEW c \in Readers, DieReading(c) PROVE ReadInv'
  OBVIOUS
<1>0. ReadTypeOK /\ NoPolling /\ CausesKnown /\ ReadsApart /\ Continues(row)  BY DEF ReadInv
<1>1. ReadTypeOK'  BY <1>0, ReadTyped DEF ReadNext
<1>2. /\ Reads(c) /\ call' = [call EXCEPT ![c] = IdleCall] /\ UNCHANGED <<inputs, news, row, served, repeats>>
      /\ dead' = dead \cup {call[c].cause}
  BY DEF DieReading, Reads
<1>3. repeats' = {}  BY <1>0, <1>2 DEF NoPolling
<1>4. row' # None => UpTo(row'.cause, Now)  BY <1>0, <1>2 DEF CausesKnown
<1>5. \A d \in Readers : d # c /\ Reads(d) /\ row' # None => OwnRow(row', call[d])
  BY <1>0, <1>2 DEF ReadsApart
<1>6. /\ NoPolling' /\ CausesKnown' /\ ReadsApart' /\ PagesUnread' /\ Now' = Now
      /\ \A d \in Readers : Reads(d)' => d # c /\ Reads(d) /\ call'[d] = call[d]
  BY <1>2, <1>3, <1>4, <1>5, EndApart
<1>7. ReadOfNow' /\ Continues(row)' /\ KeptForNow' /\ PendingIsRead'
  <2>1. CASE call[c].cause # Now  BY <1>2, <1>6, <2>1, EarlierEnds
  <2>2. CASE call[c].cause = Now
    <3>1. ReadOfNow' /\ KeptForNow'  BY <1>2, <1>6, <2>2, LatestEnds
    <3>2. Continues(row)'  BY <1>0, <1>2, <1>6 DEF Continues, ServedOf
    <3>3. PendingIsRead'  BY <1>2, <1>6, <2>2 DEF PendingIsRead
    <3>. QED  BY <3>1, <3>2, <3>3
  <2>. QED  BY <2>1, <2>2
<1>. QED  BY <1>1, <1>6, <1>7 DEF ReadInv

\* NativeInput, Notified, ObserveInput and Refuse leave what was reserved and returned alone.
LEMMA QuietStep ==
    ReadInv /\ (NativeInput \/ Notified \/ (\E c \in Readers, cur \in Cursors : ObserveInput(c, cur))
                \/ (\E c \in Readers : Refuse(c)) \/ UNCHANGED reading) => ReadInv'
<1>. SUFFICES ASSUME ReadInv, NativeInput \/ Notified \/ (\E c \in Readers, cur \in Cursors : ObserveInput(c, cur))
                              \/ (\E c \in Readers : Refuse(c)) \/ UNCHANGED reading
              PROVE  ReadInv'
  OBVIOUS
<1>. USE ReadAssumption DEF ReadConstants
<1>0. ReadTypeOK  BY DEF ReadInv
<1>1. ReadTypeOK'  BY <1>0, ReadTyped DEF ReadNext
<1>2. 0 \in 0 .. MaxInputs /\ WithInput(0) = inputs  BY DEF WithInput
<1>3. Now \in Causes /\ UpTo(Now, Now)  BY <1>0, <1>2, CauseOfInputs, CausesOrdered
<1>4. ASSUME NativeInput \/ UNCHANGED reading PROVE ReadInv'
  <2>1. UNCHANGED <<row, call, served, repeats, dead>> /\ Now' = Now
    BY <1>4 DEF NativeInput, reading, Now, Cause
  <2>2. \A c \in Readers : (Reads(c)' <=> Reads(c)) /\ (Reads(c) => call'[c] = call[c])
    BY <2>1 DEF Reads
  <2>. QED  BY <1>1, <1>3, <2>1, <2>2, LaterStarts
<1>5. CASE Notified
  <2>1. UNCHANGED <<inputs, row, fresh, call, served, repeats, dead>>  BY <1>5 DEF Notified
  <2>2. /\ news.note \in 0 .. MaxNews /\ news.cmd \in 0 .. MaxNews
        /\ news' \in [note : 0 .. MaxNews, cmd : 0 .. MaxNews]
    BY <1>0, <1>1 DEF ReadTypeOK
  <2>3. news.note <= news'.note /\ news.cmd <= news'.cmd  BY <1>0, <1>5, <2>2 DEF Notified, ReadTypeOK
  <2>4. Now[1] \in Int /\ Now'[1] = Now[1]  BY <1>3, <2>1 DEF Causes, Now, Cause
  <2>5. Now[2] = news.note /\ Now[3] = news.cmd /\ Now'[2] = news'.note /\ Now'[3] = news'.cmd
    BY DEF Now, Cause
  <2>6. UpTo(Now, Now')  BY <2>3, <2>4, <2>5 DEF UpTo
  <2>7. Now' \in Causes
    <3>1. Cardinality(inputs) \in 0 .. MaxInputs  BY <1>3 DEF Now, Cause, Causes
    <3>. QED  BY <2>1, <2>2, <3>1 DEF Now, Cause, Causes
  <2>8. \A c \in Readers : (Reads(c)' <=> Reads(c)) /\ (Reads(c) => call'[c] = call[c])
    BY <2>1 DEF Reads
  <2>. QED  BY <1>1, <1>3, <2>1, <2>6, <2>7, <2>8, LaterStarts
<1>6. CASE (\E c \in Readers, cur \in Cursors : ObserveInput(c, cur)) \/ (\E c \in Readers : Refuse(c))
  <2>1. PICK c \in Readers : (\E cur \in Cursors : ObserveInput(c, cur)) \/ Refuse(c)  BY <1>6
  <2>2. /\ UNCHANGED <<inputs, news, row, served, repeats, dead>> /\ ~Reads(c)
        /\ \E x \in {"idle", "observed"}, y \in CallRows : y.st = x /\ call' = [call EXCEPT ![c] = y]
    <3>1. CASE Refuse(c)
      <4>1. IdleCall \in CallRows /\ IdleCall.st = "idle"  BY DEF IdleCall, CallRows, Cursors
      <4>. QED  BY <3>1, <4>1 DEF Refuse, Reads
    <3>2. ASSUME NEW cur \in Cursors, ObserveInput(c, cur)
          PROVE  /\ UNCHANGED <<inputs, news, row, served, repeats, dead>> /\ ~Reads(c)
                 /\ \E x \in {"idle", "observed"}, y \in CallRows : y.st = x /\ call' = [call EXCEPT ![c] = y]
      <4>1. PICK d \in {0, native} :
              call' = [call EXCEPT ![c] = [IdleCall EXCEPT !.st = "observed", !.digest = d, !.cur = cur]]
        BY <3>2 DEF ObserveInput
      <4>2. IdleCall \in CallRows /\ d \in 0 .. MaxInputs
        BY <1>0 DEF IdleCall, CallRows, Cursors, ReadTypeOK
      <4>3. /\ [IdleCall EXCEPT !.st = "observed", !.digest = d, !.cur = cur] \in CallRows
            /\ [IdleCall EXCEPT !.st = "observed", !.digest = d, !.cur = cur].st = "observed"
        BY <4>2 DEF CallRows
      <4>. QED  BY <3>2, <4>1, <4>3 DEF ObserveInput, Reads
    <3>. QED  BY <2>1, <3>1, <3>2
  <2>3. call \in [Readers -> CallRows]  BY <1>0 DEF ReadTypeOK
  <2>4. \A d \in Readers : (Reads(d)' <=> Reads(d)) /\ (Reads(d) => call'[d] = call[d])
    BY <2>2, <2>3 DEF Reads
  <2>5. Now' = Now  BY <2>2 DEF Now, Cause
  <2>. QED  BY <1>1, <1>3, <2>2, <2>4, <2>5, LaterStarts
<1>. QED  BY <1>4, <1>5, <1>6

-----------------------------------------------------------------------------
(* The theorems *)

\* Every step of the conversation and of its reads keeps the invariant.
LEMMA ReadInvKept == ReadInv /\ [ReadNext]_reading => ReadInv'
BY QuietStep, ReserveReadStep, FinishStep, FailStep, DieStep DEF ReadNext

\* state_read_admission.py: what is reserved, kept and returned agrees, however reads overlap.
THEOREM ReadsInvariant == ReadSpec => []ReadInv
<1>1. ReadInit => ReadInv  BY ReadInitInv
<1>2. ReadInv /\ [ReadNext]_reading => ReadInv'  BY ReadInvKept
<1>. QED  BY <1>1, <1>2, PTL DEF ReadSpec

\* Per cause every page is returned once, and a conversation that is refused a read has had it, is
\* having it, or lost it with its process: for any number of readers, inputs, notifications and pages.
THEOREM ReadOncePerCause == ReadSpec => []OneReadPerCause
<1>1. ASSUME ReadInv PROVE OneReadPerCause
  <2>1. ReadTypeOK /\ NoPolling /\ Continues(row) /\ PendingIsRead  BY <1>1 DEF ReadInv
  <2>2. ASSUME row # None, row.cause = Now
        PROVE  \/ \E cur \in Cursors : <<row.cause, cur>> \in served
               \/ \E c \in Readers : call[c].st = "reading" /\ call[c].cause = row.cause
               \/ row.cause \in dead
    <3>1. CASE row.pending  BY <2>1, <2>2, <3>1 DEF PendingIsRead, Reads
    <3>2. CASE ~row.pending
      <4>1. PICK p \in ServedOf(Now) : TRUE  BY <2>1, <2>2, <3>2 DEF Continues
      <4>2. p \in Causes \X Cursors /\ p \in served /\ p[1] = Now  BY <2>1 DEF ServedOf, ReadTypeOK
      <4>3. p = <<row.cause, p[2]>> /\ p[2] \in Cursors  BY <2>2, <4>2
      <4>. QED  BY <4>2, <4>3
    <3>. QED  BY <3>1, <3>2
  <2>3. RefusedOnlyAfterRead  BY <2>2 DEF RefusedOnlyAfterRead, Now
  <2>. QED  BY <2>1, <2>3 DEF OneReadPerCause
<1>. QED  BY <1>1, ReadsInvariant, PTL

-----------------------------------------------------------------------------
(* PushOutbox: the invariant.                                              *)

PushRows == [st : {"none", "queued", "leased"} \cup Settled, due : BOOLEAN, att : Nat]
PushJobs == [st : {"idle", "leased", "ok", "error"}, p : Pushes \cup {Nobody}, live : BOOLEAN]
Tallies == [granted : Nat, overran : Nat, died : Nat]

\* Rows, jobs and history keep their types; a job that is not idle has a row.
OutboxTypes ==
    /\ push \in [Pushes -> PushRows] /\ pushJob \in [Jobs -> PushJobs]
    /\ tally \in [Pushes -> Tallies]
    /\ \A j \in Jobs : IF pushJob[j].st = "idle" THEN ~pushJob[j].live ELSE pushJob[j].p \in Pushes

\* The next claim may take the row.
Takeable(p) == push[p].st = "queued" \/ (push[p].st = "leased" /\ ~HasLease(p))

\* A row that may be taken has a failure or a lost lease for every lease it had.
Budget(p) ==
    /\ Takeable(p) => tally[p].granted <= push[p].att + Lost(p)
    /\ tally[p].granted <= 1 + push[p].att + Lost(p)
    /\ tally[p].granted <= MaxAttempts + Lost(p)
    /\ push[p].st = "none" => tally[p].granted = 0
    /\ push[p].st \in {"queued", "leased"} => push[p].att < MaxAttempts
    /\ push[p].st = "dead" => push[p].att >= MaxAttempts

\* The job at work on push p, while none has outlived its lease on it.
At(j, p) == pushJob[j].st # "idle" /\ pushJob[j].p = p
Alone(p) ==
    tally[p].overran = 0 =>
      \A j \in Jobs : At(j, p) =>
        /\ pushJob[j].live /\ push[p].st \in {"leased", "gone"}
        /\ \A i \in Jobs : At(i, p) => i = j

OutboxInv == OutboxTypes /\ \A p \in Pushes : Budget(p) /\ Alone(p)

\* What a failed post makes of a row.
LEMMA FailedRow ==
    ASSUME NEW r \in PushRows
    PROVE  /\ Failed(r) \in PushRows /\ Failed(r).att = r.att + 1
           /\ Failed(r).st = IF r.att + 1 >= MaxAttempts THEN "dead" ELSE "queued"
<1>1. ASSUME NEW s \in {"dead", "queued"}
      PROVE  LET f == [r EXCEPT !.att = @ + 1, !.due = FALSE, !.st = s]
             IN  f \in PushRows /\ f.att = r.att + 1 /\ f.st = s
  <2>1. \A n \in Nat : LET f == [r EXCEPT !.att = n, !.due = FALSE, !.st = s]
                       IN  f \in PushRows /\ f.att = n /\ f.st = s
    BY DEF PushRows, Settled
  <2>2. r.att + 1 \in Nat  BY DEF PushRows
  <2>. QED  BY <2>1, <2>2, Zenon
<1>2. CASE r.att + 1 >= MaxAttempts
  <2>1. Failed(r) = [r EXCEPT !.att = @ + 1, !.due = FALSE, !.st = "dead"]  BY <1>2 DEF Failed
  <2>. QED  BY <1>1, <1>2, <2>1
<1>3. CASE ~(r.att + 1 >= MaxAttempts)
  <2>1. Failed(r) = [r EXCEPT !.att = @ + 1, !.due = FALSE, !.st = "queued"]  BY <1>3 DEF Failed
  <2>. QED  BY <1>1, <1>3, <2>1
<1>. QED  BY <1>2, <1>3

\* What one step does to a push it does not lease, fail or take a lease from.
LEMMA BudgetKept ==
    ASSUME NEW p \in Pushes, OutboxTypes, Budget(p),
           push'[p].att = push[p].att, tally'[p] = tally[p],
           push'[p].st \in {push[p].st, "delivered", "gone"},
           push'[p].st = "leased" /\ HasLease(p) => HasLease(p)'
    PROVE  Budget(p)'
BY DEF Budget, Takeable, Lost

\* The lease of one job on the push is lost: it ran out, or its job died.
LEMMA LeaseLost ==
    ASSUME NEW p \in Pushes, OutboxTypes, Budget(p), OutboxConstants,
           push' = push,
           \/ tally' = [tally EXCEPT ![p].overran = @ + 1]
           \/ tally' = [tally EXCEPT ![p].died = @ + 1]
    PROVE  /\ Budget(p)' /\ tally' \in [Pushes -> Tallies]
           /\ \A q \in Pushes : q # p => tally'[q] = tally[q]
           /\ tally'[p].overran >= tally[p].overran
<1>1. tally[p] \in Tallies /\ push[p].att \in Nat  BY DEF OutboxTypes, PushRows
<1>2. PICK t \in Tallies : /\ tally' = [tally EXCEPT ![p] = t]
                           /\ t.granted = tally[p].granted /\ t.overran >= tally[p].overran
                           /\ t.overran + t.died = tally[p].overran + tally[p].died + 1
  <2>1. CASE tally' = [tally EXCEPT ![p].overran = @ + 1]
    <3>1. PICK t : t = [tally[p] EXCEPT !.overran = tally[p].overran + 1]  OBVIOUS
    <3>2. tally' = [tally EXCEPT ![p] = t]  BY <2>1, <3>1
    <3>3. /\ tally[p].overran + 1 \in Nat
          /\ t \in Tallies /\ t.granted = tally[p].granted
          /\ t.overran = tally[p].overran + 1 /\ t.died = tally[p].died
      BY <1>1, <3>1 DEF Tallies
    <3>4. /\ t.overran >= tally[p].overran
          /\ t.overran + t.died = tally[p].overran + tally[p].died + 1
      BY <1>1, <3>3 DEF Tallies
    <3>. QED  BY <3>2, <3>3, <3>4
  <2>2. CASE tally' = [tally EXCEPT ![p].died = @ + 1]
    <3>1. PICK t : t = [tally[p] EXCEPT !.died = tally[p].died + 1]  OBVIOUS
    <3>2. tally' = [tally EXCEPT ![p] = t]  BY <2>2, <3>1
    <3>3. /\ tally[p].died + 1 \in Nat
          /\ t \in Tallies /\ t.granted = tally[p].granted
          /\ t.died = tally[p].died + 1 /\ t.overran = tally[p].overran
      BY <1>1, <3>1 DEF Tallies
    <3>4. /\ t.overran >= tally[p].overran
          /\ t.overran + t.died = tally[p].overran + tally[p].died + 1
      BY <1>1, <3>3 DEF Tallies
    <3>. QED  BY <3>2, <3>3, <3>4
  <2>. QED  BY <2>1, <2>2
<1>3. tally'[p] = t /\ \A q \in Pushes : q # p => tally'[q] = tally[q]
  BY <1>2 DEF OutboxTypes
<1>4. tally[p].granted \in Nat /\ Lost(p) \in Nat /\ Lost(p)' = Lost(p) + 1
  BY <1>1, <1>2, <1>3 DEF Lost, Tallies
<1>5. push'[p] = push[p] /\ MaxAttempts \in Nat /\ tally'[p].granted = tally[p].granted
  BY <1>2, <1>3 DEF OutboxConstants
<1>6. Budget(p)'
  BY <1>1, <1>4, <1>5 DEF Budget
<1>. QED  BY <1>2, <1>3, <1>6 DEF OutboxTypes

-----------------------------------------------------------------------------
(* PushOutbox: one lemma for each kind of step.                            *)

\* Configurations, events and the back-off.
LEMMA QueueStep ==
    ASSUME OutboxConstants, OutboxInv,
           \/ \E c \in Configs : CreateConfig(c) \/ DeleteConfig(c)
           \/ \E e \in Events : Event(e)
           \/ \E p \in Pushes : BackoffPasses(p)
    PROVE  OutboxInv'
<1>0. pushJob' = pushJob /\ tally' = tally
  BY DEF CreateConfig, DeleteConfig, Event, BackoffPasses
<1>1. \A p \in Pushes : HasLease(p)' <=> HasLease(p)  BY <1>0 DEF HasLease
<1>2. ASSUME NEW p \in Pushes
      PROVE  /\ push'[p] \in PushRows
             /\ \/ push'[p].att = push[p].att /\ push'[p].st \in {push[p].st, "gone"}
                \/ push[p].st = "none" /\ push'[p].st = "queued" /\ push'[p].att = 0
  <2>0. push[p] \in PushRows  BY DEF OutboxInv, OutboxTypes
  <2>1. CASE \E c \in Configs : CreateConfig(c) \/ DeleteConfig(c)
    <3>1. [push[p] EXCEPT !.st = "gone"] \in PushRows  BY <2>0 DEF PushRows, Settled
    <3>. QED  BY <2>0, <2>1, <3>1 DEF CreateConfig, DeleteConfig, PushRows
  <2>2. CASE \E e \in Events : Event(e)
    <3>1. PICK e \in Events : Event(e)  BY <2>2
    <3>2. [st |-> "queued", due |-> TRUE, att |-> 0] \in PushRows  BY DEF PushRows
    <3>3. CASE p[2] = e
      <4>1. p = <<p[1], e>> /\ p[1] \in Configs  BY <3>3 DEF Pushes
      <4>2. push[<<p[1], e>>].st = "none"  BY <3>1, <4>1 DEF Event
      <4>. QED  BY <2>0, <3>1, <3>2, <4>1, <4>2 DEF Event
    <3>4. CASE p[2] # e  BY <2>0, <3>1, <3>4 DEF Event
    <3>. QED  BY <3>3, <3>4
  <2>3. CASE \E q \in Pushes : BackoffPasses(q)
    <3>1. PICK q \in Pushes : push' = [push EXCEPT ![q].due = TRUE]  BY <2>3 DEF BackoffPasses
    <3>2. [push[p] EXCEPT !.due = TRUE] \in PushRows  BY <2>0 DEF PushRows
    <3>3. push'[p] = IF p = q THEN [push[p] EXCEPT !.due = TRUE] ELSE push[p]
      BY <3>1 DEF OutboxInv, OutboxTypes
    <3>. QED  BY <2>0, <3>2, <3>3 DEF PushRows
  <2>. QED  BY <2>1, <2>2, <2>3
<1>3. OutboxTypes'
  <2>1. push' = [p \in Pushes |-> push'[p]]
    BY DEF CreateConfig, DeleteConfig, Event, BackoffPasses, OutboxInv, OutboxTypes
  <2>. QED  BY <1>0, <1>2, <2>1 DEF OutboxInv, OutboxTypes
<1>4. ASSUME NEW p \in Pushes PROVE Budget(p)' /\ Alone(p)'
  <2>0. Budget(p) /\ Alone(p) /\ tally'[p] = tally[p]  BY <1>0 DEF OutboxInv
  <2>1. CASE push'[p].att = push[p].att /\ push'[p].st \in {push[p].st, "gone"}
    <3>1. Budget(p)'  BY <2>0, <2>1, <1>1, BudgetKept DEF OutboxInv
    <3>2. Alone(p)'  BY <2>0, <2>1, <1>0 DEF Alone, At
    <3>. QED  BY <3>1, <3>2
  <2>2. CASE push[p].st = "none" /\ push'[p].st = "queued" /\ push'[p].att = 0
    <3>1. tally[p].granted = 0 /\ Lost(p) \in Nat /\ Lost(p)' = Lost(p) /\ MaxAttempts \in Nat \ {0}
      BY <2>0, <2>2 DEF Budget, Lost, OutboxInv, OutboxTypes, Tallies, OutboxConstants
    <3>2. Budget(p)'  BY <2>0, <2>2, <3>1 DEF Budget
    <3>3. Alone(p)'
      <4>1. tally[p].overran = 0 => \A j \in Jobs : ~At(j, p)  BY <2>0, <2>2 DEF Alone
      <4>. QED  BY <4>1, <1>0 DEF Alone, At
    <3>. QED  BY <3>2, <3>3
  <2>. QED  BY <1>2, <2>1, <2>2
<1>. QED  BY <1>3, <1>4 DEF OutboxInv

\* A job that ends is idle again; the other jobs stay as they are.
LEMMA JobEnds ==
    ASSUME OutboxInv, NEW j \in Jobs, pushJob' = [pushJob EXCEPT ![j] = Idle]
    PROVE  /\ pushJob' \in [Jobs -> PushJobs]
           /\ \A i \in Jobs : IF pushJob'[i].st = "idle" THEN ~pushJob'[i].live ELSE pushJob'[i].p \in Pushes
           /\ \A i \in Jobs, p \in Pushes : At(i, p)' <=> At(i, p) /\ i # j
           /\ \A i \in Jobs : i # j => pushJob'[i] = pushJob[i]
           /\ \A p \in Pushes : p # pushJob[j].p => (HasLease(p)' <=> HasLease(p))
           /\ ~pushJob[j].live => \A p \in Pushes : (HasLease(p)' <=> HasLease(p))
<1>1. Idle \in PushJobs /\ Idle.st = "idle" /\ ~Idle.live  BY DEF Idle, PushJobs
<1>2. pushJob' \in [Jobs -> PushJobs] /\ pushJob'[j] = Idle
      /\ \A i \in Jobs : i # j => pushJob'[i] = pushJob[i]
  BY <1>1 DEF OutboxInv, OutboxTypes
<1>3. \A i \in Jobs, p \in Pushes : At(i, p)' <=> At(i, p) /\ i # j
  BY <1>1, <1>2 DEF At
<1>4. \A p \in Pushes : HasLease(p)' <=> \E i \in Jobs : i # j /\ pushJob[i].p = p /\ pushJob[i].live
  BY <1>1, <1>2 DEF HasLease
<1>. QED  BY <1>1, <1>2, <1>3, <1>4 DEF HasLease, OutboxInv, OutboxTypes

\* The job of a push that is gone, or dies, ends without a result.
LEMMA EndStep ==
    ASSUME OutboxConstants, OutboxInv, NEW j \in Jobs, Vanished(j) \/ Crash(j)
    PROVE  OutboxInv'
<1>0. pushJob' = [pushJob EXCEPT ![j] = Idle] /\ push' = push  BY DEF Vanished, Crash
<1>1. ASSUME NEW p \in Pushes, Alone(p), tally'[p].overran = tally[p].overran PROVE Alone(p)'
  <2>1. \A i \in Jobs : At(i, p)' => At(i, p) /\ pushJob'[i] = pushJob[i]  BY <1>0, JobEnds
  <2>. QED  BY <1>0, <1>1, <2>1 DEF Alone
<1>2. CASE tally' = tally /\ \A p \in Pushes : push[p].st = "leased" /\ HasLease(p) => HasLease(p)'
  <2>1. OutboxTypes'  BY <1>0, <1>2, JobEnds DEF OutboxInv, OutboxTypes
  <2>2. \A p \in Pushes : Budget(p)'  BY <1>0, <1>2, BudgetKept DEF OutboxInv
  <2>. QED  BY <2>1, <2>2, <1>1, <1>2 DEF OutboxInv
<1>3. CASE Vanished(j)
  <2>1. \A p \in Pushes : push[p].st = "leased" => p # pushJob[j].p  BY <1>3 DEF Vanished
  <2>. QED  BY <1>0, <1>2, <1>3, <2>1, JobEnds DEF Vanished
<1>4. CASE Crash(j) /\ ~pushJob[j].live
  BY <1>0, <1>2, <1>4, JobEnds DEF Crash
<1>5. CASE Crash(j) /\ pushJob[j].live
  <2>1. PICK p \in Pushes : p = pushJob[j].p  BY <1>5 DEF OutboxInv, OutboxTypes
  <2>2. tally' = [tally EXCEPT ![p].died = @ + 1]  BY <1>5, <2>1 DEF Crash
  <2>3. /\ Budget(p)' /\ tally' \in [Pushes -> Tallies]
        /\ \A q \in Pushes : q # p => tally'[q] = tally[q]
    BY <1>0, <2>1, <2>2, LeaseLost DEF OutboxInv
  <2>4. \A q \in Pushes : tally'[q].overran = tally[q].overran
    BY <2>2, <2>1 DEF OutboxInv, OutboxTypes, Tallies
  <2>5. OutboxTypes'  BY <1>0, <2>3, JobEnds DEF OutboxInv, OutboxTypes
  <2>6. \A q \in Pushes : q # p => Budget(q)'
    BY <1>0, <2>1, <2>3, BudgetKept, JobEnds DEF OutboxInv
  <2>. QED  BY <2>3, <2>4, <2>5, <2>6, <1>1 DEF OutboxInv
<1>. QED  BY <1>3, <1>4, <1>5

\* The callback is posted, or the lease runs out under the job.
LEMMA PostStep ==
    ASSUME OutboxConstants, OutboxInv, NEW j \in Jobs, Post(j) \/ LeaseOverrun(j)
    PROVE  OutboxInv'
<1>0. PICK q \in Pushes : q = pushJob[j].p /\ push' = push /\ pushJob[j].st # "idle"
  BY DEF Post, LeaseOverrun, OutboxInv, OutboxTypes
<1>1. CASE Post(j)
  <2>1. PICK r \in {"ok", "error"} : pushJob' = [pushJob EXCEPT ![j].st = r] /\ tally' = tally
    BY <1>1 DEF Post
  <2>2. /\ pushJob' \in [Jobs -> PushJobs]
        /\ \A i \in Jobs : /\ pushJob'[i].p = pushJob[i].p /\ pushJob'[i].live = pushJob[i].live
                           /\ (pushJob'[i].st = "idle" <=> pushJob[i].st = "idle")
    <3>1. pushJob' \in [Jobs -> PushJobs]  BY <2>1 DEF OutboxInv, OutboxTypes, PushJobs
    <3>2. /\ pushJob'[j].st = r /\ pushJob'[j].p = pushJob[j].p /\ pushJob'[j].live = pushJob[j].live
          /\ \A i \in Jobs : i # j => pushJob'[i] = pushJob[i]
      BY <2>1 DEF OutboxInv, OutboxTypes, PushJobs
    <3>. QED  BY <1>0, <3>1, <3>2
  <2>3. \A p \in Pushes : (HasLease(p)' <=> HasLease(p)) /\ \A i \in Jobs : At(i, p)' <=> At(i, p)
    BY <2>2 DEF HasLease, At
  <2>4. \A p \in Pushes : Budget(p)'  BY <1>0, <2>1, <2>3, BudgetKept DEF OutboxInv
  <2>5. \A p \in Pushes : Alone(p)'  BY <1>0, <2>1, <2>2, <2>3 DEF OutboxInv, Alone
  <2>6. OutboxTypes'  BY <1>0, <2>1, <2>2 DEF OutboxInv, OutboxTypes
  <2>. QED  BY <2>4, <2>5, <2>6 DEF OutboxInv
<1>2. CASE LeaseOverrun(j)
  <2>1. pushJob' = [pushJob EXCEPT ![j].live = FALSE]
        /\ tally' = [tally EXCEPT ![q].overran = @ + 1]
    BY <1>0, <1>2 DEF LeaseOverrun
  <2>2. /\ Budget(q)' /\ tally' \in [Pushes -> Tallies]
        /\ \A p \in Pushes : p # q => tally'[p] = tally[p]
    BY <1>0, <2>1, LeaseLost DEF OutboxInv
  <2>3. tally'[q].overran # 0
    BY <1>0, <2>1 DEF OutboxInv, OutboxTypes, Tallies
  <2>4. /\ pushJob' \in [Jobs -> PushJobs]
        /\ pushJob'[j].st = pushJob[j].st /\ pushJob'[j].p = pushJob[j].p
        /\ \A i \in Jobs : i # j => pushJob'[i] = pushJob[i]
    BY <2>1 DEF OutboxInv, OutboxTypes, PushJobs
  <2>5. ASSUME NEW p \in Pushes, p # q
        PROVE  /\ HasLease(p)' <=> HasLease(p)
               /\ \A i \in Jobs : /\ At(i, p)' <=> At(i, p)
                                  /\ At(i, p) => pushJob'[i] = pushJob[i]
    BY <1>0, <2>4, <2>5 DEF HasLease, At
  <2>6. \A p \in Pushes : p # q => Budget(p)' /\ Alone(p)'
    <3>1. ASSUME NEW p \in Pushes, p # q PROVE Budget(p)' /\ Alone(p)'
      <4>1. Budget(p)'  BY <1>0, <2>2, <2>5, <3>1, BudgetKept DEF OutboxInv
      <4>2. Alone(p)'  BY <1>0, <2>2, <2>5, <3>1 DEF OutboxInv, Alone
      <4>. QED  BY <4>1, <4>2
    <3>. QED  BY <3>1
  <2>7. Alone(q)'  BY <2>3, <2>4 DEF Alone
  <2>8. OutboxTypes'  BY <1>0, <2>2, <2>4 DEF OutboxInv, OutboxTypes
  <2>9. ASSUME NEW p \in Pushes PROVE Budget(p)' /\ Alone(p)'
    BY <2>2, <2>6, <2>7
  <2>. QED  BY <2>8, <2>9 DEF OutboxInv
<1>. QED  BY <1>1, <1>2

\* A result is written, by whatever job, over whatever the row has become.
LEMMA ResultStep ==
    ASSUME OutboxConstants, OutboxInv, NEW j \in Jobs, Delivered(j) \/ FinishPush(j)
    PROVE  OutboxInv'
<1>0. PICK q \in Pushes :
      /\ q = pushJob[j].p /\ pushJob[j].st # "idle" /\ push[q] \in PushRows
      /\ pushJob' = [pushJob EXCEPT ![j] = Idle] /\ tally' = tally
  BY DEF Delivered, FinishPush, OutboxInv, OutboxTypes
<1>1. PICK r \in PushRows :
        /\ push' = [push EXCEPT ![q] = r]
        /\ \/ r.att = push[q].att /\ r.st \in {"delivered", "gone"}
           \/ /\ r.att = push[q].att + 1
              /\ r.st = IF r.att >= MaxAttempts THEN "dead" ELSE "queued"
  <2>1. CASE Delivered(j)
    <3>1. push' = [push EXCEPT ![q] = [push[q] EXCEPT !.st = IF @ = "gone" THEN @ ELSE "delivered"]]
      BY <1>0, <2>1 DEF Delivered
    <3>2. /\ [push[q] EXCEPT !.st = IF @ = "gone" THEN @ ELSE "delivered"] \in PushRows
          /\ [push[q] EXCEPT !.st = IF @ = "gone" THEN @ ELSE "delivered"].att = push[q].att
          /\ [push[q] EXCEPT !.st = IF @ = "gone" THEN @ ELSE "delivered"].st \in {"delivered", "gone"}
      BY <1>0 DEF PushRows, Settled
    <3>. QED  BY <3>1, <3>2
  <2>2. CASE FinishPush(j)
    <3>1. push' = [push EXCEPT ![q] = IF push[q].st = "gone" THEN push[q] ELSE Failed(push[q])]
      BY <1>0, <2>2 DEF FinishPush
    <3>. QED  BY <1>0, <3>1, FailedRow
  <2>. QED  BY <2>1, <2>2
<1>2. push' \in [Pushes -> PushRows] /\ push'[q] = r /\ \A p \in Pushes : p # q => push'[p] = push[p]
  BY <1>0, <1>1 DEF OutboxInv, OutboxTypes
<1>3. OutboxTypes'  BY <1>0, <1>2, JobEnds DEF OutboxInv, OutboxTypes
<1>4. ASSUME NEW p \in Pushes, p # q PROVE Budget(p)' /\ Alone(p)'
  <2>1. Budget(p)'  BY <1>0, <1>2, <1>4, BudgetKept, JobEnds DEF OutboxInv
  <2>2. \A i \in Jobs : (At(i, p)' <=> At(i, p)) /\ (At(i, p) => pushJob'[i] = pushJob[i])
    BY <1>0, <1>4, JobEnds DEF At
  <2>3. Alone(p)'  BY <1>0, <1>2, <1>4, <2>2 DEF OutboxInv, Alone
  <2>. QED  BY <2>1, <2>3
<1>5. Budget(q)'
  <2>1. Budget(q)  BY <1>0 DEF OutboxInv
  <2>2. CASE r.att = push[q].att /\ r.st \in {"delivered", "gone"}
    BY <1>0, <1>2, <2>1, <2>2, BudgetKept DEF OutboxInv
  <2>3. CASE /\ r.att = push[q].att + 1
             /\ r.st = IF r.att >= MaxAttempts THEN "dead" ELSE "queued"
    <3>1. /\ push[q].att \in Nat /\ tally[q].granted \in Nat /\ Lost(q) \in Nat /\ Lost(q)' = Lost(q)
          /\ MaxAttempts \in Nat /\ tally'[q] = tally[q]
      BY <1>0 DEF PushRows, OutboxInv, OutboxTypes, Tallies, Lost, OutboxConstants
    <3>2. tally[q].granted <= 1 + push[q].att + Lost(q) /\ tally[q].granted <= MaxAttempts + Lost(q)
      BY <2>1 DEF Budget
    <3>. QED  BY <1>2, <2>3, <3>1, <3>2 DEF Budget
  <2>. QED  BY <1>1, <2>2, <2>3
<1>6. Alone(q)'
  <2>1. Alone(q) /\ At(j, q)  BY <1>0 DEF OutboxInv, At
  <2>2. \A i \in Jobs : At(i, q)' => At(i, q) /\ i # j  BY <1>0, JobEnds
  <2>. QED  BY <1>0, <2>1, <2>2 DEF Alone
<1>7. ASSUME NEW p \in Pushes PROVE Budget(p)' /\ Alone(p)'
  BY <1>4, <1>5, <1>6
<1>. QED  BY <1>3, <1>7 DEF OutboxInv

\* Expired leases go back to the queue, and one row is leased.
LEMMA ClaimStep ==
    ASSUME OutboxConstants, OutboxInv, NEW j \in Jobs, NEW p \in Pushes, Claim(j, p)
    PROVE  OutboxInv'
<1>0. push \in [Pushes -> PushRows] /\ pushJob \in [Jobs -> PushJobs] /\ tally \in [Pushes -> Tallies]
  BY DEF OutboxInv, OutboxTypes
<1>1. /\ pushJob[j].st = "idle" /\ ~pushJob[j].live
      /\ pushJob' \in [Jobs -> PushJobs]
      /\ pushJob'[j] = [st |-> "leased", p |-> p, live |-> TRUE]
      /\ \A i \in Jobs : i # j => pushJob'[i] = pushJob[i]
  <2>1. [st |-> "leased", p |-> p, live |-> TRUE] \in PushJobs  BY DEF PushJobs
  <2>. QED  BY <1>0, <2>1 DEF Claim, Idle
<1>2. ASSUME NEW q \in Pushes
      PROVE  /\ Requeued[q] \in PushRows /\ Requeued[q].att = push[q].att
             /\ Requeued[q].st = IF push[q].st = "leased" /\ ~HasLease(q) THEN "queued" ELSE push[q].st
  BY <1>0 DEF Requeued, PushRows
<1>3. ASSUME NEW q \in Pushes
      PROVE  /\ push'[q] \in PushRows /\ push'[q].att = push[q].att
             /\ push'[q].st = IF q = p THEN "leased" ELSE Requeued[q].st
  <2>1. push' = [Requeued EXCEPT ![p].st = "leased"]  BY DEF Claim
  <2>2. push'[q] = IF q = p THEN [Requeued[q] EXCEPT !.st = "leased"] ELSE Requeued[q]
    BY <2>1 DEF Requeued
  <2>. QED  BY <1>2, <2>2 DEF PushRows
<1>4. Takeable(p)  BY <1>2 DEF Claim, Takeable
<1>5. /\ tally' \in [Pushes -> Tallies] /\ tally'[p].granted = tally[p].granted + 1
      /\ tally'[p].overran = tally[p].overran /\ tally'[p].died = tally[p].died
      /\ \A q \in Pushes : q # p => tally'[q] = tally[q]
  <2>1. tally' = [tally EXCEPT ![p] = [tally[p] EXCEPT !.granted = tally[p].granted + 1]]  BY DEF Claim
  <2>2. tally[p] \in Tallies /\ tally[p].granted + 1 \in Nat  BY <1>0 DEF Tallies
  <2>3. \A n \in Nat : [tally[p] EXCEPT !.granted = n] \in Tallies  BY <2>2 DEF Tallies
  <2>4. [tally[p] EXCEPT !.granted = tally[p].granted + 1] \in Tallies  BY <2>2, <2>3
  <2>5. tally' \in [Pushes -> Tallies]  BY <1>0, <2>1, <2>4
  <2>6. tally'[p] = [tally[p] EXCEPT !.granted = tally[p].granted + 1]
        /\ \A q \in Pushes : q # p => tally'[q] = tally[q]
    BY <1>0, <2>1
  <2>. QED  BY <2>2, <2>5, <2>6 DEF Tallies
<1>6. OutboxTypes'
  <2>1. push' = [q \in Pushes |-> push'[q]]  BY DEF Claim, Requeued
  <2>. QED  BY <1>1, <1>3, <1>5, <2>1 DEF OutboxInv, OutboxTypes
<1>7. Budget(p)'
  <2>1. HasLease(p)'  BY <1>1 DEF HasLease
  <2>2. /\ push[p].att \in Nat /\ tally[p].granted \in Nat /\ Lost(p) \in Nat /\ Lost(p)' = Lost(p)
        /\ MaxAttempts \in Nat
    BY <1>0, <1>5 DEF PushRows, Tallies, Lost, OutboxConstants
  <2>3. tally[p].granted <= push[p].att + Lost(p) /\ push[p].att < MaxAttempts
    BY <1>4 DEF OutboxInv, Budget, Takeable
  <2>4. push'[p].st = "leased" /\ push'[p].att = push[p].att  BY <1>3
  <2>. QED  BY <1>5, <2>1, <2>2, <2>3, <2>4 DEF Budget, Takeable
<1>8. ASSUME NEW q \in Pushes, q # p PROVE Budget(q)'
  <2>1. HasLease(q) <=> HasLease(q)'  BY <1>1, <1>8 DEF HasLease
  <2>2. Takeable(q)' <=> Takeable(q)  BY <1>2, <1>3, <1>8, <2>1 DEF Takeable
  <2>3. /\ push'[q].att = push[q].att /\ tally'[q] = tally[q] /\ Lost(q)' = Lost(q)
        /\ push'[q].st \in {"queued", "leased"} <=> push[q].st \in {"queued", "leased"}
        /\ push'[q].st \in {"none", "dead"} => push'[q].st = push[q].st
    BY <1>2, <1>3, <1>5, <1>8 DEF Lost
  <2>. QED  BY <2>2, <2>3 DEF OutboxInv, Budget
<1>9. ASSUME NEW q \in Pushes PROVE Alone(q)'
  <2>1. CASE q # p
    <3>1. \A i \in Jobs : (At(i, q)' <=> At(i, q)) /\ (At(i, q) => pushJob'[i] = pushJob[i])
      BY <1>1, <2>1 DEF At
    <3>2. ASSUME NEW i \in Jobs, At(i, q), pushJob[i].live PROVE push'[q].st = push[q].st
      <4>1. HasLease(q)  BY <3>2 DEF HasLease, At
      <4>. QED  BY <1>2, <1>3, <2>1, <4>1
    <3>. QED  BY <1>5, <2>1, <3>1, <3>2 DEF OutboxInv, Alone
  <2>2. CASE q = p
    <3>1. ASSUME NEW i \in Jobs, At(i, p), tally[p].overran = 0 PROVE FALSE
      <4>1. pushJob[i].live /\ push[p].st \in {"leased", "gone"}  BY <3>1 DEF OutboxInv, Alone
      <4>2. HasLease(p)  BY <3>1, <4>1 DEF HasLease, At
      <4>. QED  BY <1>4, <4>1, <4>2 DEF Takeable
    <3>2. \A i \in Jobs : At(i, p)' => At(i, p) \/ i = j  BY <1>1 DEF At
    <3>3. pushJob'[j].live /\ push'[p].st = "leased"  BY <1>1, <1>3
    <3>. QED  BY <1>5, <2>2, <3>1, <3>2, <3>3 DEF Alone
  <2>. QED  BY <2>1, <2>2
<1>. QED  BY <1>6, <1>7, <1>8, <1>9 DEF OutboxInv

\* Every step.
LEMMA OutboxStep == ASSUME OutboxConstants, OutboxInv, [PushNext]_outbox PROVE OutboxInv'
<1>1. CASE UNCHANGED outbox
  BY <1>1 DEF outbox, OutboxInv, OutboxTypes, Budget, Alone, Takeable, Lost, HasLease, At
<1>2. CASE PushNext
  BY <1>2, QueueStep, EndStep, PostStep, ResultStep, ClaimStep DEF PushNext, JobStep
<1>. QED  BY <1>1, <1>2

\* Nothing is in the outbox.
LEMMA OutboxStart == ASSUME OutboxConstants PROVE PushInit => OutboxInv
<1> SUFFICES ASSUME PushInit PROVE OutboxInv  OBVIOUS
<1>1. Idle \in PushJobs /\ Idle.st = "idle" /\ ~Idle.live  BY DEF Idle, PushJobs
<1>2. [st |-> "none", due |-> FALSE, att |-> 0] \in PushRows  BY DEF PushRows
<1>3. [granted |-> 0, overran |-> 0, died |-> 0] \in Tallies  BY DEF Tallies
<1>4. OutboxTypes  BY <1>1, <1>2, <1>3 DEF PushInit, OutboxTypes
<1>5. \A p \in Pushes : Budget(p) /\ Alone(p)
  BY <1>1 DEF PushInit, Budget, Alone, At, Takeable, Lost, OutboxConstants
<1>. QED  BY <1>4, <1>5 DEF OutboxInv

\* Whatever a job that outlived its lease writes over a row, a push is leased again only for a
\* failure that was counted or a lease that was lost, and at most max_dispatch_attempts times
\* beside the lost leases (_claim_push, _process_push, _finish_push).
THEOREM EveryPostAccounted == ASSUME OutboxConstants PROVE PushSpec => []PostsAccounted
<1>1. OutboxInv /\ [PushNext]_outbox => OutboxInv'  BY OutboxStep
<1>2. PushInit => OutboxInv  BY OutboxStart
<1>3. OutboxInv => PostsAccounted  BY DEF OutboxInv, Budget, PostsAccounted
<1>. QED  BY <1>1, <1>2, <1>3, PTL DEF PushSpec

\* A push that was given up stays given up, and a delivered one is queued again only beside a
\* job that outlived its lease, by a failure that is counted and leaves an attempt
\* (_finish_push writes without the lease).
THEOREM GivenUpStaysGivenUp == ASSUME OutboxConstants PROVE PushSpec => [][SettledIsFinal]_outbox
<1>1. OutboxInv /\ [PushNext]_outbox => OutboxInv'  BY OutboxStep
<1>2. PushInit => OutboxInv  BY OutboxStart
<1>3. OutboxInv /\ [PushNext]_outbox => [SettledIsFinal]_outbox
  <2> SUFFICES ASSUME OutboxInv, PushNext, NEW p \in Pushes, push[p].st \in Settled, push'[p].st \notin Settled
               PROVE  /\ push[p].st = "delivered" /\ push'[p].st = "queued"
                      /\ tally[p].overran > 0
                      /\ push'[p].att = push[p].att + 1 /\ push'[p].att < MaxAttempts
    BY DEF SettledIsFinal
  <2>0. push \in [Pushes -> PushRows] /\ push[p] \in PushRows /\ MaxAttempts \in Nat
    BY DEF OutboxInv, OutboxTypes, OutboxConstants
  <2>1. ~\E c \in Configs : CreateConfig(c) \/ DeleteConfig(c)
    BY <2>0 DEF CreateConfig, DeleteConfig, PushRows, Settled
  <2>2. ~\E e \in Events : Event(e)
    <3> SUFFICES ASSUME NEW e \in Events, Event(e) PROVE FALSE  OBVIOUS
    <3>1. CASE p[2] = e
      <4>1. p = <<p[1], e>> /\ p[1] \in Configs  BY <3>1 DEF Pushes
      <4>2. push[<<p[1], e>>].st = "none"  BY <4>1 DEF Event
      <4>. QED  BY <4>1, <4>2 DEF Settled
    <3>2. CASE p[2] # e  BY <3>2 DEF Event
    <3>. QED  BY <3>1, <3>2
  <2>3. ~\E q \in Pushes : BackoffPasses(q)  BY <2>0 DEF BackoffPasses, Settled
  <2>4. ~\E j \in Jobs : Post(j) \/ Vanished(j) \/ LeaseOverrun(j) \/ Crash(j)
    BY DEF Post, Vanished, LeaseOverrun, Crash
  <2>5. ~\E j \in Jobs, q \in Pushes : Claim(j, q)
    <3> SUFFICES ASSUME NEW j \in Jobs, NEW q \in Pushes, Claim(j, q) PROVE FALSE  OBVIOUS
    <3>1. Requeued[p] = push[p]  BY DEF Requeued, Settled
    <3>2. q # p  BY <3>1 DEF Claim, Settled
    <3>. QED  BY <3>1, <3>2 DEF Claim, Requeued
  <2>6. PICK j \in Jobs : Delivered(j) \/ FinishPush(j)
    BY <2>1, <2>2, <2>3, <2>4, <2>5 DEF PushNext, JobStep
  <2>7. pushJob[j].p \in Pushes /\ pushJob[j].st # "idle"
    BY <2>6 DEF Delivered, FinishPush, OutboxInv, OutboxTypes
  <2>8. p = pushJob[j].p  BY <2>0, <2>6, <2>7 DEF Delivered, FinishPush
  <2>9. FinishPush(j) /\ push[p].st # "gone"
    BY <2>0, <2>6, <2>8 DEF Delivered, FinishPush, PushRows, Settled
  <2>10. push'[p] = Failed(push[p])  BY <2>0, <2>8, <2>9 DEF FinishPush
  <2>11. /\ push'[p].att = push[p].att + 1
         /\ push'[p].st = IF push[p].att + 1 >= MaxAttempts THEN "dead" ELSE "queued"
    BY <2>0, <2>10, FailedRow
  <2>12. push'[p].st = "queued" /\ push[p].att + 1 < MaxAttempts
    BY <2>0, <2>11 DEF Settled, PushRows
  <2>13. push[p].st = "delivered"
    <3>1. push[p].st = "dead" => push[p].att >= MaxAttempts  BY DEF OutboxInv, Budget
    <3>. QED  BY <2>0, <2>9, <2>12, <3>1 DEF PushRows, Settled
  <2>14. tally[p].overran > 0
    <3>1. At(j, p)  BY <2>7, <2>8 DEF At
    <3>2. tally[p].overran # 0  BY <2>13, <3>1 DEF OutboxInv, Alone
    <3>. QED  BY <3>2 DEF OutboxInv, OutboxTypes, Tallies
  <2>. QED  BY <2>11, <2>12, <2>13, <2>14
<1>. QED  BY <1>1, <1>2, <1>3, PTL DEF PushSpec
=============================================================================
