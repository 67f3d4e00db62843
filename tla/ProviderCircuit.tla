-------------------------- MODULE ProviderCircuit --------------------------
(* The provider rate-limit circuit of one scope (a Claude model) in          *)
(* service.py: a typed 429 Boundary opens it, one later Assignment may probe *)
(* it, the probe's progress closes it, and a probe whose outcome is unknown  *)
(* blocks it.  The Dispatcher (runtime.py) reads the circuit before launch   *)
(* and claims the probe in the transaction that reserves the delivery.       *)
(*                                                                           *)
(* Sequence numbers are those of the global event log.  A Boundary is named  *)
(* by the sequence of its boundary.recorded event; 0 stands for none.        *)
EXTENDS Naturals, FiniteSets

CONSTANTS
    Workers,         \* managed Workers with a spec in this provider scope
    Attachments,     \* CAO conversations that own them
    AttachmentOf,    \* the conversation each Worker's spec belongs to
    MaxMsgs,         \* bound: Assignments ever created
    MaxSeq,          \* bound: events ever recorded
    MaxEpoch,        \* bound: runtime epochs of a Worker
    MaxCloses        \* bound: closes of a conversation

VARIABLES
    circuit,   \* provider_runtime_circuits row
    msgs,      \* Assignment messages with their delivery, by number
    used,      \* Assignments created so far
    rts,       \* each Worker's current runtime session
    atts,      \* cao_session_attachments rows
    seq,       \* last event sequence
    bounds,    \* 429 Boundaries recorded: [seq, w, ep]
    handed     \* history: Assignments given to the provider in this epoch of the circuit

vars == <<circuit, msgs, used, rts, atts, seq, bounds, handed>>

\* What the constants may be.
CircuitAssumption ==
    /\ Workers # {} /\ AttachmentOf \in [Workers -> Attachments]
    /\ MaxMsgs \in Nat /\ MaxSeq \in Nat /\ MaxEpoch \in Nat /\ MaxCloses \in Nat

Msgs == 1 .. MaxMsgs
Closed == [state |-> "closed", src |-> 0, srcW |-> CHOOSE w \in Workers : TRUE,
           srcEp |-> 0, probe |-> 0, pseq |-> 0, outcome |-> "none"]
NoMsg == [st |-> "none", w |-> CHOOSE w \in Workers : TRUE, ep |-> 0, seq |-> 0, mark |-> 0,
          unknown |-> FALSE]

Init ==
    /\ circuit = Closed
    /\ msgs = [m \in Msgs |-> NoMsg] /\ used = 0
    /\ rts = [w \in Workers |-> [ep |-> 1, state |-> "ready"]]
    /\ atts = [a \in Attachments |-> [state |-> "active", closeSeq |-> 0, closes |-> 0]]
    /\ seq = 0 /\ bounds = {} /\ handed = {}

DeliveryStates == {"none", "queued", "leased", "dispatched", "delivered", "acknowledged",
                   "handled", "dead"}
RuntimeStates == {"ready", "busy", "waiting", "failed", "missing"}
Gone == {"failed", "missing"}

Circuits == [state : {"closed", "open", "half_open", "blocked"}, src : 0 .. MaxSeq, srcW : Workers,
             srcEp : Nat, probe : 0 .. MaxMsgs, pseq : 0 .. MaxSeq, outcome : {"none", "active", "unknown"}]
Deliveries == [st : DeliveryStates, w : Workers, ep : Nat, seq : 0 .. MaxSeq, mark : 0 .. MaxSeq,
               unknown : BOOLEAN]

\* The circuit, deliveries, runtimes and conversations keep the values their columns allow.
TypeOK ==
    /\ circuit \in Circuits /\ msgs \in [Msgs -> Deliveries]
    /\ used \in 0 .. MaxMsgs /\ seq \in 0 .. MaxSeq
    /\ rts \in [Workers -> [ep : Nat, state : RuntimeStates]]
    /\ atts \in [Attachments -> [state : {"active", "revoked"}, closeSeq : 0 .. MaxSeq, closes : Nat]]
    /\ bounds \subseteq [seq : 1 .. MaxSeq, w : Workers, ep : Nat]
    /\ handed \subseteq Msgs

----------------------------------------------------------------------------
(* The proof that one Assignment may probe.                                  *)

Att(m) == AttachmentOf[msgs[m].w]
Current(m) == msgs[m].ep = rts[msgs[m].w].ep /\ rts[msgs[m].w].state \notin Gone

\* The source conversation was closed after the 429 and nothing of it is left in flight.
SourceClosedQuietly ==
    LET a == AttachmentOf[circuit.srcW] IN
    /\ atts[a].state = "revoked" /\ atts[a].closeSeq > circuit.src
    /\ \A m \in Msgs : Att(m) = a => msgs[m].st # "dispatched"

\* The proof also wants one managed_worker.stopped event with the close's own reason, digest
\* and generation.  close_cao_conversation records none: it leaves the Workers' specs as
\* they are and reports managed_workers_stopped = 0.
StoppedByClose(w) == FALSE

\* The close's idempotency receipt agrees with its events: counts of canceled Work and of
\* stopped Workers, the request digest, and the closed generation.
CloseReceiptValid(a) == atts[a].state = "revoked"

\* _provider_closed_source_takeover_sequence_tx: the close after which another
\* conversation's instruction counts, 0 when there is no such proof.
TakeoverSequence(candidate) ==
    LET a == AttachmentOf[circuit.srcW] IN
    IF /\ circuit.state = "open" /\ candidate # a /\ atts[candidate].state = "active"
       /\ SourceClosedQuietly /\ StoppedByClose(circuit.srcW) /\ CloseReceiptValid(a)
    THEN atts[a].closeSeq ELSE 0

\* The event an instruction must come after, 0 when no later one can help.  The Workers of a
\* conversation are of one generation of it; the code treats another generation like another
\* conversation.
InstructionFloor(m) ==
    IF Att(m) = AttachmentOf[circuit.srcW] THEN circuit.src ELSE TakeoverSequence(Att(m))

\* _provider_probe_candidate_tx.
Candidate(m) ==
    /\ atts[Att(m)].state = "active" /\ Current(m)
    /\ InstructionFloor(m) > 0 /\ msgs[m].seq > InstructionFloor(m)
    /\ msgs[m].mark = circuit.src

\* _valid_provider_probe_tx.
ValidProbe(m) ==
    /\ circuit.state = "half_open" /\ circuit.outcome = "active" /\ circuit.probe = m
    /\ circuit.pseq > circuit.src
    /\ Candidate(m) /\ msgs[m].seq = circuit.pseq
    /\ msgs[m].st \in {"dispatched", "acknowledged"} /\ rts[msgs[m].w].state = "busy"

----------------------------------------------------------------------------
(* What the circuit's writers do to its row.                                 *)

\* _claim_provider_runtime_probe_tx, the compare-and-swap.
Claimed(m) ==
    [circuit EXCEPT !.state = "half_open", !.probe = m, !.pseq = msgs[m].seq,
                    !.outcome = "active"]

\* _mark_provider_runtime_probe_unknown_tx for the runtime of Worker w.
MarkedUnknown(w) ==
    IF /\ circuit.state = "half_open" /\ circuit.outcome = "active"
       /\ msgs[circuit.probe].w = w /\ msgs[circuit.probe].ep = rts[w].ep
       /\ msgs[circuit.probe].st \in {"dispatched", "delivered", "acknowledged"}
    THEN [circuit EXCEPT !.state = "blocked", !.outcome = "unknown"]
    ELSE circuit

\* _release_provider_runtime_probe_tx.
Released(m) ==
    IF circuit.state \in {"half_open", "blocked"} /\ circuit.probe = m
    THEN [circuit EXCEPT !.state = "open", !.probe = 0, !.pseq = 0, !.outcome = "none"]
    ELSE circuit

\* Mutant of RateLimited: a recovery that meets an older Boundary again records it again.
RateLimitedAgain(b) ==
    IF circuit.src = b.seq THEN circuit
    ELSE [state |-> "open", src |-> b.seq, srcW |-> b.w, srcEp |-> b.ep, probe |-> 0,
          pseq |-> 0, outcome |-> "none"]

\* _record_provider_rate_limit_tx: only a newer Boundary starts a new epoch.
RateLimited(b) ==
    IF circuit.src >= b.seq THEN circuit
    ELSE [state |-> "open", src |-> b.seq, srcW |-> b.w, srcEp |-> b.ep, probe |-> 0,
          pseq |-> 0, outcome |-> "none"]

\* _close_provider_rate_limit_probe_tx: the probe's row stays, for the audit.
ClosedOnProgress(m) ==
    IF circuit.state \in {"half_open", "blocked"} /\ circuit.probe = m
    THEN [circuit EXCEPT !.state = "closed", !.pseq = 0, !.outcome = "none"]
    ELSE circuit

\* An epoch ends when the circuit closes or a newer 429 replaces it.
HandedIn(c, h) == IF c.state = "closed" \/ c.src # circuit.src THEN {} ELSE h

----------------------------------------------------------------------------
(* The CAO creates an Assignment; it carries the Boundary the circuit is     *)
(* open for, and no Boundary while a probe holds the slot.                   *)

\* _provider_instruction_source_boundary_tx.
SourceBoundary == IF circuit.state = "open" /\ circuit.outcome = "none" THEN circuit.src ELSE 0

Open(m) == msgs[m].st \in {"queued", "leased", "dispatched", "delivered", "acknowledged"}

Assign(w) ==
    LET m == used + 1 IN
    /\ used < MaxMsgs /\ seq < MaxSeq
    /\ atts[AttachmentOf[w]].state = "active" /\ rts[w].state \notin Gone
    /\ \A n \in Msgs : ~(msgs[n].w = w /\ msgs[n].ep = rts[w].ep /\ Open(n))
    /\ used' = m /\ seq' = seq + 1
    /\ msgs' = [msgs EXCEPT ![m] = [st |-> "queued", w |-> w, ep |-> rts[w].ep, seq |-> seq + 1,
                                    mark |-> SourceBoundary, unknown |-> FALSE]]
    /\ UNCHANGED <<circuit, rts, atts, bounds, handed>>

\* provider_runtime_dispatch_eligibility, a read of its own before the launch gates; a
\* refused delivery is deferred and stays queued.
Eligible(m) ==
    \/ circuit.state = "closed"
    \/ circuit.state = "half_open" /\ ValidProbe(m)
    \/ circuit.state = "open" /\ Candidate(m)

Precheck(m) ==
    /\ msgs[m].st = "queued" /\ Eligible(m)
    /\ msgs' = [msgs EXCEPT ![m].st = "leased"]
    /\ UNCHANGED <<circuit, used, rts, atts, seq, bounds, handed>>

\* Mutant of ClaimAllows: the reservation trusts the eligibility read before it.
ClaimAllowsAsRead(m) == msgs[m].st = "leased"

\* What _claim_provider_runtime_probe_tx decides inside the reservation.
ClaimAllows(m) ==
    \/ circuit.state = "closed"
    \/ circuit.state = "half_open" /\ ValidProbe(m)
    \/ circuit.state = "open" /\ circuit.outcome = "none" /\ Candidate(m)

\* The reservation: a current launch, the claim, the delivery dispatched, the runtime busy.
Reserve(m) ==
    /\ msgs[m].st = "leased" /\ Current(m) /\ ClaimAllows(m)
    /\ circuit' = IF circuit.state = "open" THEN Claimed(m) ELSE circuit
    /\ msgs' = [msgs EXCEPT ![m].st = "dispatched"]
    /\ rts' = [rts EXCEPT ![msgs[m].w].state = "busy"]
    /\ handed' = IF circuit.state = "closed" THEN {} ELSE handed \cup {m}
    /\ UNCHANGED <<used, atts, seq, bounds>>

\* A launch that is not current, or that the claim refuses, is deferred.
ReserveRefused(m) ==
    /\ msgs[m].st = "leased" /\ ~(Current(m) /\ ClaimAllows(m))
    /\ msgs' = [msgs EXCEPT ![m].st = "queued"]
    /\ UNCHANGED <<circuit, used, rts, atts, seq, bounds, handed>>

\* The owner-private launch gate refuses after the reservation: nothing reached the provider.
LaunchDenied(m) ==
    /\ msgs[m].st = "dispatched" /\ ~msgs[m].unknown
    /\ circuit' = Released(m) /\ handed' = handed \ {m}
    /\ msgs' = [msgs EXCEPT ![m].st = "dead"]
    /\ UNCHANGED <<used, rts, atts, seq, bounds>>

----------------------------------------------------------------------------
(* How the provider's turn ends.                                             *)

\* The Worker acknowledges its Assignment, and may mark it handled.
Acknowledge(m) ==
    /\ msgs[m].st \in {"dispatched", "delivered"} /\ Current(m)
    /\ msgs' = [msgs EXCEPT ![m].st = "acknowledged"]
    /\ UNCHANGED <<circuit, used, rts, atts, seq, bounds, handed>>

Handle(m) ==
    /\ msgs[m].st = "acknowledged" /\ Current(m)
    /\ msgs' = [msgs EXCEPT ![m].st = "handled"]
    /\ UNCHANGED <<circuit, used, rts, atts, seq, bounds, handed>>

\* A Worker report on the probe's Attempt proves the provider answers again.
Report(m) ==
    /\ msgs[m].st \in {"dispatched", "delivered", "acknowledged", "handled"} /\ Current(m)
    /\ circuit' = ClosedOnProgress(m) /\ handed' = HandedIn(circuit', handed)
    /\ UNCHANGED <<msgs, used, rts, atts, seq, bounds>>

\* The provider's turn ends without a failure.
TurnEnds(m) ==
    /\ msgs[m].st \in {"dispatched", "acknowledged", "handled"} /\ ~msgs[m].unknown
    /\ Current(m) /\ rts[msgs[m].w].state = "busy"
    /\ msgs' = [msgs EXCEPT ![m].st = IF @ = "dispatched" THEN "delivered" ELSE @]
    /\ rts' = [rts EXCEPT ![msgs[m].w].state = "waiting"]
    /\ circuit' = MarkedUnknown(msgs[m].w)
    /\ UNCHANGED <<used, atts, seq, bounds, handed>>

\* The Dispatcher cannot tell whether the provider took the Assignment.
OutcomeUnknown(m) ==
    /\ msgs[m].st = "dispatched" /\ ~msgs[m].unknown
    /\ msgs' = [msgs EXCEPT ![m].unknown = TRUE]
    /\ circuit' = MarkedUnknown(msgs[m].w)
    /\ UNCHANGED <<used, rts, atts, seq, bounds, handed>>

\* The provider answers 429: a typed failure Boundary and the circuit, one transaction.
RateLimit(m) ==
    LET b == [seq |-> seq + 1, w |-> msgs[m].w, ep |-> msgs[m].ep] IN
    /\ seq < MaxSeq /\ msgs[m].st \in {"dispatched", "acknowledged", "handled"}
    /\ Current(m) /\ rts[msgs[m].w].state = "busy"
    /\ seq' = seq + 1 /\ bounds' = bounds \cup {b}
    /\ circuit' = RateLimited(b) /\ handed' = HandedIn(circuit', handed)
    /\ rts' = [rts EXCEPT ![msgs[m].w].state = "failed"]
    /\ msgs' = [msgs EXCEPT ![m].unknown = TRUE]
    /\ UNCHANGED <<used, atts>>

\* Terminal recovery runs again for a runtime whose 429 Boundary exists and records it again.
RecoverAgain(b) ==
    /\ circuit' = RateLimited(b) /\ handed' = HandedIn(circuit', handed)
    /\ UNCHANGED <<msgs, used, rts, atts, seq, bounds>>

\* The runtime's lease expires, or the scan for stranded probes meets it again.
LeaseExpires(w) ==
    /\ rts[w].state # "failed"
    /\ rts' = [rts EXCEPT ![w].state = "missing"]
    /\ circuit' = MarkedUnknown(w)
    /\ UNCHANGED <<msgs, used, atts, seq, bounds, handed>>

\* The operator resolves an unknown delivery; only not_delivered frees the slot.
Resolve(m, outcome) ==
    /\ msgs[m].st = "dispatched" /\ msgs[m].unknown
    /\ msgs' = [msgs EXCEPT
         ![m].unknown = FALSE,
         ![m].st = CASE outcome = "delivered" -> "delivered"
                     [] outcome = "not_delivered" -> IF Current(m) THEN "queued" ELSE "dead"
                     [] OTHER -> "dead"]
    /\ circuit' = IF outcome = "not_delivered" THEN Released(m) ELSE circuit
    /\ handed' = IF outcome = "not_delivered" THEN handed \ {m} ELSE handed
    /\ UNCHANGED <<used, rts, atts, seq, bounds>>

----------------------------------------------------------------------------
(* Conversations and runtimes.                                               *)

\* close_cao_conversation: an unknown delivery blocks it, everything else is terminalized.
Close(a) ==
    /\ seq < MaxSeq /\ atts[a].state = "active" /\ atts[a].closes < MaxCloses
    /\ \A m \in Msgs : Att(m) = a => msgs[m].st # "dispatched"
    /\ seq' = seq + 1
    /\ atts' = [atts EXCEPT ![a] = [state |-> "revoked", closeSeq |-> seq + 1,
                                    closes |-> @.closes + 1]]
    /\ msgs' = [m \in Msgs |-> IF Att(m) = a /\ Open(m) THEN [msgs[m] EXCEPT !.st = "dead"]
                               ELSE msgs[m]]
    /\ UNCHANGED <<circuit, used, rts, bounds, handed>>

Reopen(a) ==
    /\ atts[a].state = "revoked" /\ atts' = [atts EXCEPT ![a].state = "active"]
    /\ UNCHANGED <<circuit, msgs, used, rts, seq, bounds, handed>>

\* The same logical Worker gets a fresh runtime epoch, which no Assignment is pinned to yet.
Restart(w) ==
    /\ rts[w].state \in Gone /\ rts[w].ep < MaxEpoch
    /\ rts' = [rts EXCEPT ![w] = [ep |-> @.ep + 1, state |-> "ready"]]
    /\ UNCHANGED <<circuit, msgs, used, atts, seq, bounds, handed>>

\* stop_runtime refuses the runtime of a probe whose outcome is open.
Stop(w) ==
    /\ rts[w].state \notin Gone
    /\ ~(circuit.state \in {"half_open", "blocked"} /\ msgs[circuit.probe].w = w
         /\ msgs[circuit.probe].ep = rts[w].ep)
    /\ \A m \in Msgs : msgs[m].w = w => msgs[m].st # "dispatched"
    /\ rts' = [rts EXCEPT ![w].state = "failed"]
    /\ UNCHANGED <<circuit, msgs, used, atts, seq, bounds, handed>>

Next ==
    \/ \E w \in Workers : Assign(w) \/ LeaseExpires(w) \/ Restart(w) \/ Stop(w)
    \/ \E m \in 1 .. used :
         \/ Precheck(m) \/ Reserve(m) \/ ReserveRefused(m) \/ LaunchDenied(m)
         \/ Acknowledge(m) \/ Handle(m) \/ Report(m) \/ TurnEnds(m) \/ OutcomeUnknown(m)
         \/ RateLimit(m)
         \/ \E o \in {"delivered", "not_delivered", "dead"} : Resolve(m, o)
    \/ \E b \in bounds : RecoverAgain(b)
    \/ \E a \in Attachments : Close(a) \/ Reopen(a)

Spec == Init /\ [][Next]_vars

----------------------------------------------------------------------------
(* Properties.                                                               *)

\* Between a 429 and the proof that the provider answers again, the Dispatcher hands at
\* most one Assignment of the scope to the provider, however its runtime dies, is
\* rescanned, or is restarted, and whatever reservations raced on an earlier check.  An
\* Assignment proven not to have been handed over does not count.
OneProbePerEpoch == circuit.state # "closed" => Cardinality(handed) <= 1

\* While the circuit is not closed, no Assignment created before the 429 it stands for
\* starts a turn: its instruction may not know that the provider refused.
OldInstructionsWait ==
    \A m \in Msgs :
      msgs[m].st = "leased" /\ msgs'[m].st = "dispatched" /\ circuit.state # "closed"
      => msgs[m].seq > circuit.src

\* A 429 seen again by a later recovery never brings an older epoch back, and never takes
\* the slot of a probe that belongs to a newer one.
EpochsMoveForward ==
    /\ circuit'.src >= circuit.src
    /\ (circuit.probe # 0 /\ circuit'.probe = 0 /\ circuit'.src = circuit.src
        => circuit.probe \notin handed')
=============================================================================
