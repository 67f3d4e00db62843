----------------------------- MODULE Retention -----------------------------
(* Retention (database.py, prune) and the durable facts that later commands  *)
(* still take from events and messages: the event of an open Boundary, the   *)
(* two events of a supersession, the source event of a provider circuit, an  *)
(* event still to be pushed, the audit of the chunks a CAO has read, the     *)
(* chain of a closed conversation and the messages that receipts name.       *)
(* An operator may prune between any two commands, with any two ages.        *)
(*                                                                           *)
(* Age is the order of creation: an event is as old as its sequence, a       *)
(* message as old as the sequence at which it was sent.                      *)
EXTENDS Naturals, FiniteSets, FiniteSetsExt

CONSTANTS
    WorkIds, Boundaries,  \* Works of one attachment, Boundary identities
    Outputs,         \* messages of one captured Worker turn
    Artifacts,       \* preserved text artifacts
    ReadKeys,        \* idempotency keys of chunk reads
    Msgs,            \* message identities
    Nothing,         \* no key, no subject
    Bytes,           \* size of every text, in UTF-8 scalars: a chunk never splits one
    MaxSeq,          \* bound: event sequence
    MaxGen           \* bound: attachment generation

VARIABLES
    seq,        \* last event sequence
    events,     \* rows of events
    works,      \* Work -> [state, gen]
    bounds,     \* Boundary -> [state, work, recon]
    super,      \* rows of boundary_supersessions
    circuit,    \* source_boundary_sequence of the provider circuit, 0 when closed
    pushes,     \* event sequences of undelivered pushes
    session,    \* [gen, active] of the attachment
    closed,     \* close results: generation -> [done, legacy, works, specs]
    msg,        \* Message -> [role, of, at, state]
    output,     \* Output -> captured state
    turn,       \* status of the captured provider turn
    reviewed,   \* generation whose CAO accepted the output, 0 when none did
    replies,    \* history: the answers chunk reads got
    seen        \* history: bytes shown, per text and generation

rows == <<works, bounds, super, circuit, session, closed>>
reading == <<output, turn, reviewed, replies, seen>>
retention == <<seq, events, pushes, msg, rows, reading>>

\* What the constants may be: rows are finitely many, and the bounds leave room for a close.
RetentionAssumption ==
    /\ {Bytes, MaxSeq, MaxGen} \subseteq Nat \ {0}
    /\ MaxGen > 1 /\ MaxSeq > 2
    /\ IsFiniteSet(WorkIds) /\ IsFiniteSet(Boundaries)
ASSUME RetentionConstants == RetentionAssumption

Texts == Outputs \cup Artifacts
Gens == 1 .. MaxGen
NoResult == [done |-> FALSE, legacy |-> FALSE, works |-> 0, specs |-> 0]
Event(n, type, of, gen) == [seq |-> n, type |-> type, of |-> of, gen |-> gen,
                            key |-> Nothing, lo |-> 0, hi |-> 0]

\* What an earlier build left: one conversation closed with the historical nine-field receipt,
\* which also stopped the Worker of its Work, and reopened since.
LegacyClosed(w) ==
    /\ events = {Event(1, "stopped", w, 1), Event(2, "canceled", w, 1), Event(3, "closed", Nothing, 1)}
    /\ seq = 3
    /\ works = [x \in WorkIds |-> IF x = w THEN [state |-> "canceled", gen |-> 1]
                                            ELSE [state |-> "none", gen |-> 0]]
    /\ closed = [g \in Gens |-> IF g = 1 THEN [done |-> TRUE, legacy |-> TRUE, works |-> 1, specs |-> 1]
                                         ELSE NoResult]
    /\ session = [gen |-> 2, active |-> TRUE]

Fresh ==
    /\ events = {} /\ seq = 0
    /\ works = [w \in WorkIds |-> [state |-> "none", gen |-> 0]]
    /\ closed = [g \in Gens |-> NoResult]
    /\ session = [gen |-> 1, active |-> TRUE]

RetentionInit ==
    /\ Fresh \/ \E w \in WorkIds : LegacyClosed(w)
    /\ bounds = [b \in Boundaries |-> [state |-> "none", work |-> Nothing, recon |-> FALSE]]
    /\ super = {} /\ circuit = 0 /\ pushes = {}
    /\ msg = [m \in Msgs |-> [role |-> "none", of |-> Nothing, at |-> 0, state |-> "none"]]
    /\ output = [o \in Outputs |-> "none"] /\ turn = "none" /\ reviewed = 0
    /\ replies = {} /\ seen = [t \in Texts |-> [g \in Gens |-> {}]]

\* Every row has the values its columns allow, an event a sequence of its own already given out.
RetentionTypeOK ==
    /\ \A e \in events : e.seq \in 1 .. seq
    /\ Cardinality({e.seq : e \in events}) = Cardinality(events)
    /\ seq \in 0 .. MaxSeq /\ circuit \in 0 .. seq /\ pushes \subseteq 1 .. seq
    /\ \A b \in Boundaries : bounds[b].state \in {"none", "open", "disposed", "canceled", "superseded"}
    /\ \A w \in WorkIds : works[w].state \in {"none", "active", "canceled"}
    /\ \A m \in Msgs : msg[m].state \in {"none", "queued", "handled", "dead"}
    /\ session.gen \in Gens /\ reviewed \in 0 .. MaxGen

----------------------------------------------------------------------------
(* The commands that create durable authority.                               *)

Open(b) == bounds[b].state = "open"
Recorded(b) == {e \in events : e.type = "recorded" /\ e.of = b}
Unused == {m \in Msgs : msg[m].role = "none"}
SendMessage(m, role, of) ==
    msg' = [msg EXCEPT ![m] = [role |-> role, of |-> of, at |-> seq, state |-> "queued"]]
\* Both rows of one transaction: the event and what depends on it.
Log(type, of, gen) ==
    /\ seq < MaxSeq /\ seq' = seq + 1
    /\ events' = events \cup {Event(seq + 1, type, of, gen)}

\* A Work of the current conversation; its assignment message is the source of its capture.
Assign(w) ==
    /\ session.active /\ works[w].state = "none"
    /\ works' = [works EXCEPT ![w] = [state |-> "active", gen |-> session.gen]]
    /\ \E m \in Unused : SendMessage(m, "source", w)
    /\ UNCHANGED <<seq, events, bounds, super, circuit, pushes, session, closed, reading>>

\* A Boundary and its event; a recovery Boundary of the system also sends its notice to the CAO.
Record(b, w, recon) ==
    /\ bounds[b].state = "none" /\ works[w].state = "active"
    /\ \A c \in Boundaries : ~(Open(c) /\ bounds[c].work = w)
    /\ bounds' = [bounds EXCEPT ![b] = [state |-> "open", work |-> w, recon |-> recon]]
    /\ Log("recorded", b, 0)
    /\ IF recon THEN \E m \in Unused : SendMessage(m, "notice", b) ELSE UNCHANGED msg
    /\ UNCHANGED <<works, super, circuit, pushes, session, closed, reading>>

\* An ordinary decision, with the continuation message a correction sends to the Worker or the
\* resumption message a pause sends.
DisposeBoundary(b) ==
    /\ Open(b) /\ bounds' = [bounds EXCEPT ![b].state = "disposed"]
    /\ Log("disposed", b, 0)
    /\ \/ UNCHANGED msg
       \/ \E m \in Unused, r \in {"continuation", "resumption"} : SendMessage(m, r, b)
    /\ UNCHANGED <<works, super, circuit, pushes, session, closed, reading>>

\* The goal of a Work is replaced: its open Boundary is superseded when exactly one event records it.
StaleBoundaries(w) == {b \in Boundaries : Open(b) /\ bounds[b].work = w /\ Cardinality(Recorded(b)) = 1}
Replace(w) ==
    /\ works[w].state = "active"
    /\ Log("replaced", w, 0)
    /\ bounds' = [b \in Boundaries |-> IF b \in StaleBoundaries(w)
                                       THEN [bounds[b] EXCEPT !.state = "superseded"] ELSE bounds[b]]
    /\ super' = super \cup {[of |-> b, opened |-> (CHOOSE e \in Recorded(b) : TRUE).seq, by |-> seq + 1]
                              : b \in StaleBoundaries(w)}
    /\ msg' = [m \in Msgs |-> IF /\ msg[m].role = "notice" /\ msg[m].state = "queued"
                                 /\ msg[m].of \in StaleBoundaries(w)
                              THEN [msg[m] EXCEPT !.state = "handled"] ELSE msg[m]]
    /\ UNCHANGED <<works, circuit, pushes, session, closed, reading>>

\* The circuit opens on a rate-limit Boundary, and closes after a successful probe.
OpenCircuit(b) ==
    /\ Open(b) /\ Recorded(b) # {}
    /\ circuit' = (CHOOSE e \in Recorded(b) : TRUE).seq
    /\ UNCHANGED <<seq, events, works, bounds, super, pushes, session, closed, msg, reading>>
CloseCircuit ==
    /\ circuit # 0 /\ circuit' = 0
    /\ UNCHANGED <<seq, events, works, bounds, super, pushes, session, closed, msg, reading>>

\* A push subscription matches an event, and the push is delivered.
QueuePush(e) ==
    /\ e.seq \notin pushes /\ pushes' = pushes \cup {e.seq}
    /\ UNCHANGED <<seq, events, msg, rows, reading>>
DeliverPush(n) ==
    /\ pushes' = pushes \ {n}
    /\ UNCHANGED <<seq, events, msg, rows, reading>>

\* Close of the conversation: open Boundaries disposed, Works canceled, the closed event and the
\* result in one transaction.
Owned == {w \in WorkIds : works[w].state = "active"}
OpenOwned == {b \in Boundaries : Open(b) /\ bounds[b].work \in Owned}
\* The events of the transaction, numbered from seq + 1.
Chain == {<<"disposed", b>> : b \in OpenOwned} \cup {<<"canceled", w>> : w \in Owned}
CloseConversation ==
    /\ session.active /\ session.gen < MaxGen
    /\ LET n == Cardinality(Chain) IN
       /\ seq + n + 1 <= MaxSeq /\ seq' = seq + n + 1
       /\ \E f \in [Chain -> (seq + 1) .. (seq + n)] :
             /\ \A x, y \in Chain : x # y => f[x] # f[y]
             /\ \A x, y \in Chain : (x[1] = "disposed" /\ y[1] = "canceled") => f[x] < f[y]
             /\ events' = events \cup {Event(f[x], x[1], x[2], session.gen) : x \in Chain}
                                 \cup {Event(seq + n + 1, "closed", Nothing, session.gen)}
    /\ bounds' = [b \in Boundaries |-> IF b \in OpenOwned
                                       THEN [bounds[b] EXCEPT !.state = "canceled"] ELSE bounds[b]]
    /\ works' = [w \in WorkIds |-> IF w \in Owned THEN [works[w] EXCEPT !.state = "canceled"] ELSE works[w]]
    /\ closed' = [closed EXCEPT ![session.gen] = [done |-> TRUE, legacy |-> FALSE,
                                              works |-> Cardinality(Owned), specs |-> 0]]
    /\ session' = [session EXCEPT !.active = FALSE]
    /\ msg' = [m \in Msgs |-> IF msg[m].state = "queued" THEN [msg[m] EXCEPT !.state = "dead"] ELSE msg[m]]
    /\ UNCHANGED <<super, circuit, pushes, reading>>

\* The next generation of the attachment: a closed conversation reopened, or the same one renewed.
Reopen ==
    /\ session.gen < MaxGen
    /\ session' = [gen |-> session.gen + 1, active |-> TRUE]
    /\ UNCHANGED <<seq, events, works, bounds, super, circuit, pushes, closed, msg, reading>>

\* A recipient handles a message, or its delivery dies.
Settle(m, to) ==
    /\ msg[m].state = "queued" /\ msg' = [msg EXCEPT ![m].state = to]
    /\ UNCHANGED <<seq, events, pushes, rows, reading>>

\* A receipt names the message that told the CAO of a settled turn; other messages name nothing.
Notify(w, role) ==
    /\ works[w].state = "active"
    /\ \E m \in Unused : SendMessage(m, role, w)
    /\ UNCHANGED <<seq, events, pushes, rows, reading>>

----------------------------------------------------------------------------
(* The exact chunk reads of a CAO and the review they allow.                 *)

CaptureOutput(o, s) ==
    /\ turn = "none" /\ output[o] = "none"
    /\ output' = [output EXCEPT ![o] = s]
    /\ UNCHANGED <<seq, events, pushes, msg, rows, turn, reviewed, replies, seen>>
EndTurn(s) ==
    /\ turn = "none" /\ turn' = s
    /\ UNCHANGED <<seq, events, pushes, msg, rows, output, reviewed, replies, seen>>

ReadType(t) == IF t \in Outputs THEN "output_read" ELSE "artifact_read"
\* A text with a verified digest in owner-private storage.
Readable(t) == IF t \in Outputs THEN output[t] \in {"available", "partial"} ELSE t \in Artifacts
\* The chunk at an offset; the last one is shorter, and one at the end is empty.
ChunkEnd(lo, len) == Min({lo + len, Bytes})
\* The audit event of an earlier read under the same key. The key's digest holds the attachment
\* and the kind of text, not the generation.
Prior(t, k) == {e \in events : e.type = ReadType(t) /\ e.key = k}
\* The request digest is told apart by text, generation and span.
Asked(t, lo, len) == [of |-> t, gen |-> session.gen, lo |-> lo, hi |-> ChunkEnd(lo, len)]
SameRequest(e, t, lo, len) == Asked(t, lo, len) = [of |-> e.of, gen |-> e.gen, lo |-> e.lo, hi |-> e.hi]

Audit(t, k, lo, len) ==
    [seq |-> seq + 1, type |-> ReadType(t), of |-> t, gen |-> session.gen, key |-> k,
     lo |-> lo, hi |-> ChunkEnd(lo, len)]

\* read_output and read_artifact_content: the audit event is the idempotency record.
Read(t, k, lo, len) ==
    /\ session.active /\ Readable(t)
    /\ \A e \in Prior(t, k) : SameRequest(e, t, lo, len)
    /\ IF Prior(t, k) # {}
       THEN /\ replies' = replies \cup {[type |-> ReadType(t), key |-> k, ask |-> Asked(t, lo, len),
                                         seq |-> Min({e.seq : e \in Prior(t, k)})]}
            /\ UNCHANGED <<seq, events>>
       ELSE /\ seq < MaxSeq /\ seq' = seq + 1
            /\ events' = events \cup {Audit(t, k, lo, len)}
            /\ replies' = replies \cup {[type |-> ReadType(t), key |-> k, ask |-> Asked(t, lo, len),
                                         seq |-> seq + 1]}
    /\ seen' = [seen EXCEPT ![t][session.gen] = @ \cup lo .. (ChunkEnd(lo, len) - 1)]
    /\ UNCHANGED <<pushes, msg, rows, output, turn, reviewed>>

\* The spans of one output that this generation of the attachment has read.
Spans(o) == {<<e.lo, e.hi>> : e \in {x \in events : /\ x.type = "output_read" /\ x.of = o
                                                    /\ x.gen = session.gen}}
\* How far spans taken in order of their start reach from offset zero without a gap.
Reached(spans) ==
    Max({0} \cup {n \in 1 .. Bytes : \A i \in 0 .. (n - 1) : \E s \in spans : s[1] <= i /\ i < s[2]})
\* require_reviewable_output_tx.
Reviewable ==
    /\ turn = "completed"
    /\ \A o \in Outputs : output[o] \notin {"partial", "withheld"}
    /\ \E o \in Outputs : output[o] = "available"
    /\ \A o \in Outputs : output[o] = "available" => Reached(Spans(o)) = Bytes
\* An OK review of the completed turn.
Review ==
    /\ session.active /\ reviewed = 0 /\ Reviewable
    /\ reviewed' = session.gen
    /\ UNCHANGED <<seq, events, pushes, msg, rows, output, turn, replies, seen>>

----------------------------------------------------------------------------
(* prune: what old events and messages are excluded from deletion.           *)

PushPending(e) == e.seq \in pushes
CircuitSource(e) == circuit > 0 /\ e.seq = circuit
Superseding(e) == \E s \in super : e.seq \in {s.opened, s.by}
\* The audit of a read of an output this attachment's Work still has.
OutputReadKept(e) == e.type = "output_read" /\ Readable(e.of) /\ e.hi <= Bytes
ArtifactReadKept(e) == e.type = "artifact_read" /\ e.of \in Artifacts
\* A close with its result; four fields now, nine in the historical form.
CloseKept(e) == e.type = "closed" /\ closed[e.gen].done
\* Mutant of StoppedKept: a historical close is not looked up.
StoppedCurrent(e) == e.type = "stopped" /\ closed[e.gen].done /\ ~closed[e.gen].legacy
StoppedKept(e) == e.type = "stopped" /\ closed[e.gen].done
CanceledKept(e) == e.type = "canceled" /\ closed[e.gen].done
\* A Boundary disposed by a close names its attachment generation, an ordinary decision does not.
DisposedKept(e) == e.type = "disposed" /\ e.gen # 0 /\ closed[e.gen].done
OpenBoundary(e) == e.type = "recorded" /\ Open(e.of)
EventKept(e) ==
    \/ PushPending(e) \/ CircuitSource(e) \/ Superseding(e)
    \/ OutputReadKept(e) \/ ArtifactReadKept(e)
    \/ CloseKept(e) \/ StoppedKept(e) \/ CanceledKept(e) \/ DisposedKept(e)
    \/ OpenBoundary(e)

ReceiptMessage(m) == msg[m].role \in {"source", "notification"}
DecisionMessage(m) == msg[m].role \in {"continuation", "resumption"}
Unhandled(m) == msg[m].state # "handled"
\* The canonical recovery notice of a Boundary that is still the system's to reconcile.
NoticeKept(m) == msg[m].role = "notice" /\ Open(msg[m].of) /\ bounds[msg[m].of].recon
MessageKept(m) == ReceiptMessage(m) \/ DecisionMessage(m) \/ Unhandled(m) \/ NoticeKept(m)

\* One transaction with two cutoffs; deleting an event deletes the pushes that were delivered.
PruneRows(eventCut, messageCut) ==
    /\ events' = {e \in events : e.seq >= eventCut \/ EventKept(e)}
    /\ msg' = [m \in Msgs |-> IF msg[m].role # "none" /\ msg[m].at < messageCut /\ ~MessageKept(m)
                              THEN [msg[m] EXCEPT !.role = "pruned"] ELSE msg[m]]
    /\ events' # events \/ msg' # msg
    /\ UNCHANGED <<seq, pushes, rows, reading>>
\* An age between two rows deletes what the age of the later one does.
EventAges == {e.seq : e \in events} \cup {seq + 1}
MessageAges == {msg[m].at : m \in Msgs} \cup {seq + 1}

----------------------------------------------------------------------------
RetentionNext ==
    \/ \E w \in WorkIds : Assign(w) \/ Replace(w)
    \/ \E b \in Boundaries, w \in WorkIds, r \in BOOLEAN : Record(b, w, r)
    \/ \E b \in Boundaries : DisposeBoundary(b) \/ OpenCircuit(b)
    \/ CloseCircuit
    \/ \E e \in events : QueuePush(e)
    \/ \E n \in pushes : DeliverPush(n)
    \/ CloseConversation \/ Reopen
    \/ \E m \in Msgs : Settle(m, "handled") \/ Settle(m, "dead")
    \/ \E w \in WorkIds : Notify(w, "notification") \/ Notify(w, "plain")
    \/ \E o \in Outputs, s \in {"available", "partial", "withheld"} : CaptureOutput(o, s)
    \/ \E s \in {"completed", "failed"} : EndTurn(s)
    \/ \E t \in Texts, k \in ReadKeys, lo \in 0 .. Bytes, len \in 1 .. Bytes : Read(t, k, lo, len)
    \/ Review
    \/ \E ce \in EventAges, cm \in MessageAges : PruneRows(ce, cm)

RetentionSpec == RetentionInit /\ [][RetentionNext]_retention

----------------------------------------------------------------------------
(* Properties.                                                               *)

\* Every sequence and every message that a durable row names still resolves: an open Boundary has
\* exactly one boundary.recorded event (a goal replacement supersedes it only then), a supersession
\* keeps both its events, an open circuit its source, an undelivered push its event.
AuthorityAnchored ==
    /\ \A b \in Boundaries : Open(b) => Cardinality(Recorded(b)) = 1
    /\ \A n \in {circuit} \cup pushes \cup UNION {{s.opened, s.by} : s \in super} :
          n = 0 \/ \E e \in events : e.seq = n

\* A chunk read answered once under a key is answered for ever with the same audit event and only
\* for the same request, however often the operator prunes in between.
OneReplyPerKey ==
    \A r, s \in replies : r.type = s.type /\ r.key = s.key => r = s

\* An OK review means that the conversation generation that gave it was shown every byte of every
\* final output, and that nothing of the turn was lost or withheld.
ReviewedAfterFullRead ==
    reviewed # 0 => \A o \in Outputs :
        /\ output[o] \in {"none", "available"}
        /\ output[o] = "available" => seen[o][reviewed] = 0 .. (Bytes - 1)

\* What a CAO has read it need not read again: once its generation was shown every byte of a
\* completely captured turn, the review gate is open, whatever is pruned meanwhile.
ReadStaysRead ==
    ( /\ turn = "completed" /\ \E o \in Outputs : output[o] = "available"
      /\ \A o \in Outputs : output[o] = "none" \/
            (output[o] = "available" /\ seen[o][session.gen] = 0 .. (Bytes - 1)) )
    => Reviewable

\* Canceled and stopped events that belong to the close of one generation.
Counted(type, g) == Cardinality({e \in events : e.type = type /\ e.gen = g})
\* The proof that lets another conversation take over after a rate limit stays derivable: the
\* receipt of every close agrees with the events that are left, and the circuit's source Boundary
\* keeps the decision of the close that disposed of it.
CloseProvable ==
    \A g \in Gens : closed[g].done =>
        /\ Counted("closed", g) = 1
        /\ Counted("canceled", g) = closed[g].works
        /\ Counted("stopped", g) = closed[g].specs
        /\ \A e \in events : e.seq = circuit /\ bounds[e.of].state = "canceled"
               => \E d \in events : d.type = "disposed" /\ d.of = e.of /\ d.gen # 0 /\ d.seq > e.seq

\* While the system's recovery Boundary is open, the notice that tells the CAO of it can be found.
NoticeOfOpenRecovery ==
    \A b \in Boundaries : Open(b) /\ bounds[b].recon =>
        \E m \in Msgs : msg[m].role = "notice" /\ msg[m].of = b

\* Whatever is pruned: every sequence a durable row names still resolves, the receipt of every
\* close agrees with the events that are left, an open recovery Boundary keeps its notice, a chunk
\* read keeps the one answer of its key, and an OK review means that the reviewing generation was
\* shown every byte, once.
PruneKeepsEvidence ==
    /\ RetentionTypeOK
    /\ AuthorityAnchored
    /\ CloseProvable
    /\ NoticeOfOpenRecovery
    /\ OneReplyPerKey /\ ReviewedAfterFullRead /\ ReadStaysRead
=============================================================================
