----------------------------- MODULE StateReads -----------------------------
(***************************************************************************)
(* Read admission for one attached CAO conversation and one resource       *)
(* (state_read_admission.py).  A read is admitted once per cause, a cause  *)
(* being the native inputs, notifications and supervisor commands known so *)
(* far; server-issued cursors continue a collection.  The native input is  *)
(* read before the transaction, and a failed read puts back the row it     *)
(* replaced, so reads that overlap meet each other's reservations.         *)
(***************************************************************************)
EXTENDS Integers, FiniteSets

CONSTANTS
    Readers,      \* tool calls that may run at the same time
    MaxInputs,    \* bound: native inputs of the conversation
    MaxNews,      \* bound: notifications plus supervisor commands
    Pages,        \* pages of the collection
    MaxDeaths,    \* bound: calls that die with their process
    MaxReads,     \* bound: reads admitted in a behaviour
    None

\* A cause: how many inputs, notifications and commands were known.
Causes == (0 .. MaxInputs) \X (0 .. MaxNews) \X (0 .. MaxNews)
Cursors == 0 .. Pages - 1
Rows == [cause : Causes, id : 1 .. MaxReads, pending : BOOLEAN, next : Cursors]

\* What the constants may be.
ReadConstants == MaxInputs \in Nat /\ MaxNews \in Nat /\ Pages \in Nat \ {0} /\ MaxDeaths \in Nat
                 /\ MaxReads \in Nat /\ None \notin Rows
ASSUME ReadAssumption == ReadConstants

VARIABLES
    native,    \* identity of the latest native input of the conversation
    inputs,    \* cao_state_read_inputs
    news,      \* notifications and command events: [note, cmd]
    row,       \* the cao_state_read_cursors row, or None
    fresh,     \* reservation ids used so far
    call,      \* the calls: their input digest, reservation and previous row
    served,    \* history: <<cause, cursor>> of the reads that returned a page
    repeats,   \* history: those that returned one already returned
    dead       \* history: causes of calls that died

reading == <<native, inputs, news, row, fresh, call, served, repeats, dead>>

\* Sequences only grow, so the digest of the three is the triple itself.
Cause(seen) == <<Cardinality(seen), news.note, news.cmd>>

IdleCall == [st |-> "idle", digest |-> 0, cur |-> 0, id |-> 0, cause |-> None, prev |-> None]

CallRows == [st : {"idle", "observed", "reading"}, digest : 0 .. MaxInputs, cur : Cursors,
             id : 0 .. MaxReads, cause : Causes \cup {None}, prev : Rows \cup {None}]

\* The row is of a known reservation, and only a finished read left it a cursor; so is the row that
\* a call keeps to put it back.
ReadTypeOK ==
    /\ native \in 0 .. MaxInputs /\ inputs \subseteq 1 .. MaxInputs
    /\ news \in [note : 0 .. MaxNews, cmd : 0 .. MaxNews]
    /\ fresh \in 0 .. MaxReads
    /\ row \in Rows \cup {None}
    /\ row # None => row.id <= fresh /\ (row.pending => row.next = 0)
    /\ call \in [Readers -> CallRows]
    /\ \A c \in Readers : call[c].st = "reading" =>
          /\ call[c].cause \in Causes /\ call[c].id \in 1 .. fresh
          /\ call[c].prev # None => call[c].prev.id < call[c].id /\ (call[c].prev.pending => call[c].prev.next = 0)
    /\ served \subseteq Causes \X Cursors /\ repeats \subseteq served /\ dead \subseteq Causes

ReadInit ==
    /\ native = 0 /\ inputs = {} /\ news = [note |-> 0, cmd |-> 0]
    /\ row = None /\ fresh = 0
    /\ call = [c \in Readers |-> IdleCall]
    /\ served = {} /\ repeats = {} /\ dead = {}

\* The requester types, or another chat sends an instruction.
NativeInput ==
    /\ native < MaxInputs
    /\ native' = native + 1
    /\ UNCHANGED <<inputs, news, row, fresh, call, served, repeats, dead>>

Notified ==
    /\ news.note + news.cmd < MaxNews
    /\ \/ news' = [news EXCEPT !.note = @ + 1]
       \/ news' = [news EXCEPT !.cmd = @ + 1]
    /\ UNCHANGED <<native, inputs, row, fresh, call, served, repeats, dead>>

\* input_reader: the latest native input, or nothing when it cannot be observed.
ObserveInput(c, cur) ==
    /\ call[c].st = "idle"
    /\ \E d \in {0, native} :
        call' = [call EXCEPT ![c] = [IdleCall EXCEPT !.st = "observed", !.digest = d, !.cur = cur]]
    /\ UNCHANGED <<native, inputs, news, row, fresh, served, repeats, dead>>

\* INSERT OR IGNORE
WithInput(d) == IF d = 0 THEN inputs ELSE inputs \cup {d}

ForwardPage(cur) == row # None /\ cur # 0 /\ cur = row.next /\ ~row.pending

Prohibited(cause, cur) == row # None /\ row.cause = cause /\ ~ForwardPage(cur)

\* reserve
ReserveRead(c) ==
    LET seen == WithInput(call[c].digest)
        cause == Cause(seen)
    IN  /\ call[c].st = "observed"
        /\ ~Prohibited(cause, call[c].cur) /\ fresh < MaxReads
        /\ inputs' = seen
        /\ fresh' = fresh + 1
        /\ row' = [cause |-> cause, id |-> fresh + 1, pending |-> TRUE, next |-> 0]
        /\ call' = [call EXCEPT ![c].st = "reading", ![c].id = fresh + 1,
                                ![c].cause = cause, ![c].prev = row]
        /\ UNCHANGED <<native, news, served, repeats, dead>>

\* The refusal rolls the transaction back, the observed input with it.
Refuse(c) ==
    /\ call[c].st = "observed"
    /\ Prohibited(Cause(WithInput(call[c].digest)), call[c].cur)
    /\ call' = [call EXCEPT ![c] = IdleCall]
    /\ UNCHANGED <<native, inputs, news, row, fresh, served, repeats, dead>>

Mine(c) == row # None /\ row.id = call[c].id

\* next_cursor or next_before_sequence of the result, 0 when there is none.
NextCursor(cur) == IF cur + 1 < Pages THEN cur + 1 ELSE 0

\* The read returned page cur + 1, with a cursor when there are more.
FinishRead(c) ==
    LET page == <<call[c].cause, call[c].cur>>
    IN  /\ call[c].st = "reading"
        /\ row' = IF Mine(c)
                  THEN [row EXCEPT !.pending = FALSE,
                                   !.next = NextCursor(call[c].cur)]
                  ELSE row
        /\ served' = served \cup {page}
        /\ repeats' = IF page \in served THEN repeats \cup {page} ELSE repeats
        /\ call' = [call EXCEPT ![c] = IdleCall]
        /\ UNCHANGED <<native, inputs, news, fresh, dead>>

\* Mutant of Restored: the failed read keeps its reservation.
RestoredNever(c) == row

Restored(c) == IF Mine(c) THEN call[c].prev ELSE row

\* The read raised.
FailRead(c) ==
    /\ call[c].st = "reading"
    /\ row' = Restored(c)
    /\ call' = [call EXCEPT ![c] = IdleCall]
    /\ UNCHANGED <<native, inputs, news, fresh, served, repeats, dead>>

\* The process dies inside the call.
DieReading(c) ==
    /\ call[c].st = "reading" /\ Cardinality(dead) < MaxDeaths
    /\ dead' = dead \cup {call[c].cause}
    /\ call' = [call EXCEPT ![c] = IdleCall]
    /\ UNCHANGED <<native, inputs, news, row, fresh, served, repeats>>

ReadNext ==
    \/ NativeInput
    \/ Notified
    \/ \E c \in Readers :
        \/ \E cur \in Cursors : ObserveInput(c, cur)
        \/ ReserveRead(c) \/ Refuse(c) \/ FinishRead(c) \/ FailRead(c) \/ DieReading(c)

ReadSpec == ReadInit /\ [][ReadNext]_reading

-----------------------------------------------------------------------------
(* Properties *)

\* No polling: per cause every page of the resource is returned once, however
\* reads overlap, fail and put each other's reservations back.
NoPolling == repeats = {}

\* No lost read: a conversation that is refused its read has had it, is having
\* it, or lost it with its process; an overlapping call that failed never costs
\* it the read of a new input or notification.
RefusedOnlyAfterRead ==
    row # None /\ row.cause = Cause(inputs) =>
        \/ \E cur \in Cursors : <<row.cause, cur>> \in served
        \/ \E c \in Readers : call[c].st = "reading" /\ call[c].cause = row.cause
        \/ row.cause \in dead

\* read_admission as a whole: per cause every page is returned once, and a conversation that is
\* refused a read has had it, is having it, or lost it with its process.
OneReadPerCause == ReadTypeOK /\ NoPolling /\ RefusedOnlyAfterRead
=============================================================================
