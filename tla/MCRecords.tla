------------------------------- MODULE MCRecords -------------------------------
(***************************************************************************)
(* Small instances of the modules about durable records that must stay     *)
(* true, with the constants of the .cfg: the effect ledger with a one-time *)
(* or a standing grant ("ledger"), WorkClose with two concurrent cleanups  *)
(* and effects started outside them ("cleanup"), and RetryCommand with two *)
(* Workers ("key") or one key for two Works ("works"); and Retention, with *)
(* the commands about one kind of authority it must keep ("boundary",      *)
(* "close", "read", "message").  AllInit chooses one, and the other        *)
(* modules keep an initial state.                                          *)
(***************************************************************************)
EXTENDS EffectLedger, WorkClose, RetryCommand, Retention, TLC

CONSTANTS k1, g1, s1
VARIABLE instance
all == <<instance, vars, closing, retention, retrying>>

MCCovers == g1 :> {k1} @@ s1 :> {k1}

\* WorkClose and Retention have several initial states.
AllInit ==
    /\ instance \in {"ledger", "cleanup", "key", "works", "boundary", "close", "read", "message"}
    /\ Init /\ CloseInit /\ RetryInit /\ RetentionInit
    /\ instance = "cleanup" \/ kept.staged
    /\ instance = "close" \/ Fresh

\* A bound of "ledger": only one of its two grants is ever issued.
OneGrantIssued == \E g \in Grants : grant'[g] = "absent"
LedgerStep ==
    /\ instance = "ledger" /\ Next /\ OneGrantIssued
    /\ UNCHANGED <<instance, closing, retention, retrying>>
CloseStep ==
    /\ instance = "cleanup" /\ CloseNext
    /\ UNCHANGED <<instance, vars, retention, retrying>>

\* Bounds of "boundary" and "close": only assignments are sent, to each Work its own message, and
\* only a close takes them from the queue.
OnlyAssigned ==
    \A m \in Msgs :
        /\ msg'[m].role \in {"none", "source"}
        /\ msg'[m].role = "source" => <<m, msg'[m].of>> \in {<<"m1", "w1">>, <<"m2", "w2">>}
        /\ msg'[m].state = msg[m].state \/ msg[m].state = "none" \/ closed' # closed
\* A bound of "boundary" and "message": the second Work is never assigned.
OneWorkOnly == works'["w2"].state = "none"
\* The commands about Boundaries and what points to their events, for one Work.
BoundarySteps ==
    /\ instance = "boundary" /\ OneWorkOnly /\ OnlyAssigned /\ seq' <= 5
    /\ UNCHANGED <<closed, session, reading>>
\* Decisions, closes and the circuit, for two Works in three generations: a goal is
\* not replaced and a conversation is reopened only after it was closed.
CloseSteps ==
    /\ instance = "close" /\ OnlyAssigned
    /\ \A e \in events' : e.type # "replaced"
    /\ session.active => session'.gen = session.gen
    /\ UNCHANGED <<super, pushes, reading>>
\* Captured texts of two bytes, their reads and the review, in two generations.
ReadSteps ==
    /\ instance = "read" /\ seq' <= 3 /\ session'.gen <= 2
    /\ UNCHANGED <<works, bounds, super, circuit, pushes, closed, msg>>
\* Two messages of one Work with two Boundaries.
MessageSteps ==
    /\ instance = "message" /\ OneWorkOnly /\ seq' <= 4
    /\ \A e \in events' : e.type # "replaced"
    /\ UNCHANGED <<super, circuit, pushes, closed, session, reading>>
RetentionStep ==
    /\ instance \in {"boundary", "close", "read", "message"} /\ RetentionNext
    /\ BoundarySteps \/ CloseSteps \/ ReadSteps \/ MessageSteps
    /\ UNCHANGED <<instance, vars, closing, retrying>>

\* A bound of "key": nothing happens to its second Work.
OneWork ==
    /\ work'["w2"] = work["w2"] /\ "w2" \notin open' /\ <<"w2", 1>> \in created'
    /\ asg'[<<"w2", 1>>] = "queued"
    /\ \A k \in RetryKeys : Exists(k)' => bnd'[k].at[1] = "w1"
\* Bounds of "works": two Attempts of each Work, by its first Worker, which is never restarted; no
\* Work has another Boundary or is suspended, and the second is not completed.
SecondWorkStays ==
    /\ open' = {} /\ work'["w2"].state = "active" /\ work'["w1"].state # "suspended"
    /\ \A w \in Works : work'[w].last <= 2
    /\ \A a \in Attempts : att'[a].worker \in {NoWorker, FirstWorker}
    /\ \A k \in RetryKeys : Exists(k)' => bnd'[k].worker = FirstWorker /\ bnd'[k].lane = 0
    /\ answer'.ok => answer'.req.lane = 0
RetryStep ==
    /\ \/ instance = "key" /\ RetryNext /\ OneWork
       \/ instance = "works" /\ RetryNext /\ SecondWorkStays
    /\ UNCHANGED <<instance, vars, closing, retention>>
\* Retention: a Boundary or a key of reads takes the place of the other.
Interchangeable == Permutations(Boundaries)

AllNext == LedgerStep \/ CloseStep \/ RetentionStep \/ RetryStep
AllSpec == AllInit /\ [][AllNext]_all
================================================================================
