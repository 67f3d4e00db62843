------------------------------ MODULE MCCommands ------------------------------
(***************************************************************************)
(* Small instances of the three modules about commands that are repeated,  *)
(* or used after what authorised them changed, with the constants of the   *)
(* .cfg and a bound on the steps of each instance.  CaoSession: "close"    *)
(* (two bridges and two requests), "wake", "catalog".  IntentLog: "chain"  *)
(* (three Works), "once" (every relation).  WorkerThread: "life" (a thread *)
(* that exists) and "purpose" (from its creation).  Init chooses one       *)
(* instance, and the other modules keep their initial state.               *)
(***************************************************************************)
EXTENDS CaoSession, IntentLog, WorkerThread, TLC

VARIABLE instance

vars == <<instance, session, threads, intents>>

Init ==
    /\ instance \in {"close", "wake", "catalog", "life", "purpose", "chain", "once"}
    /\ SessionInit /\ (att = Legacy <=> instance = "catalog")
    /\ IntentInit
    /\ ThreadInit /\ (thread.st = "active" <=> instance = "life")

-----------------------------------------------------------------------------
\* Bounds of the instances of CaoSession: what does not happen in each.
NoLapse ==
    /\ peers' = Peers /\ (att'.st = "active" => att'.lease)
    /\ \A n \in 1 .. MaxConns : conns'[n].st = "active" => conns'[n].lease
NoWake == \A t \in 1 .. MaxWakes : tickets'[t] = NoTicket
AtOnce(n) == Cardinality({k \in Callers : caller'[k] # Idle}) <= n
OnePeer == "p2" \in peers' /\ \A b \in 1 .. MaxCabs : cabs'[b].peer # "p2"
TwoCabs == cabs'[3] = NoCab
TwoCscs == cscs'[3] = NoCsc

SessionStep ==
    /\ instance \in {"close", "wake", "catalog"} /\ SessionNext
    /\ \/ instance = "close" /\ NoLapse /\ NoWake /\ TwoCscs /\ AtOnce(2)
       \/ instance = "wake" /\ AtOnce(1) /\ OnePeer /\ TwoCabs /\ catalog' = 1
       \/ instance = "catalog" /\ NoWake /\ AtOnce(1) /\ TwoCabs /\ TwoCscs /\ ownWork' = NoOwnWork
    /\ UNCHANGED <<instance, threads, intents>>

\* Bounds of the instances of WorkerThread: what the requests ask for, and what there is not.
Asked(ops) == \A k \in Keys : reqs'[k].op \in ops \cup {"none"}
ThreadStep ==
    /\ instance \in {"life", "purpose"} /\ ThreadNext
    /\ \/ instance = "life" /\ Asked({"instruct", "finish", "resume", "delete"})
       \/ instance = "purpose" /\ Asked({"new", "purpose", "instruct", "finish"})
          /\ effect' = "none" /\ epochs'[MaxEpochs] = NoEpoch
    /\ UNCHANGED <<instance, session, intents>>

\* Bounds of the instances of IntentLog.
ChainOnly ==
    \A s \in Sources : /\ intent'[s].payload # "q"
                       /\ intent'[s].via = "compat" =>
                            intent'[s].req.rel \in {"none", "interrupt", "replace", "cancel"}
TwoWorks == used' <= 2 /\ \E s \in Sources : intent'[s] = NoIntent

IntentStep ==
    /\ instance \in {"chain", "once"} /\ IntentNext
    /\ \/ instance = "chain" /\ ChainOnly
       \/ instance = "once" /\ TwoWorks
    /\ UNCHANGED <<instance, session, threads>>

\* One key, source or request takes the place of another.
Interchangeable == Permutations(Keys)

Next == SessionStep \/ ThreadStep \/ IntentStep
Spec == Init /\ [][Next]_vars
===============================================================================
