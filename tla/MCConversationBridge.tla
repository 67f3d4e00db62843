------------------------- MODULE MCConversationBridge -------------------------
(***************************************************************************)
(* Four ways to start a bridge, one of which Init chooses: a pending       *)
(* bridge with progress requests beside its read loop; the read loop of    *)
(* one alone, through three credentials; a Worker's bridge with            *)
(* heartbeats; and a bridge attached when it was started.                  *)
(***************************************************************************)
EXTENDS ConversationBridge, TLC

CONSTANTS r1, r2, r3, r4

AnyFault == {"err", "lost", "catalog"}
Few == {r1, r2, r3}
Tasks == [kind |-> "pending", ids |-> Ids, ops |-> {"call", "start", "progress", "close task"},
          faults |-> AnyFault, issues |-> 2, beats |-> 0]
LoopAlone == [kind |-> "pending", ids |-> Ids, ops |-> {"call", "local", "start", "close"},
              faults |-> {"err", "catalog"}, issues |-> 3, beats |-> 0]
WorkerBeats == [kind |-> "worker", ids |-> Few, ops |-> {"call", "list", "progress", "listen"},
                faults |-> AnyFault, issues |-> 1, beats |-> 4]
Context == [kind |-> "context", ids |-> Few, ops |-> {"call", "start", "progress", "close"},
            faults |-> AnyFault, issues |-> 1, beats |-> 0]
AllSetups == {Tasks, LoopAlone, WorkerBeats, Context}

AnyId == Permutations(Ids)
===============================================================================
