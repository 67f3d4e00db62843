---------------------------- MODULE CommandsProofs ----------------------------
(***************************************************************************)
(* Proofs about the commands of a CAO conversation, for any number of      *)
(* bridges, bootstraps, connections, credentials, wakes and requests, and  *)
(* of the requester's intents, for any number of intents, CAOs and Works,  *)
(* and of one Worker thread, for any number of epochs, Works, Attempts,    *)
(* deliveries and clients' requests.                                       *)
(*                                                                         *)
(* IntentLog: who waits for whom agrees, Work by Work, with the state of   *)
(* both, and an intent that is open was not applied (IntentInv).           *)
(*                                                                         *)
(* CaoSession: a wake holds the runtime of the present generation, and no  *)
(* later one was issued while it does; a credential lives with its         *)
(* connection, a connection with the attachment and its catalog; and a     *)
(* close ends the era of the bootstraps issued before it (SessionInv).     *)
(*                                                                         *)
(* WorkerThread: rows refer to rows of the same generation (ThreadInv).    *)
(* One epoch is current; every active Work, running Attempt, credential    *)
(* and ticket is of it; and a running Attempt has one open delivery.       *)
(***************************************************************************)
EXTENDS CaoSession, IntentLog, WorkerThread, FiniteSetTheorems, TLAPS

------------------------------------------------------------------------------
(* WorkerThread: the inductive invariant.                                    *)

\* A table: its rows are numbered in the order they are inserted.
RowsNumbered(table, n) == \E u \in 0 .. n : \A i \in 1 .. n : table[i].st = "none" <=> i > u

\* A row that was never written is blank; an Attempt names its Work and epoch, a delivery its Attempt.
ThreadRowsBound ==
    /\ RowsNumbered(epochs, MaxEpochs) /\ RowsNumbered(works, MaxBound)
    /\ RowsNumbered(atts, MaxAtts) /\ RowsNumbered(msgs, MaxMsgs)
    /\ \A e \in 1 .. MaxEpochs : epochs[e].st = "none" => epochs[e] = NoEpoch
    /\ \A w \in 1 .. MaxBound : works[w].st = "none" => works[w] = NoBound
    /\ \A a \in 1 .. MaxAtts :
          IF atts[a].st = "none" THEN atts[a] = NoPinned
          ELSE /\ atts[a].work \in 1 .. MaxBound /\ works[atts[a].work].st # "none"
               /\ atts[a].ep \in 1 .. MaxEpochs /\ epochs[atts[a].ep].st # "none"
    /\ \A m \in 1 .. MaxMsgs :
          IF msgs[m].st = "none" THEN msgs[m] = NoMsg
          ELSE msgs[m].at \in 1 .. MaxAtts /\ atts[msgs[m].at].st # "none"

\* One epoch is unretired, of the generation of an active thread, and only it holds a credential.
EpochsCurrent ==
    /\ \A e \in 1 .. MaxEpochs : epochs[e].st = "live" => thread.st = "active" /\ epochs[e].gen = thread.gen
    /\ \A e, f \in 1 .. MaxEpochs : epochs[e].st = "live" /\ epochs[f].st = "live" => e = f
    /\ \A e \in 1 .. MaxEpochs : epochs[e].cred => epochs[e].st = "live"
    /\ thread.st = "none" => \A e \in 1 .. MaxEpochs : epochs[e].st = "none"

\* An active Work is of the current generation and has an Attempt that runs or waits; a boundary is
\* open on an active Work only.
WorksCurrent ==
    \A w \in 1 .. MaxBound :
       /\ works[w].st = "active" =>
             /\ thread.st = "active" /\ works[w].gen = thread.gen
             /\ \E a \in 1 .. MaxAtts : atts[a].work = w /\ atts[a].st \in Running \cup {"waiting"}
       /\ works[w].bd # "none" => works[w].st = "active"

\* A running Attempt is on the unretired epoch, its Work has no open boundary, and of a Work's
\* Attempts only the latest has not ended.
AttsCurrent ==
    /\ \A a \in 1 .. MaxAtts :
          /\ atts[a].st \in Running \cup {"waiting"} => works[atts[a].work].st = "active"
          /\ atts[a].st \in Running => works[atts[a].work].bd = "none" /\ epochs[atts[a].ep].st = "live"
    /\ \A a, b \in 1 .. MaxAtts :
          a < b /\ atts[b].st # "none" /\ atts[a].work = atts[b].work => atts[a].st \in EndedStates

\* What may still be submitted: a ticket is good for a leased delivery on a busy current route.
MsgsCurrent ==
    \A m \in 1 .. MaxMsgs :
       /\ msgs[m].st = "queued" => thread.st = "active"
       /\ msgs[m].st = "leased" /\ epochs[AttOf(m).ep].st = "live" => AttOf(m).st \in Running
       /\ msgs[m].tk => msgs[m].st = "leased" /\ epochs[AttOf(m).ep].st = "live" /\ epochs[AttOf(m).ep].rt = "busy"

\* A running Attempt has one delivery whose outcome is not settled,
IsOpen(m) == msgs[m].st \in {"queued", "leased", "lapsed", "dispatched"}
OneOpen ==
    \A m, n \in 1 .. MaxMsgs :
       IsOpen(m) /\ IsOpen(n) /\ msgs[m].at = msgs[n].at /\ AttOf(m).st \in Running => m = n

\* a runtime serves one delivery at a time, and is then busy or lost,
Serving(m) == (msgs[m].tk \/ msgs[m].st = "dispatched") /\ epochs[AttOf(m).ep].st = "live"
OneServing ==
    /\ \A m \in 1 .. MaxMsgs : Serving(m) => epochs[AttOf(m).ep].rt \in {"busy", "missing"}
    /\ \A m, n \in 1 .. MaxMsgs : Serving(m) /\ Serving(n) /\ AttOf(m).ep = AttOf(n).ep => m = n

\* and a request that took effect has its idempotency record.
TookOnce == \A k \in Keys : took[k] <= 1 /\ (took[k] = 1 => k \in done)

\* The inductive invariant of a thread.
ThreadInv ==
    /\ ThreadTypeOK /\ ThreadRowsBound /\ EpochsCurrent /\ WorksCurrent /\ AttsCurrent /\ MsgsCurrent
    /\ OneOpen /\ OneServing /\ TookOnce

-----------------------------------------------------------------------------
\* The bounds of a run are numbers.
LEMMA ThreadNumbers ==
    MaxEpochs \in Nat \ {0} /\ MaxBound \in Nat /\ MaxAtts \in Nat /\ MaxMsgs \in Nat /\ MaxPurpose \in Nat \ {0}
BY ThreadAssumption DEF ThreadConstants

\* A table keeps its order when no row is inserted, whatever its rows become.
LEMMA RowsStay ==
    ASSUME NEW n, NEW t, NEW u, RowsNumbered(t, n), \A i \in 1 .. n : u[i].st = "none" <=> t[i].st = "none"
    PROVE  RowsNumbered(u, n)
BY DEF RowsNumbered

\* And when the first blank row is filled.
LEMMA RowInserted ==
    ASSUME NEW n \in Nat, NEW t, NEW u, NEW i \in 1 .. n, \A j \in 1 .. n : t[j].st = "none" <=> i <= j,
           \A j \in 1 .. n : u[j].st = "none" <=> (t[j].st = "none" /\ j # i)
    PROVE  RowsNumbered(u, n)
<1>1. \A j \in 1 .. n : u[j].st = "none" <=> j > i  OBVIOUS
<1>. QED  BY <1>1 DEF RowsNumbered

\* The next row of a table is the first blank one.
LEMMA NextUnusedRow ==
    ASSUME NEW n \in Nat, NEW R, NEW t \in [1 .. n -> R], RowsNumbered(t, n), Unused(t) # {}
    PROVE  /\ NextUnused(t) \in 1 .. n /\ t[NextUnused(t)].st = "none"
           /\ \A j \in 1 .. n : t[j].st = "none" <=> NextUnused(t) <= j
<1>1. PICK u \in 0 .. n : \A i \in 1 .. n : t[i].st = "none" <=> i > u  BY DEF RowsNumbered
<1>2. Unused(t) = {i \in 1 .. n : i > u}  BY <1>1 DEF Unused
<1>3. u + 1 \in 1 .. n  BY <1>2
<1>4. /\ u + 1 \in Unused(t)
      /\ \A i \in Unused(t) : u + 1 <= i /\ (i <= u + 1 => i = u + 1)
  BY <1>2, <1>3
<1>5. NextUnused(t) = u + 1  BY <1>4 DEF NextUnused
<1>. QED  BY <1>1, <1>3, <1>5

\* The running or waiting Attempt of an active Work is its latest, and the others ended: what
\* Continue and Replace read as the Work's Attempt.
LEMMA LatestAttempt ==
    ASSUME ThreadInv, NEW w \in 1 .. MaxBound, works[w].st = "active"
    PROVE  /\ Latest(w) \in 1 .. MaxAtts /\ atts[Latest(w)].work = w
           /\ atts[Latest(w)].st \in Running \cup {"waiting"}
           /\ \A b \in 1 .. MaxAtts : atts[b].work = w => b <= Latest(w) /\ (b # Latest(w) => atts[b].st \in EndedStates)
<1>1. PICK a \in 1 .. MaxAtts : atts[a].work = w /\ atts[a].st \in Running \cup {"waiting"}
  BY DEF ThreadInv, WorksCurrent
<1>2. \A b \in 1 .. MaxAtts : atts[b].work = w => atts[b].st # "none"
  BY DEF ThreadInv, ThreadRowsBound, NoPinned
<1>3. atts[a].st # "none" /\ atts[a].st \notin EndedStates  BY <1>1 DEF Running, EndedStates
<1>4. \A b \in 1 .. MaxAtts : atts[b].work = w => b <= a /\ (b # a => atts[b].st \in EndedStates)
  <2>1. \A b \in 1 .. MaxAtts : atts[b].work = w => ~(a < b)  BY <1>1, <1>2, <1>3 DEF ThreadInv, AttsCurrent
  <2>2. \A b \in 1 .. MaxAtts : atts[b].work = w /\ b < a => atts[b].st \in EndedStates
    BY <1>1, <1>3 DEF ThreadInv, AttsCurrent
  <2>. QED  BY <2>1, <2>2
<1>5. Latest(w) = a
  <2>1. \A c \in 1 .. MaxAtts : atts[c].work = w /\ (\A b \in 1 .. MaxAtts : atts[b].work = w => b <= c) => c = a
    BY <1>1, <1>4
  <2>. QED  BY <1>1, <1>4, <2>1 DEF Latest
<1>. QED  BY <1>1, <1>4, <1>5

\* A usable thread has one current epoch, of its own generation.
LEMMA CurrentEpoch ==
    ASSUME EpochsCurrent, ThreadUsable
    PROVE  /\ Current \in 1 .. MaxEpochs /\ epochs[Current].st = "live" /\ epochs[Current].gen = thread.gen
           /\ \A e \in 1 .. MaxEpochs : epochs[e].st = "live" => e = Current
<1>1. PICK e \in 1 .. MaxEpochs : epochs[e].st = "live"  BY DEF ThreadUsable, LiveEpochs
<1>2. Current \in LiveEpochs  BY <1>1 DEF Current, LiveEpochs
<1>. QED  BY <1>2 DEF EpochsCurrent, LiveEpochs

\* The Attempt of a delivery, and the epoch it is pinned to.
LEMMA DeliveryAttempt ==
    ASSUME ThreadTypeOK, ThreadRowsBound, NEW m \in 1 .. MaxMsgs, msgs[m].st # "none"
    PROVE  /\ msgs[m].at \in 1 .. MaxAtts /\ AttOf(m) = atts[msgs[m].at] /\ atts[msgs[m].at].st # "none"
           /\ atts[msgs[m].at].ep \in 1 .. MaxEpochs /\ epochs[atts[msgs[m].at].ep].st # "none"
           /\ atts[msgs[m].at].work \in 1 .. MaxBound /\ works[atts[msgs[m].at].work].st # "none"
<1>1. msgs[m].at \in 1 .. MaxAtts /\ atts[msgs[m].at].st # "none"  BY DEF ThreadRowsBound
<1>2. AttOf(m) = atts[msgs[m].at]  BY <1>1, ThreadNumbers DEF AttOf
<1>. QED  BY <1>1, <1>2 DEF ThreadRowsBound

\* A delivery of a blank row has no ticket and no Attempt.
LEMMA BlankDelivery ==
    ASSUME ThreadRowsBound, NEW m \in 1 .. MaxMsgs, msgs[m].st = "none"
    PROVE  msgs[m].at = 0 /\ ~msgs[m].tk /\ AttOf(m) = NoPinned
BY DEF ThreadRowsBound, NoMsg, AttOf

-----------------------------------------------------------------------------
\* Epochs that only change runtime or credential: no route begins or ends.
RoutesKept ==
    /\ epochs' \in [1 .. MaxEpochs -> EpochRows]
    /\ \A e \in 1 .. MaxEpochs :
          /\ epochs'[e].st = epochs[e].st /\ epochs'[e].gen = epochs[e].gen
          /\ epochs'[e].cred => epochs'[e].st = "live"
          /\ epochs[e].st = "none" => epochs'[e] = epochs[e]

\* One open delivery moves on and stays open.
DeliveryMoved(m) ==
    /\ msgs' \in [1 .. MaxMsgs -> AssignmentRows] /\ IsOpen(m)' /\ msgs'[m].at = msgs[m].at
    /\ \A n \in 1 .. MaxMsgs : n # m => msgs'[n] = msgs[n]

\* Steps of the lane that only move one delivery keep what does not depend on its ticket.
LEMMA LaneStep ==
    ASSUME ThreadInv, UNCHANGED <<thread, works, atts, effect, reqs, done, took>>, RoutesKept,
           NEW m \in 1 .. MaxMsgs, IsOpen(m), DeliveryMoved(m)
    PROVE  /\ ThreadTypeOK' /\ ThreadRowsBound' /\ EpochsCurrent' /\ WorksCurrent' /\ AttsCurrent'
           /\ OneOpen' /\ TookOnce'
           /\ \A n \in 1 .. MaxMsgs : AttOf(n)' = AttOf(n)
<1>. USE DEF ThreadInv
<1>3. /\ msgs' \in [1 .. MaxMsgs -> AssignmentRows] /\ IsOpen(m)' /\ msgs'[m].at = msgs[m].at
      /\ \A n \in 1 .. MaxMsgs : n # m => msgs'[n] = msgs[n]
  BY DEF DeliveryMoved
<1>4. \A n \in 1 .. MaxMsgs : AttOf(n)' = AttOf(n)  BY <1>3 DEF AttOf
<1>5. ThreadTypeOK'  BY <1>3 DEF ThreadTypeOK, RoutesKept
<1>6. ThreadRowsBound'
  <2>1. \A n \in 1 .. MaxMsgs : msgs'[n].st = "none" <=> msgs[n].st = "none"  BY <1>3 DEF IsOpen
  <2>2. RowsNumbered(msgs, MaxMsgs)' /\ RowsNumbered(epochs, MaxEpochs)'
    <3>1. RowsNumbered(msgs, MaxMsgs)'  BY <2>1 DEF ThreadRowsBound, RowsNumbered
    <3>2. RowsNumbered(epochs, MaxEpochs)'
      <4>1. \A e \in 1 .. MaxEpochs : epochs'[e].st = "none" <=> epochs[e].st = "none"  BY DEF RoutesKept
      <4>. QED  BY <4>1 DEF ThreadRowsBound, RowsNumbered
    <3>. QED  BY <3>1, <3>2
  <2>3. \A n \in 1 .. MaxMsgs : IF msgs'[n].st = "none" THEN msgs'[n] = NoMsg
                                ELSE msgs'[n].at \in 1 .. MaxAtts /\ atts[msgs'[n].at].st # "none"
    BY <1>3 DEF ThreadRowsBound, IsOpen
  <2>4. \A e \in 1 .. MaxEpochs : epochs'[e].st = "none" => epochs'[e] = NoEpoch
    BY DEF ThreadRowsBound, RoutesKept
  <2>5. \A a \in 1 .. MaxAtts : atts[a].st # "none" => epochs'[atts[a].ep].st # "none"
    BY DEF ThreadRowsBound, RoutesKept
  <2>. QED  BY <2>2, <2>3, <2>4, <2>5 DEF ThreadRowsBound
<1>7. EpochsCurrent'  BY DEF EpochsCurrent, RoutesKept
<1>8. WorksCurrent'  BY DEF WorksCurrent
<1>9. AttsCurrent'
  <2>1. \A a \in 1 .. MaxAtts : atts[a].st \in Running => atts[a].ep \in 1 .. MaxEpochs
    BY DEF ThreadRowsBound, Running
  <2>. QED  BY <2>1 DEF AttsCurrent, RoutesKept
<1>10. OneOpen'
  <2>1. \A n \in 1 .. MaxMsgs : IsOpen(n)' => IsOpen(n)  BY <1>3 DEF IsOpen
  <2>2. \A n \in 1 .. MaxMsgs : msgs'[n].at = msgs[n].at  BY <1>3
  <2>. QED  BY <1>4, <2>1, <2>2 DEF OneOpen
<1>11. TookOnce'  BY DEF TookOnce
<1>. QED  BY <1>3, <1>4, <1>5, <1>6, <1>7, <1>8, <1>9, <1>10, <1>11

\* A lease is taken on the current route only, of a running Attempt.
LEMMA LeaseKeepsInv ==
    ASSUME ThreadInv, NEW m \in 1 .. MaxMsgs, Lease(m)
    PROVE  ThreadInv'
<1>. USE DEF ThreadInv
<1>1. msgs \in [1 .. MaxMsgs -> AssignmentRows]  BY DEF ThreadTypeOK
<1>2. msgs[m].st = "queued" /\ ~msgs[m].tk /\ IsOpen(m)  BY DEF Lease, MsgsCurrent, IsOpen
<1>3. DeliveryMoved(m) /\ msgs'[m].st = "leased" /\ ~msgs'[m].tk
  BY <1>1, <1>2 DEF Lease, AssignmentRows, DeliveryMoved, IsOpen
<1>4. RoutesKept /\ epochs' = epochs  BY DEF Lease, RoutesKept, ThreadTypeOK, EpochsCurrent
<1>5. /\ ThreadTypeOK' /\ ThreadRowsBound' /\ EpochsCurrent' /\ WorksCurrent' /\ AttsCurrent'
      /\ OneOpen' /\ TookOnce'
      /\ \A n \in 1 .. MaxMsgs : AttOf(n)' = AttOf(n)
  BY <1>2, <1>3, <1>4, LaneStep DEF Lease
<1>m. \A n \in 1 .. MaxMsgs : n # m => msgs'[n] = msgs[n]  BY <1>3 DEF DeliveryMoved
<1>6. MsgsCurrent'  BY <1>3, <1>m, <1>4, <1>5 DEF Lease, MsgsCurrent
<1>7. OneServing'
  <2>1. \A n \in 1 .. MaxMsgs : Serving(n)' => Serving(n)  BY <1>3, <1>m, <1>4, <1>5 DEF Serving
  <2>. QED  BY <1>3, <1>m, <1>4, <1>5, <2>1 DEF OneServing
<1>. QED  BY <1>5, <1>6, <1>7

\* A lapsed delivery is queued again for its Attempt that still runs.
LEMMA RequeueKeepsInv ==
    ASSUME ThreadInv, NEW m \in 1 .. MaxMsgs, Requeue(m)
    PROVE  ThreadInv'
<1>. USE DEF ThreadInv
<1>1. msgs \in [1 .. MaxMsgs -> AssignmentRows]  BY DEF ThreadTypeOK
<1>2. msgs[m].st = "lapsed" /\ ~msgs[m].tk /\ IsOpen(m)  BY DEF Requeue, MsgsCurrent, IsOpen
<1>3. DeliveryMoved(m) /\ msgs'[m].st = "queued" /\ ~msgs'[m].tk
  BY <1>1, <1>2 DEF Requeue, AssignmentRows, DeliveryMoved, IsOpen
<1>4. RoutesKept /\ epochs' = epochs  BY DEF Requeue, RoutesKept, ThreadTypeOK, EpochsCurrent
<1>5. /\ ThreadTypeOK' /\ ThreadRowsBound' /\ EpochsCurrent' /\ WorksCurrent' /\ AttsCurrent'
      /\ OneOpen' /\ TookOnce'
      /\ \A n \in 1 .. MaxMsgs : AttOf(n)' = AttOf(n)
  BY <1>2, <1>3, <1>4, LaneStep DEF Requeue
<1>m. \A n \in 1 .. MaxMsgs : n # m => msgs'[n] = msgs[n]  BY <1>3 DEF DeliveryMoved
<1>6. MsgsCurrent'
  <2>1. AttOf(m) = atts[msgs[m].at] /\ msgs[m].at \in 1 .. MaxAtts /\ atts[msgs[m].at].work \in 1 .. MaxBound
    BY <1>2, DeliveryAttempt
  <2>2. thread'.st = "active"  BY <2>1 DEF Requeue, AttsCurrent, WorksCurrent
  <2>. QED  BY <1>3, <1>m, <1>4, <1>5, <2>2 DEF MsgsCurrent
<1>7. OneServing'
  <2>1. \A n \in 1 .. MaxMsgs : Serving(n)' => Serving(n)  BY <1>3, <1>m, <1>4, <1>5 DEF Serving
  <2>. QED  BY <1>3, <1>m, <1>4, <1>5, <2>1 DEF OneServing
<1>. QED  BY <1>5, <1>6, <1>7

\* A launch ticket is issued to a runtime that serves nothing, for a delivery still leased on its
\* route, and makes it busy.
LEMMA TicketKeepsInv ==
    ASSUME ThreadInv, NEW m \in 1 .. MaxMsgs, IssueLaunchTicket(m)
    PROVE  ThreadInv'
<1>. USE DEF ThreadInv
<1>. DEFINE e == AttOf(m).ep
<1>1. msgs \in [1 .. MaxMsgs -> AssignmentRows] /\ epochs \in [1 .. MaxEpochs -> EpochRows]  BY DEF ThreadTypeOK
<1>2. msgs[m].st = "leased" /\ IsOpen(m) /\ e \in 1 .. MaxEpochs
  <2>1. msgs[m].st = "leased"  BY DEF IssueLaunchTicket
  <2>. QED  BY <2>1, DeliveryAttempt DEF IsOpen
<1>3. DeliveryMoved(m) /\ msgs'[m].st = "leased" /\ msgs'[m].tk
  BY <1>1, <1>2 DEF IssueLaunchTicket, AssignmentRows, DeliveryMoved, IsOpen
<1>4. /\ epochs[e].st = "live" /\ epochs[e].rt \notin {"busy", "missing"}
      /\ epochs' = [epochs EXCEPT ![e].rt = "busy"]
  BY DEF IssueLaunchTicket
<1>. HIDE DEF e
<1>5. RoutesKept /\ epochs'[e].rt = "busy" /\ \A f \in 1 .. MaxEpochs : f # e => epochs'[f] = epochs[f]
  BY <1>1, <1>2, <1>4 DEF RoutesKept, EpochRows, EpochsCurrent
<1>6. /\ ThreadTypeOK' /\ ThreadRowsBound' /\ EpochsCurrent' /\ WorksCurrent' /\ AttsCurrent'
      /\ OneOpen' /\ TookOnce'
      /\ \A n \in 1 .. MaxMsgs : AttOf(n)' = AttOf(n)
  BY <1>2, <1>3, <1>5, LaneStep DEF IssueLaunchTicket
<1>m. \A n \in 1 .. MaxMsgs : n # m => msgs'[n] = msgs[n]  BY <1>3 DEF DeliveryMoved
<1>7. \A n \in 1 .. MaxMsgs : msgs[n].st # "none" => AttOf(n).ep \in 1 .. MaxEpochs  BY DeliveryAttempt
<1>8. AttOf(m).ep = e  BY DEF e
<1>9. MsgsCurrent'
  <2>1. \A n \in 1 .. MaxMsgs : msgs'[n].st = "leased" /\ epochs'[AttOf(n).ep].st = "live" => AttOf(n).st \in Running
    BY <1>2, <1>5, <1>6, <1>3, <1>m, <1>7 DEF MsgsCurrent, RoutesKept
  <2>2. \A n \in 1 .. MaxMsgs : msgs'[n].tk => /\ msgs'[n].st = "leased" /\ epochs'[AttOf(n).ep].st = "live"
                                               /\ epochs'[AttOf(n).ep].rt = "busy"
    BY <1>2, <1>4, <1>5, <1>6, <1>3, <1>m, <1>7, <1>8 DEF MsgsCurrent, RoutesKept
  <2>3. \A n \in 1 .. MaxMsgs : msgs'[n].st = "queued" => thread'.st = "active"
    BY <1>6, <1>3, <1>m DEF MsgsCurrent, IssueLaunchTicket
  <2>. QED  BY <1>6, <1>3, <1>m, <2>1, <2>2, <2>3 DEF MsgsCurrent
<1>10. OneServing'
  <2>1. \A n \in 1 .. MaxMsgs : Serving(n) => AttOf(n).ep # e  BY <1>4 DEF OneServing
  <2>2. \A n \in 1 .. MaxMsgs : Serving(n) => AttOf(n).ep \in 1 .. MaxEpochs  BY <1>7, BlankDelivery DEF Serving
  <2>3. \A n \in 1 .. MaxMsgs : n # m /\ Serving(n)' => Serving(n)
    <3>. SUFFICES ASSUME NEW n \in 1 .. MaxMsgs, n # m, Serving(n)'  PROVE  Serving(n)
      OBVIOUS
    <3>1. msgs[n].st # "none"  BY <1>6, <1>3, <1>m, BlankDelivery DEF Serving
    <3>. QED  BY <1>5, <1>6, <1>3, <1>m, <1>7, <3>1 DEF Serving, RoutesKept
  <2>4. \A n \in 1 .. MaxMsgs : Serving(n)' => epochs'[AttOf(n).ep].rt \in {"busy", "missing"}
    BY <1>5, <1>8, <2>1, <2>2, <2>3 DEF OneServing
  <2>5. \A n, l \in 1 .. MaxMsgs : Serving(n)' /\ Serving(l)' /\ AttOf(n).ep = AttOf(l).ep => n = l
    BY <1>8, <2>1, <2>3 DEF OneServing
  <2>. QED  BY <1>6, <1>3, <1>m, <2>4, <2>5 DEF OneServing
<1>. QED  BY <1>6, <1>9, <1>10

\* The job that holds the ticket submits: its delivery goes on being the one the runtime serves.
LEMMA SubmitKeepsInv ==
    ASSUME ThreadInv, NEW m \in 1 .. MaxMsgs, SubmitAssignment(m)
    PROVE  ThreadInv'
<1>. USE DEF ThreadInv
<1>. DEFINE e == AttOf(m).ep
<1>1. msgs \in [1 .. MaxMsgs -> AssignmentRows] /\ epochs \in [1 .. MaxEpochs -> EpochRows]  BY DEF ThreadTypeOK
<1>2. msgs[m].st = "leased" /\ msgs[m].tk /\ IsOpen(m) /\ e \in 1 .. MaxEpochs /\ epochs[e].st = "live"
  <2>1. msgs[m].st = "leased" /\ msgs[m].tk  BY DEF SubmitAssignment
  <2>. QED  BY <2>1, DeliveryAttempt DEF IsOpen, MsgsCurrent
<1>3. DeliveryMoved(m) /\ msgs'[m].st = "dispatched" /\ ~msgs'[m].tk
  BY <1>1, <1>2 DEF SubmitAssignment, AssignmentRows, DeliveryMoved, IsOpen, Unknown
<1>4. epochs' = [epochs EXCEPT ![e].cred = TRUE]  BY DEF SubmitAssignment
<1>. HIDE DEF e
<1>5. RoutesKept /\ \A f \in 1 .. MaxEpochs : epochs'[f].rt = epochs[f].rt
  <2>1. epochs' \in [1 .. MaxEpochs -> EpochRows]  BY <1>1, <1>2, <1>4 DEF EpochRows
  <2>2. /\ epochs'[e].st = epochs[e].st /\ epochs'[e].gen = epochs[e].gen /\ epochs'[e].rt = epochs[e].rt
        /\ \A f \in 1 .. MaxEpochs : f # e => epochs'[f] = epochs[f]
    BY <1>1, <1>2, <1>4 DEF EpochRows
  <2>3. \A f \in 1 .. MaxEpochs : epochs[f].cred => epochs[f].st = "live"  BY DEF EpochsCurrent
  <2>. QED  BY <1>2, <2>1, <2>2, <2>3 DEF RoutesKept
<1>6. /\ ThreadTypeOK' /\ ThreadRowsBound' /\ EpochsCurrent' /\ WorksCurrent' /\ AttsCurrent'
      /\ OneOpen' /\ TookOnce'
      /\ \A n \in 1 .. MaxMsgs : AttOf(n)' = AttOf(n)
  BY <1>2, <1>3, <1>5, LaneStep DEF SubmitAssignment
<1>7. \A n \in 1 .. MaxMsgs : n # m => msgs'[n] = msgs[n]  BY <1>3 DEF DeliveryMoved
<1>8. \A n \in 1 .. MaxMsgs : msgs[n].st # "none" => AttOf(n).ep \in 1 .. MaxEpochs  BY DeliveryAttempt
<1>9. MsgsCurrent'
  <2>1. \A n \in 1 .. MaxMsgs : msgs'[n].st = "leased" /\ epochs'[AttOf(n).ep].st = "live" => AttOf(n).st \in Running
    BY <1>2, <1>3, <1>5, <1>7, <1>8 DEF MsgsCurrent, RoutesKept
  <2>2. \A n \in 1 .. MaxMsgs : msgs'[n].tk => /\ msgs'[n].st = "leased" /\ epochs'[AttOf(n).ep].st = "live"
                                               /\ epochs'[AttOf(n).ep].rt = "busy"
    BY <1>3, <1>5, <1>7, <1>8 DEF MsgsCurrent, RoutesKept
  <2>3. \A n \in 1 .. MaxMsgs : msgs'[n].st = "queued" => thread'.st = "active"
    <3>1. \A n \in 1 .. MaxMsgs : msgs[n].st = "queued" => thread.st = "active"  BY DEF MsgsCurrent
    <3>2. thread' = thread  BY DEF SubmitAssignment
    <3>. QED  BY <1>3, <1>7, <3>1, <3>2
  <2>. QED  BY <1>6, <2>1, <2>2, <2>3 DEF MsgsCurrent
<1>10. OneServing'
  <2>1. Serving(m) /\ AttOf(m).ep = e  BY <1>2 DEF Serving, e
  <2>2. \A n \in 1 .. MaxMsgs : Serving(n)' => Serving(n)
    <3>. SUFFICES ASSUME NEW n \in 1 .. MaxMsgs, n # m, Serving(n)'  PROVE  Serving(n)
      BY <2>1
    <3>1. msgs[n].st # "none"  BY <1>6, <1>7, BlankDelivery DEF Serving
    <3>. QED  BY <1>5, <1>6, <1>7, <1>8, <3>1 DEF Serving, RoutesKept
  <2>3. \A n \in 1 .. MaxMsgs : Serving(n) => AttOf(n).ep \in 1 .. MaxEpochs  BY <1>8, BlankDelivery DEF Serving
  <2>4. \A n \in 1 .. MaxMsgs : Serving(n)' => epochs'[AttOf(n).ep].rt \in {"busy", "missing"}
    BY <1>5, <2>2, <2>3 DEF OneServing
  <2>. QED  BY <1>6, <2>2, <2>4 DEF OneServing
<1>. QED  BY <1>6, <1>9, <1>10

\* A job that ends before it submits frees the runtime only when it held its ticket, and then no
\* other delivery is served by it.
LEMMA LapseKeepsInv ==
    ASSUME ThreadInv, NEW m \in 1 .. MaxMsgs, DeliveryLapses(m)
    PROVE  ThreadInv'
<1>. USE DEF ThreadInv
<1>. DEFINE e == AttOf(m).ep
<1>1. msgs \in [1 .. MaxMsgs -> AssignmentRows] /\ epochs \in [1 .. MaxEpochs -> EpochRows]  BY DEF ThreadTypeOK
<1>2. msgs[m].st = "leased" /\ IsOpen(m) /\ e \in 1 .. MaxEpochs
  <2>1. msgs[m].st = "leased"  BY DEF DeliveryLapses
  <2>. QED  BY <2>1, DeliveryAttempt DEF IsOpen
<1>3. DeliveryMoved(m) /\ msgs'[m].st = "lapsed" /\ ~msgs'[m].tk
  BY <1>1, <1>2 DEF DeliveryLapses, AssignmentRows, DeliveryMoved, IsOpen
<1>4. \/ msgs[m].tk /\ epochs' = [epochs EXCEPT ![e].rt = "waiting"]
      \/ ~msgs[m].tk /\ epochs' = epochs
  BY DEF DeliveryLapses
<1>5. AttOf(m).ep = e  OBVIOUS
<1>. HIDE DEF e
<1>6. RoutesKept /\ \A f \in 1 .. MaxEpochs : epochs'[f].rt = epochs[f].rt \/ (f = e /\ msgs[m].tk)
  <2>1. CASE msgs[m].tk /\ epochs' = [epochs EXCEPT ![e].rt = "waiting"]
    <3>1. epochs[e].st = "live"  BY <2>1, <1>5 DEF MsgsCurrent
    <3>. QED  BY <1>1, <1>2, <2>1, <3>1 DEF RoutesKept, EpochRows, EpochsCurrent
  <2>2. CASE epochs' = epochs
    <3>1. \A f \in 1 .. MaxEpochs : epochs[f].cred => epochs[f].st = "live"  BY DEF EpochsCurrent
    <3>. QED  BY <1>1, <2>2, <3>1 DEF RoutesKept
  <2>. QED  BY <1>4, <2>1, <2>2
<1>7. /\ ThreadTypeOK' /\ ThreadRowsBound' /\ EpochsCurrent' /\ WorksCurrent' /\ AttsCurrent'
      /\ OneOpen' /\ TookOnce'
      /\ \A n \in 1 .. MaxMsgs : AttOf(n)' = AttOf(n)
  BY <1>2, <1>3, <1>6, LaneStep DEF DeliveryLapses
<1>8. \A n \in 1 .. MaxMsgs : n # m => msgs'[n] = msgs[n]  BY <1>3 DEF DeliveryMoved
<1>9. \A n \in 1 .. MaxMsgs : msgs[n].st # "none" => AttOf(n).ep \in 1 .. MaxEpochs  BY DeliveryAttempt
<1>10. \A n \in 1 .. MaxMsgs : Serving(n) => AttOf(n).ep \in 1 .. MaxEpochs  BY <1>9, BlankDelivery DEF Serving
<1>11. \A n \in 1 .. MaxMsgs : Serving(n)' => Serving(n) /\ n # m
  <2>. SUFFICES ASSUME NEW n \in 1 .. MaxMsgs, Serving(n)'  PROVE  Serving(n) /\ n # m
    OBVIOUS
  <2>1. n # m  BY <1>3 DEF Serving
  <2>2. msgs[n].st # "none"  BY <1>7, <1>8, <2>1, BlankDelivery DEF Serving
  <2>. QED  BY <1>6, <1>7, <1>8, <1>9, <2>1, <2>2 DEF Serving, RoutesKept
<1>12. \A n \in 1 .. MaxMsgs : Serving(n)' => epochs'[AttOf(n).ep].rt = epochs[AttOf(n).ep].rt
  <2>. SUFFICES ASSUME NEW n \in 1 .. MaxMsgs, Serving(n)', AttOf(n).ep = e, msgs[m].tk  PROVE  FALSE
    BY <1>6, <1>10, <1>11
  <2>1. Serving(m)  BY <1>5 DEF MsgsCurrent, Serving
  <2>. QED  BY <2>1, <1>5, <1>11 DEF OneServing
<1>13. MsgsCurrent'
  <2>1. \A n \in 1 .. MaxMsgs : msgs'[n].st = "leased" /\ epochs'[AttOf(n).ep].st = "live" => AttOf(n).st \in Running
    BY <1>3, <1>6, <1>8, <1>9 DEF MsgsCurrent, RoutesKept
  <2>2. \A n \in 1 .. MaxMsgs : msgs'[n].tk => Serving(n)'
    BY <1>3, <1>6, <1>7, <1>8, <1>9 DEF MsgsCurrent, RoutesKept, Serving
  <2>3. \A n \in 1 .. MaxMsgs : msgs'[n].tk => /\ msgs'[n].st = "leased" /\ epochs'[AttOf(n).ep].st = "live"
                                               /\ epochs'[AttOf(n).ep].rt = "busy"
    BY <1>3, <1>6, <1>8, <1>9, <1>12, <2>2 DEF MsgsCurrent, RoutesKept
  <2>4. \A n \in 1 .. MaxMsgs : msgs'[n].st = "queued" => thread'.st = "active"
    BY <1>3, <1>8 DEF MsgsCurrent, DeliveryLapses
  <2>. QED  BY <1>7, <2>1, <2>3, <2>4 DEF MsgsCurrent
<1>14. OneServing'
  <2>1. \A n \in 1 .. MaxMsgs : Serving(n)' => epochs'[AttOf(n).ep].rt \in {"busy", "missing"}
    BY <1>11, <1>12 DEF OneServing
  <2>. QED  BY <1>7, <1>11, <2>1 DEF OneServing
<1>. QED  BY <1>7, <1>13, <1>14

\* The turn of delivery m ends, with its Attempt completed or waiting behind a boundary.
TurnOver(m, a, w, e) ==
    /\ a = msgs[m].at /\ w = atts[a].work /\ e = atts[a].ep
    /\ msgs[m].st = "dispatched" /\ epochs[e].st = "live" /\ atts[a].st \in Running
    /\ \A f \in 1 .. MaxEpochs : f # e => epochs'[f] = epochs[f]
    /\ \A b \in 1 .. MaxAtts : /\ atts'[b].work = atts[b].work /\ atts'[b].ep = atts[b].ep
                               /\ b # a => atts'[b] = atts[b]
    /\ \A v \in 1 .. MaxBound : works'[v].gen = works[v].gen /\ (v # w => works'[v] = works[v])
    /\ \/ atts'[a].st = "completed" /\ works'[w].st = "completed" /\ works'[w].bd = works[w].bd
       \/ atts'[a].st = "waiting" /\ works'[w].st = works[w].st /\ works'[w].bd # "none"
    /\ \A n \in 1 .. MaxMsgs : msgs'[n].at = msgs[n].at /\ msgs'[n].tk = msgs[n].tk /\ (n # m => msgs'[n] = msgs[n])
    /\ \/ msgs'[m].st = "delivered"
       \/ msgs'[m].st = "dispatched" /\ epochs'[e].rt = "missing"

\* No other Attempt of its Work runs or waits, and no other delivery is open for its Attempt or
\* served by its runtime, so nothing is left behind.
LEMMA TurnOverKeepsInv ==
    ASSUME ThreadInv, UNCHANGED <<thread, effect, reqs, done, took>>, RoutesKept, ThreadTypeOK',
           NEW m \in 1 .. MaxMsgs, NEW a, NEW w, NEW e, TurnOver(m, a, w, e)
    PROVE  ThreadInv'
<1>. USE DEF ThreadInv
<1>1. /\ a \in 1 .. MaxAtts /\ w \in 1 .. MaxBound /\ e \in 1 .. MaxEpochs /\ AttOf(m) = atts[a]
      /\ a = msgs[m].at /\ w = atts[a].work /\ e = atts[a].ep /\ atts[a].st \in Running
      /\ msgs[m].st = "dispatched" /\ epochs[e].st = "live"
  <2>1. msgs[m].st # "none"  BY DEF TurnOver
  <2>. QED  BY <2>1, DeliveryAttempt DEF TurnOver
<1>a. \A b \in 1 .. MaxAtts : /\ atts'[b].work = atts[b].work /\ atts'[b].ep = atts[b].ep
                              /\ b # a => atts'[b] = atts[b]
  BY DEF TurnOver
<1>q. \A n \in 1 .. MaxMsgs : msgs'[n].at = msgs[n].at /\ msgs'[n].tk = msgs[n].tk /\ (n # m => msgs'[n] = msgs[n])
  BY DEF TurnOver
<1>e. /\ \A f \in 1 .. MaxEpochs : f # e => epochs'[f] = epochs[f]
      /\ \A f \in 1 .. MaxEpochs : epochs'[f].st = epochs[f].st
  BY DEF TurnOver, RoutesKept
<1>2. works[w].st = "active" /\ works[w].bd = "none"  BY <1>1 DEF AttsCurrent
<1>3. \A b \in 1 .. MaxAtts : b # a /\ atts[b].work = w => atts[b].st \in EndedStates
  <2>1. \A b \in 1 .. MaxAtts : b # Latest(w) /\ atts[b].work = w => atts[b].st \in EndedStates
    BY <1>1, <1>2, LatestAttempt
  <2>2. a = Latest(w)  BY <1>1, <2>1 DEF Running, EndedStates
  <2>. QED  BY <2>1, <2>2
<1>4. \A b \in 1 .. MaxAtts : /\ atts'[b].st = "none" <=> atts[b].st = "none"
                              /\ atts'[b].st = "none" => atts'[b] = atts[b]
  BY <1>1 DEF TurnOver, Running
<1>5. \A v \in 1 .. MaxBound : /\ works'[v].st = "none" <=> works[v].st = "none"
                               /\ works'[v].st = "none" => works'[v] = works[v]
  BY <1>2 DEF TurnOver
<1>6. \A n \in 1 .. MaxMsgs : /\ msgs'[n].st = "none" <=> msgs[n].st = "none"
                              /\ msgs'[n].st = "none" => msgs'[n] = msgs[n]
  BY DEF TurnOver
<1>7. ThreadRowsBound'
  <2>1. /\ RowsNumbered(epochs, MaxEpochs)' /\ RowsNumbered(works, MaxBound)'
    <3>1. RowsNumbered(epochs, MaxEpochs)'
      <4>1. \A f \in 1 .. MaxEpochs : epochs'[f].st = "none" <=> epochs[f].st = "none"  BY DEF RoutesKept
      <4>. QED  BY <4>1 DEF ThreadRowsBound, RowsNumbered
    <3>2. RowsNumbered(works, MaxBound)'  BY <1>5 DEF ThreadRowsBound, RowsNumbered
    <3>. QED  BY <3>1, <3>2
  <2>2. RowsNumbered(atts, MaxAtts)' /\ RowsNumbered(msgs, MaxMsgs)'
    <3>1. RowsNumbered(atts, MaxAtts)'  BY <1>4 DEF ThreadRowsBound, RowsNumbered
    <3>2. RowsNumbered(msgs, MaxMsgs)'  BY <1>6 DEF ThreadRowsBound, RowsNumbered
    <3>. QED  BY <3>1, <3>2
  <2>3. \A f \in 1 .. MaxEpochs : epochs'[f].st = "none" => epochs'[f] = NoEpoch
    BY DEF ThreadRowsBound, RoutesKept
  <2>4. \A v \in 1 .. MaxBound : works'[v].st = "none" => works'[v] = NoBound  BY <1>5 DEF ThreadRowsBound
  <2>5. \A b \in 1 .. MaxAtts :
          IF atts'[b].st = "none" THEN atts'[b] = NoPinned
          ELSE /\ atts'[b].work \in 1 .. MaxBound /\ works'[atts'[b].work].st # "none"
               /\ atts'[b].ep \in 1 .. MaxEpochs /\ epochs'[atts'[b].ep].st # "none"
    <3>. SUFFICES ASSUME NEW b \in 1 .. MaxAtts, atts'[b].st # "none"
                  PROVE  /\ atts'[b].work \in 1 .. MaxBound /\ works'[atts'[b].work].st # "none"
                         /\ atts'[b].ep \in 1 .. MaxEpochs /\ epochs'[atts'[b].ep].st # "none"
      BY <1>4 DEF ThreadRowsBound
    <3>1. atts[b].st # "none"  BY <1>4
    <3>2. /\ atts[b].work \in 1 .. MaxBound /\ works[atts[b].work].st # "none"
          /\ atts[b].ep \in 1 .. MaxEpochs /\ epochs[atts[b].ep].st # "none"
      BY <3>1 DEF ThreadRowsBound
    <3>. QED  BY <1>a, <1>e, <1>5, <3>2
  <2>6. \A n \in 1 .. MaxMsgs : IF msgs'[n].st = "none" THEN msgs'[n] = NoMsg
                                ELSE msgs'[n].at \in 1 .. MaxAtts /\ atts'[msgs'[n].at].st # "none"
    <3>1. \A n \in 1 .. MaxMsgs : IF msgs[n].st = "none" THEN msgs[n] = NoMsg
                                  ELSE msgs[n].at \in 1 .. MaxAtts /\ atts[msgs[n].at].st # "none"
      BY DEF ThreadRowsBound
    <3>. QED  BY <1>4, <1>6, <1>q, <3>1
  <2>. QED  BY <2>1, <2>2, <2>3, <2>4, <2>5, <2>6 DEF ThreadRowsBound
<1>8. EpochsCurrent'  BY DEF EpochsCurrent, RoutesKept
<1>9. \A n \in 1 .. MaxMsgs : msgs[n].st # "none" =>
         /\ msgs[n].at \in 1 .. MaxAtts /\ AttOf(n) = atts[msgs[n].at] /\ AttOf(n)' = atts'[msgs[n].at]
         /\ AttOf(n).ep \in 1 .. MaxEpochs /\ AttOf(n)'.ep = AttOf(n).ep
  <2>. SUFFICES ASSUME NEW n \in 1 .. MaxMsgs, msgs[n].st # "none"
                PROVE  /\ msgs[n].at \in 1 .. MaxAtts /\ AttOf(n) = atts[msgs[n].at] /\ AttOf(n)' = atts'[msgs[n].at]
                       /\ AttOf(n).ep \in 1 .. MaxEpochs /\ AttOf(n)'.ep = AttOf(n).ep
    OBVIOUS
  <2>1. msgs[n].at \in 1 .. MaxAtts /\ AttOf(n) = atts[msgs[n].at] /\ AttOf(n).ep \in 1 .. MaxEpochs
    BY DeliveryAttempt
  <2>2. msgs'[n].at = msgs[n].at /\ msgs[n].at # 0  BY <1>q, <2>1, ThreadNumbers
  <2>3. AttOf(n)' = atts'[msgs[n].at]  BY <2>2 DEF AttOf
  <2>. QED  BY <1>a, <2>1, <2>3
<1>10. Serving(m) /\ \A n \in 1 .. MaxMsgs : Serving(n) /\ AttOf(n).ep = e => n = m
  BY <1>1 DEF Serving, OneServing
<1>11. WorksCurrent'
  <2>. SUFFICES ASSUME NEW v \in 1 .. MaxBound
                PROVE  /\ works'[v].st = "active" =>
                             /\ thread'.st = "active" /\ works'[v].gen = thread'.gen
                             /\ \E b \in 1 .. MaxAtts : atts'[b].work = v /\ atts'[b].st \in Running \cup {"waiting"}
                       /\ works'[v].bd # "none" => works'[v].st = "active"
    BY DEF WorksCurrent
  <2>1. CASE v = w
    <3>1. CASE atts'[a].st = "completed" /\ works'[w].st = "completed" /\ works'[w].bd = works[w].bd
      BY <1>2, <2>1, <3>1
    <3>2. CASE atts'[a].st = "waiting" /\ works'[w].st = works[w].st /\ works'[w].bd # "none"
      BY <1>1, <1>2, <2>1, <3>2 DEF WorksCurrent, TurnOver
    <3>. QED  BY <3>1, <3>2 DEF TurnOver
  <2>2. CASE v # w
    <3>1. works'[v] = works[v]  BY <2>2 DEF TurnOver
    <3>2. \A b \in 1 .. MaxAtts : atts[b].work = v => atts'[b] = atts[b]  BY <1>1, <2>2 DEF TurnOver
    <3>. QED  BY <3>1, <3>2 DEF WorksCurrent
  <2>. QED  BY <2>1, <2>2
<1>12. AttsCurrent'
  <2>1. atts'[a].st \notin Running /\ (atts'[a].st = "waiting" => works'[w].st = "active")
    BY <1>2 DEF TurnOver, Running
  <2>2. \A b \in 1 .. MaxAtts : b # a /\ atts[b].st \in Running \cup {"waiting"} => atts[b].work # w
    BY <1>3 DEF Running, EndedStates
  <2>3. \A b \in 1 .. MaxAtts : atts[b].st \in Running \cup {"waiting"} =>
           atts[b].work \in 1 .. MaxBound /\ atts[b].ep \in 1 .. MaxEpochs
    BY DEF ThreadRowsBound, Running
  <2>4. \A b \in 1 .. MaxAtts : atts'[b].st \in Running \cup {"waiting"} => works'[atts'[b].work].st = "active"
    <3>. SUFFICES ASSUME NEW b \in 1 .. MaxAtts, b # a, atts'[b].st \in Running \cup {"waiting"}
                  PROVE  works'[atts'[b].work].st = "active"
      BY <1>1, <1>a, <2>1
    <3>1. atts'[b] = atts[b] /\ atts[b].st \in Running \cup {"waiting"}  BY <1>a
    <3>2. atts[b].work # w /\ atts[b].work \in 1 .. MaxBound  BY <2>2, <2>3, <3>1
    <3>3. works'[atts[b].work] = works[atts[b].work]  BY <3>2 DEF TurnOver
    <3>. QED  BY <3>1, <3>3 DEF AttsCurrent
  <2>5. \A b \in 1 .. MaxAtts : atts'[b].st \in Running => /\ works'[atts'[b].work].bd = "none"
                                                           /\ epochs'[atts'[b].ep].st = "live"
    <3>. SUFFICES ASSUME NEW b \in 1 .. MaxAtts, atts'[b].st \in Running
                  PROVE  works'[atts'[b].work].bd = "none" /\ epochs'[atts'[b].ep].st = "live"
      OBVIOUS
    <3>1. b # a /\ atts'[b] = atts[b]  BY <2>1 DEF TurnOver
    <3>2. atts[b].st \in Running /\ atts[b].work # w  BY <2>2, <3>1
    <3>3. atts[b].work \in 1 .. MaxBound /\ atts[b].ep \in 1 .. MaxEpochs  BY <2>3, <3>2
    <3>4. works'[atts[b].work] = works[atts[b].work]  BY <3>2, <3>3 DEF TurnOver
    <3>. QED  BY <3>1, <3>2, <3>3, <3>4 DEF AttsCurrent, RoutesKept
  <2>6. \A b, c \in 1 .. MaxAtts :
          b < c /\ atts'[c].st # "none" /\ atts'[b].work = atts'[c].work => atts'[b].st \in EndedStates
    <3>. SUFFICES ASSUME NEW b \in 1 .. MaxAtts, NEW c \in 1 .. MaxAtts,
                         b < c, atts'[c].st # "none", atts'[b].work = atts'[c].work
                  PROVE  atts'[b].st \in EndedStates
      OBVIOUS
    <3>1. atts[b].st \in EndedStates
      <4>1. atts[c].st # "none" /\ atts[b].work = atts[c].work  BY <1>4, <1>a
      <4>. QED  BY <4>1 DEF AttsCurrent
    <3>2. b # a  BY <1>1, <3>1 DEF Running, EndedStates
    <3>. QED  BY <3>1, <3>2 DEF TurnOver
  <2>. QED  BY <2>4, <2>5, <2>6 DEF AttsCurrent
<1>13. \A n \in 1 .. MaxMsgs : n # m /\ IsOpen(n) => msgs[n].at # a
  BY <1>1 DEF OneOpen, IsOpen
<1>14. MsgsCurrent'
  <2>. SUFFICES ASSUME NEW n \in 1 .. MaxMsgs
                PROVE  /\ msgs'[n].st = "queued" => thread'.st = "active"
                       /\ msgs'[n].st = "leased" /\ epochs'[AttOf(n)'.ep].st = "live" => AttOf(n)'.st \in Running
                       /\ msgs'[n].tk => /\ msgs'[n].st = "leased" /\ epochs'[AttOf(n)'.ep].st = "live"
                                         /\ epochs'[AttOf(n)'.ep].rt = "busy"
    BY DEF MsgsCurrent
  <2>1. CASE n = m
    <3>1. ~msgs[m].tk  BY <1>1 DEF MsgsCurrent
    <3>. QED  BY <2>1, <3>1 DEF TurnOver
  <2>2. CASE n # m
    <3>1. msgs'[n] = msgs[n]  BY <2>2 DEF TurnOver
    <3>2. msgs'[n].st = "queued" => thread'.st = "active"  BY <3>1 DEF MsgsCurrent
    <3>3. msgs'[n].st = "leased" /\ epochs'[AttOf(n)'.ep].st = "live" => AttOf(n)'.st \in Running
      <4>. SUFFICES ASSUME msgs[n].st = "leased", epochs'[AttOf(n)'.ep].st = "live"
                    PROVE  AttOf(n)'.st \in Running
        BY <3>1
      <4>1. AttOf(n).st \in Running  BY <1>9 DEF MsgsCurrent, RoutesKept
      <4>2. msgs[n].at # a  BY <1>13, <2>2 DEF IsOpen
      <4>3. msgs[n].st # "none"  OBVIOUS
      <4>4. AttOf(n) = atts[msgs[n].at] /\ AttOf(n)' = atts'[msgs[n].at] /\ msgs[n].at \in 1 .. MaxAtts
        BY <1>9, <4>3
      <4>. QED  BY <1>a, <4>1, <4>2, <4>4
    <3>4. msgs'[n].tk => /\ msgs'[n].st = "leased" /\ epochs'[AttOf(n)'.ep].st = "live"
                         /\ epochs'[AttOf(n)'.ep].rt = "busy"
      <4>. SUFFICES ASSUME msgs[n].tk
                    PROVE  /\ msgs[n].st = "leased" /\ epochs'[AttOf(n)'.ep].st = "live"
                           /\ epochs'[AttOf(n)'.ep].rt = "busy"
        BY <3>1
      <4>1. /\ msgs[n].st = "leased" /\ epochs[AttOf(n).ep].st = "live" /\ epochs[AttOf(n).ep].rt = "busy"
        BY DEF MsgsCurrent
      <4>2. AttOf(n).ep # e  BY <1>10, <2>2, <4>1 DEF Serving
      <4>3. msgs[n].st # "none"  BY <4>1
      <4>4. AttOf(n)'.ep = AttOf(n).ep /\ AttOf(n).ep \in 1 .. MaxEpochs  BY <1>9, <4>3
      <4>5. epochs'[AttOf(n).ep] = epochs[AttOf(n).ep]  BY <1>e, <4>2, <4>4
      <4>. QED  BY <4>1, <4>4, <4>5
    <3>. QED  BY <3>2, <3>3, <3>4
  <2>. QED  BY <2>1, <2>2
<1>15. OneOpen'
  <2>1. \A n \in 1 .. MaxMsgs : IsOpen(n)' => IsOpen(n) /\ msgs[n].st # "none"  BY DEF TurnOver, IsOpen
  <2>2. \A n \in 1 .. MaxMsgs : IsOpen(n)' /\ AttOf(n)'.st \in Running => AttOf(n).st \in Running
    <3>. SUFFICES ASSUME NEW n \in 1 .. MaxMsgs, IsOpen(n)', AttOf(n)'.st \in Running
                  PROVE  AttOf(n).st \in Running
      OBVIOUS
    <3>1. msgs[n].st # "none"  BY <2>1
    <3>2. AttOf(n) = atts[msgs[n].at] /\ AttOf(n)' = atts'[msgs[n].at] /\ msgs[n].at \in 1 .. MaxAtts
      BY <1>9, <3>1
    <3>. QED  BY <1>1, <1>a, <3>2
  <2>3. \A n \in 1 .. MaxMsgs : msgs'[n].at = msgs[n].at  BY <1>q
  <2>. QED  BY <2>1, <2>2, <2>3 DEF OneOpen
<1>16. OneServing'
  <2>1. \A n \in 1 .. MaxMsgs : Serving(n)' => Serving(n) /\ msgs[n].st # "none"
    <3>. SUFFICES ASSUME NEW n \in 1 .. MaxMsgs, Serving(n)'  PROVE  Serving(n) /\ msgs[n].st # "none"
      OBVIOUS
    <3>1. msgs[n].st # "none"  BY BlankDelivery DEF Serving, TurnOver
    <3>2. msgs[n].tk \/ msgs[n].st = "dispatched"  BY <1>1 DEF Serving, TurnOver
    <3>. QED  BY <1>9, <3>1, <3>2 DEF Serving, RoutesKept
  <2>2. \A n \in 1 .. MaxMsgs : Serving(n)' => epochs'[AttOf(n)'.ep].rt \in {"busy", "missing"}
    <3>. SUFFICES ASSUME NEW n \in 1 .. MaxMsgs, Serving(n)'  PROVE  epochs'[AttOf(n)'.ep].rt \in {"busy", "missing"}
      OBVIOUS
    <3>1. Serving(n) /\ AttOf(n)'.ep = AttOf(n).ep /\ AttOf(n).ep \in 1 .. MaxEpochs  BY <1>9, <2>1
    <3>2. CASE AttOf(n).ep = e
      <4>1. n = m  BY <1>10, <3>1, <3>2
      <4>2. msgs'[m].st # "delivered"
        <5>1. ~msgs[m].tk  BY <1>1 DEF MsgsCurrent
        <5>. QED  BY <4>1, <5>1 DEF Serving, TurnOver
      <4>. QED  BY <3>1, <3>2, <4>2 DEF TurnOver
    <3>3. CASE AttOf(n).ep # e
      <4>1. epochs'[AttOf(n).ep] = epochs[AttOf(n).ep]  BY <1>e, <3>1, <3>3
      <4>. QED  BY <3>1, <4>1 DEF OneServing
    <3>. QED  BY <3>2, <3>3
  <2>3. \A n \in 1 .. MaxMsgs : Serving(n)' => AttOf(n)'.ep = AttOf(n).ep  BY <1>9, <2>1
  <2>. QED  BY <2>1, <2>2, <2>3 DEF OneServing
<1>17. TookOnce'  BY DEF TookOnce
<1>. QED  BY <1>7, <1>8, <1>11, <1>12, <1>14, <1>15, <1>16, <1>17

\* The provider's answer ends the turn.
LEMMA TurnEndsKeepsInv ==
    ASSUME ThreadInv, NEW m \in 1 .. MaxMsgs, TurnEnds(m)
    PROVE  ThreadInv'
<1>. USE DEF ThreadInv
<1>. DEFINE a == msgs[m].at
            e == AttOf(m).ep
            w == atts[a].work
<1>1. /\ msgs \in [1 .. MaxMsgs -> AssignmentRows] /\ epochs \in [1 .. MaxEpochs -> EpochRows]
      /\ works \in [1 .. MaxBound -> BoundRows] /\ atts \in [1 .. MaxAtts -> PinnedRows]
  BY DEF ThreadTypeOK
<1>2. /\ msgs[m].st = "dispatched" /\ epochs[e].st = "live" /\ atts[a].st \in Running
      /\ epochs' = [epochs EXCEPT ![e].rt = "waiting", ![e].cred = FALSE]
      /\ msgs' = [msgs EXCEPT ![m].st = "delivered"]
      /\ UNCHANGED <<thread, effect, reqs, done, took>>
  BY DEF TurnEnds
<1>3. \/ atts' = [atts EXCEPT ![a].st = "completed"] /\ works' = [works EXCEPT ![w].st = "completed"]
      \/ atts' = [atts EXCEPT ![a].st = "waiting"] /\ works' = [works EXCEPT ![w].bd = "open"]
  BY DEF TurnEnds
<1>4. a \in 1 .. MaxAtts /\ AttOf(m) = atts[a] /\ e \in 1 .. MaxEpochs /\ w \in 1 .. MaxBound
  BY <1>2, DeliveryAttempt
<1>5. a = msgs[m].at /\ e = atts[a].ep /\ w = atts[a].work  BY <1>4
<1>. HIDE DEF a, e, w
<1>6. RoutesKept /\ \A f \in 1 .. MaxEpochs : f # e => epochs'[f] = epochs[f]
  <2>1. \A f \in 1 .. MaxEpochs : epochs[f].cred => epochs[f].st = "live"  BY DEF EpochsCurrent
  <2>2. epochs' \in [1 .. MaxEpochs -> EpochRows]
    <3>1. epochs[e] \in EpochRows  BY <1>1, <1>4
    <3>2. [epochs[e] EXCEPT !.rt = "waiting", !.cred = FALSE] \in EpochRows  BY <3>1 DEF EpochRows
    <3>3. epochs' = [epochs EXCEPT ![e] = [epochs[e] EXCEPT !.rt = "waiting", !.cred = FALSE]]  BY <1>1, <1>2, <1>4
    <3>. QED  BY <1>1, <1>4, <3>2, <3>3
  <2>3. /\ epochs'[e].st = epochs[e].st /\ epochs'[e].gen = epochs[e].gen /\ ~epochs'[e].cred
        /\ \A f \in 1 .. MaxEpochs : f # e => epochs'[f] = epochs[f]
    BY <1>1, <1>2, <1>4 DEF EpochRows
  <2>. QED  BY <1>2, <2>1, <2>2, <2>3 DEF RoutesKept
<1>7. /\ msgs' \in [1 .. MaxMsgs -> AssignmentRows] /\ msgs'[m].st = "delivered"
      /\ \A n \in 1 .. MaxMsgs : msgs'[n].at = msgs[n].at /\ msgs'[n].tk = msgs[n].tk /\ (n # m => msgs'[n] = msgs[n])
  BY <1>1, <1>2 DEF AssignmentRows, Unknown
<1>8. /\ atts' \in [1 .. MaxAtts -> PinnedRows]
      /\ \A b \in 1 .. MaxAtts : /\ atts'[b].work = atts[b].work /\ atts'[b].ep = atts[b].ep
                                 /\ b # a => atts'[b] = atts[b]
  <2>1. CASE atts' = [atts EXCEPT ![a].st = "completed"]  BY <1>1, <1>4, <2>1 DEF PinnedRows, EndedStates
  <2>2. CASE atts' = [atts EXCEPT ![a].st = "waiting"]  BY <1>1, <1>4, <2>2 DEF PinnedRows
  <2>. QED  BY <1>3, <2>1, <2>2
<1>9. /\ works' \in [1 .. MaxBound -> BoundRows]
      /\ \A v \in 1 .. MaxBound : works'[v].gen = works[v].gen /\ (v # w => works'[v] = works[v])
  <2>1. CASE works' = [works EXCEPT ![w].st = "completed"]  BY <1>1, <1>4, <2>1 DEF BoundRows
  <2>2. CASE works' = [works EXCEPT ![w].bd = "open"]  BY <1>1, <1>4, <2>2 DEF BoundRows
  <2>. QED  BY <1>3, <2>1, <2>2
<1>10. \/ atts'[a].st = "completed" /\ works'[w].st = "completed" /\ works'[w].bd = works[w].bd
       \/ atts'[a].st = "waiting" /\ works'[w].st = works[w].st /\ works'[w].bd # "none"
  <2>1. CASE atts' = [atts EXCEPT ![a].st = "completed"] /\ works' = [works EXCEPT ![w].st = "completed"]
    <3>1. atts'[a].st = "completed"  BY <1>1, <1>4, <2>1 DEF PinnedRows
    <3>2. works'[w].st = "completed" /\ works'[w].bd = works[w].bd  BY <1>1, <1>4, <2>1 DEF BoundRows
    <3>. QED  BY <3>1, <3>2
  <2>2. CASE atts' = [atts EXCEPT ![a].st = "waiting"] /\ works' = [works EXCEPT ![w].bd = "open"]
    <3>1. atts'[a].st = "waiting"  BY <1>1, <1>4, <2>2 DEF PinnedRows
    <3>2. works'[w].st = works[w].st /\ works'[w].bd # "none"  BY <1>1, <1>4, <2>2 DEF BoundRows
    <3>. QED  BY <3>1, <3>2
  <2>. QED  BY <1>3, <2>1, <2>2
<1>11. TurnOver(m, a, w, e)  BY <1>2, <1>5, <1>6, <1>7, <1>8, <1>9, <1>10 DEF TurnOver
<1>12. ThreadTypeOK'  BY <1>2, <1>6, <1>7, <1>8, <1>9 DEF ThreadTypeOK, RoutesKept
<1>. QED  BY <1>2, <1>6, <1>11, <1>12, TurnOverKeepsInv

\* An outcome nobody knows parks the Attempt behind a recovery boundary.
LEMMA OutcomeUnknownKeepsInv ==
    ASSUME ThreadInv, NEW m \in 1 .. MaxMsgs, OutcomeUnknown(m)
    PROVE  ThreadInv'
<1>. USE DEF ThreadInv
<1>. DEFINE a == msgs[m].at
            e == AttOf(m).ep
            w == atts[a].work
<1>1. /\ msgs \in [1 .. MaxMsgs -> AssignmentRows] /\ epochs \in [1 .. MaxEpochs -> EpochRows]
      /\ works \in [1 .. MaxBound -> BoundRows] /\ atts \in [1 .. MaxAtts -> PinnedRows]
  BY DEF ThreadTypeOK
<1>2. /\ msgs[m].st = "dispatched" /\ epochs[e].st = "live" /\ atts[a].st \in Running
      /\ epochs' = [epochs EXCEPT ![e].rt = "missing", ![e].cred = FALSE]
      /\ atts' = [atts EXCEPT ![a].st = "waiting"] /\ works' = [works EXCEPT ![w].bd = "recovery"]
      /\ UNCHANGED <<thread, msgs, effect, reqs, done, took>>
  BY DEF OutcomeUnknown
<1>3. a \in 1 .. MaxAtts /\ AttOf(m) = atts[a] /\ e \in 1 .. MaxEpochs /\ w \in 1 .. MaxBound
  BY <1>2, DeliveryAttempt
<1>4. a = msgs[m].at /\ e = atts[a].ep /\ w = atts[a].work  BY <1>3
<1>. HIDE DEF a, e, w
<1>5. /\ RoutesKept /\ epochs'[e].rt = "missing"
      /\ \A f \in 1 .. MaxEpochs : f # e => epochs'[f] = epochs[f]
  <2>1. \A f \in 1 .. MaxEpochs : epochs[f].cred => epochs[f].st = "live"  BY DEF EpochsCurrent
  <2>2. epochs' \in [1 .. MaxEpochs -> EpochRows]
    <3>1. epochs[e] \in EpochRows  BY <1>1, <1>3
    <3>2. [epochs[e] EXCEPT !.rt = "missing", !.cred = FALSE] \in EpochRows  BY <3>1 DEF EpochRows
    <3>3. epochs' = [epochs EXCEPT ![e] = [epochs[e] EXCEPT !.rt = "missing", !.cred = FALSE]]  BY <1>1, <1>2, <1>3
    <3>. QED  BY <1>1, <1>3, <3>2, <3>3
  <2>3. /\ epochs'[e].st = epochs[e].st /\ epochs'[e].gen = epochs[e].gen /\ ~epochs'[e].cred
        /\ epochs'[e].rt = "missing" /\ \A f \in 1 .. MaxEpochs : f # e => epochs'[f] = epochs[f]
    BY <1>1, <1>2, <1>3 DEF EpochRows
  <2>. QED  BY <1>2, <2>1, <2>2, <2>3 DEF RoutesKept
<1>6. /\ atts' \in [1 .. MaxAtts -> PinnedRows] /\ atts'[a].st = "waiting"
      /\ \A b \in 1 .. MaxAtts : /\ atts'[b].work = atts[b].work /\ atts'[b].ep = atts[b].ep
                                 /\ b # a => atts'[b] = atts[b]
  BY <1>1, <1>2, <1>3 DEF PinnedRows
<1>7. /\ works' \in [1 .. MaxBound -> BoundRows] /\ works'[w].st = works[w].st /\ works'[w].bd # "none"
      /\ \A v \in 1 .. MaxBound : works'[v].gen = works[v].gen /\ (v # w => works'[v] = works[v])
  BY <1>1, <1>2, <1>3 DEF BoundRows
<1>8. TurnOver(m, a, w, e)  BY <1>2, <1>4, <1>5, <1>6, <1>7 DEF TurnOver
<1>9. ThreadTypeOK'  BY <1>2, <1>5, <1>6, <1>7 DEF ThreadTypeOK, RoutesKept
<1>. QED  BY <1>2, <1>5, <1>8, <1>9, TurnOverKeepsInv

\* A lost connection takes the pending tickets of its epoch with it; what was dispatched stays.
LEMMA ConnectionLostKeepsInv ==
    ASSUME ThreadInv, NEW e \in 1 .. MaxEpochs, ConnectionLost(e)
    PROVE  ThreadInv'
<1>. USE DEF ThreadInv
<1>1. msgs \in [1 .. MaxMsgs -> AssignmentRows] /\ epochs \in [1 .. MaxEpochs -> EpochRows]  BY DEF ThreadTypeOK
<1>2. /\ epochs[e].st = "live" /\ epochs' = [epochs EXCEPT ![e].rt = "missing", ![e].cred = FALSE]
      /\ UNCHANGED <<thread, works, atts, effect, reqs, done, took>>
  BY DEF ConnectionLost, LiveEpochs
<1>3. /\ RoutesKept /\ epochs'[e].rt = "missing" /\ \A f \in 1 .. MaxEpochs : f # e => epochs'[f] = epochs[f]
  <2>1. \A f \in 1 .. MaxEpochs : epochs[f].cred => epochs[f].st = "live"  BY DEF EpochsCurrent
  <2>. QED  BY <1>1, <1>2, <2>1 DEF RoutesKept, EpochRows
<1>4. /\ msgs' \in [1 .. MaxMsgs -> AssignmentRows]
      /\ \A n \in 1 .. MaxMsgs : /\ msgs'[n].st = msgs[n].st /\ msgs'[n].at = msgs[n].at
                                 /\ msgs'[n].tk => msgs[n].tk /\ AttOf(n).ep # e
                                 /\ ~msgs[n].tk => msgs'[n] = msgs[n]
  BY <1>1 DEF ConnectionLost, AssignmentRows
<1>5. \A n \in 1 .. MaxMsgs : AttOf(n)' = AttOf(n)  BY <1>2, <1>4 DEF AttOf
<1>6. ThreadTypeOK'  BY <1>2, <1>3, <1>4 DEF ThreadTypeOK, RoutesKept
<1>7. \A n \in 1 .. MaxMsgs : msgs[n].st # "none" => AttOf(n).ep \in 1 .. MaxEpochs  BY DeliveryAttempt
<1>8. ThreadRowsBound'
  <2>1. \A f \in 1 .. MaxEpochs : epochs'[f].st = "none" <=> epochs[f].st = "none"  BY <1>3 DEF RoutesKept
  <2>2. RowsNumbered(epochs, MaxEpochs)'  BY <2>1 DEF ThreadRowsBound, RowsNumbered
  <2>3. RowsNumbered(msgs, MaxMsgs)'
    <3>1. \A n \in 1 .. MaxMsgs : msgs'[n].st = "none" <=> msgs[n].st = "none"  BY <1>4
    <3>. QED  BY <3>1 DEF ThreadRowsBound, RowsNumbered
  <2>4. \A f \in 1 .. MaxEpochs : epochs'[f].st = "none" => epochs'[f] = NoEpoch
    BY <1>3 DEF ThreadRowsBound, RoutesKept
  <2>5. \A a \in 1 .. MaxAtts : atts[a].st # "none" => epochs'[atts[a].ep].st # "none"
    BY <1>3 DEF ThreadRowsBound, RoutesKept
  <2>6. \A n \in 1 .. MaxMsgs : IF msgs'[n].st = "none" THEN msgs'[n] = NoMsg
                                ELSE msgs'[n].at \in 1 .. MaxAtts /\ atts[msgs'[n].at].st # "none"
    BY <1>4, BlankDelivery DEF ThreadRowsBound
  <2>. QED  BY <1>2, <2>2, <2>3, <2>4, <2>5, <2>6 DEF ThreadRowsBound
<1>9. EpochsCurrent'  BY <1>2, <1>3 DEF EpochsCurrent, RoutesKept
<1>10. WorksCurrent'  BY <1>2 DEF WorksCurrent
<1>11. AttsCurrent'
  <2>1. \A a \in 1 .. MaxAtts : atts[a].st \in Running => atts[a].ep \in 1 .. MaxEpochs
    BY DEF ThreadRowsBound, Running
  <2>. QED  BY <1>2, <1>3, <2>1 DEF AttsCurrent, RoutesKept
<1>12. MsgsCurrent'
  <2>1. \A n \in 1 .. MaxMsgs : msgs'[n].st = "leased" /\ epochs'[AttOf(n).ep].st = "live" => AttOf(n).st \in Running
    BY <1>3, <1>4, <1>7 DEF MsgsCurrent, RoutesKept
  <2>2. \A n \in 1 .. MaxMsgs : msgs'[n].tk => /\ msgs'[n].st = "leased" /\ epochs'[AttOf(n).ep].st = "live"
                                               /\ epochs'[AttOf(n).ep].rt = "busy"
    <3>1. \A n \in 1 .. MaxMsgs : msgs'[n].tk => msgs[n].st = "leased" /\ AttOf(n).ep # e /\ msgs[n].tk
      BY <1>4 DEF MsgsCurrent
    <3>. QED  BY <3>1, <1>3, <1>4, <1>7 DEF MsgsCurrent
  <2>3. \A n \in 1 .. MaxMsgs : msgs'[n].st = "queued" => thread'.st = "active"  BY <1>2, <1>4 DEF MsgsCurrent
  <2>. QED  BY <1>5, <2>1, <2>2, <2>3 DEF MsgsCurrent
<1>13. OneOpen'
  <2>1. \A n \in 1 .. MaxMsgs : IsOpen(n)' => IsOpen(n)  BY <1>4 DEF IsOpen
  <2>. QED  BY <1>4, <1>5, <2>1 DEF OneOpen
<1>14. OneServing'
  <2>1. \A n \in 1 .. MaxMsgs : Serving(n)' => Serving(n) /\ AttOf(n).ep \in 1 .. MaxEpochs
    <3>. SUFFICES ASSUME NEW n \in 1 .. MaxMsgs, Serving(n)'  PROVE  Serving(n) /\ AttOf(n).ep \in 1 .. MaxEpochs
      OBVIOUS
    <3>1. msgs[n].tk \/ msgs[n].st = "dispatched"  BY <1>4 DEF Serving
    <3>2. AttOf(n).ep \in 1 .. MaxEpochs  BY <1>7, <3>1, BlankDelivery
    <3>. QED  BY <1>3, <1>5, <3>1, <3>2 DEF Serving, RoutesKept
  <2>2. \A n \in 1 .. MaxMsgs : Serving(n)' => epochs'[AttOf(n).ep].rt \in {"busy", "missing"}
    BY <1>3, <2>1 DEF OneServing
  <2>. QED  BY <1>5, <2>1, <2>2 DEF OneServing
<1>15. TookOnce'  BY <1>2 DEF TookOnce
<1>. QED  BY <1>6, <1>8, <1>9, <1>10, <1>11, <1>12, <1>13, <1>14, <1>15

\* A request takes effect once: it is recorded with what it did.
LEMMA AppliedIsRecorded ==
    ASSUME ThreadTypeOK, TookOnce, NEW k \in Keys, NEW op \in Ops, Admitted(k, op), Applied(k), reqs' = reqs
    PROVE  /\ took' \in [Keys -> 0 .. 2] /\ done' \subseteq {j \in Keys : reqs'[j].op # "none"} /\ TookOnce'
<1>1. took \in [Keys -> 0 .. 2] /\ took[k] = 0  BY DEF ThreadTypeOK, TookOnce, Admitted
<1>2. op # "none"  BY ThreadAssumption DEF ThreadConstants
<1>3. took' = [took EXCEPT ![k] = 1]  BY <1>1 DEF Applied
<1>4. took' \in [Keys -> 0 .. 2] /\ took'[k] = 1 /\ \A j \in Keys : j # k => took'[j] = took[j]  BY <1>1, <1>3
<1>5. done' = done \cup {k} /\ reqs[k].op # "none"  BY <1>2 DEF Applied, Admitted
<1>. QED  BY <1>4, <1>5 DEF TookOnce, ThreadTypeOK

\* What a step that touches no row keeps.
LEMMA RowsUntouched ==
    ASSUME ThreadInv, UNCHANGED <<epochs, works, atts, msgs>>, thread'.st = thread.st, thread'.gen = thread.gen
    PROVE  /\ ThreadRowsBound' /\ EpochsCurrent' /\ WorksCurrent' /\ AttsCurrent' /\ MsgsCurrent'
           /\ OneOpen' /\ OneServing'
<1>. USE DEF ThreadInv
<1>1. ThreadRowsBound'  BY DEF ThreadRowsBound, RowsNumbered
<1>2. EpochsCurrent'  BY DEF EpochsCurrent
<1>3. WorksCurrent' /\ AttsCurrent'  BY DEF WorksCurrent, AttsCurrent
<1>4. \A n \in 1 .. MaxMsgs : /\ AttOf(n)' = AttOf(n)
                              /\ IsOpen(n)' <=> IsOpen(n)
                              /\ Serving(n)' <=> Serving(n)
  BY DEF AttOf, IsOpen, Serving
<1>5. MsgsCurrent'  BY <1>4 DEF MsgsCurrent
<1>6. OneOpen' /\ OneServing'  BY <1>4 DEF OneOpen, OneServing
<1>. QED  BY <1>1, <1>2, <1>3, <1>5, <1>6

\* A client sends a request.
LEMMA SendKeepsInv ==
    ASSUME ThreadInv, NEW k \in Keys, NEW op \in Ops, Send(k, op)
    PROVE  ThreadInv'
<1>. USE DEF ThreadInv
<1>1. UNCHANGED <<thread, epochs, works, atts, msgs, effect, done, took>> /\ reqs[k].op = "none"  BY DEF Send
<1>2. PICK exp \in {NoGeneration, thread.gen} :
         reqs' = [reqs EXCEPT ![k] = [op |-> op, exp |-> exp, seen |-> thread.pv]]
  BY DEF Send
<1>3. /\ thread.gen \in Nat /\ thread.pv \in 0 .. MaxPurpose /\ reqs \in [Keys -> RequestRows]
  BY DEF ThreadTypeOK, ThreadRows
<1>4. [op |-> op, exp |-> exp, seen |-> thread.pv] \in RequestRows  BY <1>3 DEF RequestRows
<1>5. reqs' \in [Keys -> RequestRows] /\ \A j \in Keys : j # k => reqs'[j] = reqs[j]  BY <1>2, <1>3, <1>4
<1>6. ThreadTypeOK'  BY <1>1, <1>5 DEF ThreadTypeOK
<1>7. TookOnce'  BY <1>1 DEF TookOnce
<1>. QED  BY <1>1, <1>6, <1>7, RowsUntouched

\* The purpose is replaced.
LEMMA SetPurposeKeepsInv ==
    ASSUME ThreadInv, NEW k \in Keys, SetPurpose(k)
    PROVE  ThreadInv'
<1>. USE DEF ThreadInv
<1>1. /\ UNCHANGED <<epochs, works, atts, msgs, effect, reqs>> /\ Admitted(k, "purpose") /\ Applied(k)
      /\ thread' = [thread EXCEPT !.pv = @ + 1] /\ thread.pv < MaxPurpose /\ thread \in ThreadRows
  BY DEF SetPurpose, ThreadTypeOK
<1>2. thread' \in ThreadRows /\ thread'.st = thread.st /\ thread'.gen = thread.gen
  BY <1>1, ThreadNumbers DEF ThreadRows
<1>3. "purpose" \in Ops  BY <1>1, ThreadAssumption DEF Admitted, ThreadTypeOK, RequestRows, ThreadConstants
<1>4. took' \in [Keys -> 0 .. 2] /\ done' \subseteq {j \in Keys : reqs'[j].op # "none"} /\ TookOnce'
  BY <1>1, <1>3, AppliedIsRecorded
<1>5. ThreadTypeOK'  BY <1>1, <1>2, <1>4 DEF ThreadTypeOK
<1>. QED  BY <1>1, <1>2, <1>4, <1>5, RowsUntouched

\* An effect starts or ends.
LEMMA EffectKeepsInv ==
    ASSUME ThreadInv, Effect
    PROVE  ThreadInv'
<1>1. UNCHANGED <<thread, epochs, works, atts, msgs, reqs, done, took>>  BY DEF Effect
<1>2. effect' \in {"started", "done"}  BY DEF Effect
<1>3. ThreadTypeOK' /\ TookOnce'  BY <1>1, <1>2 DEF ThreadInv, ThreadTypeOK, TookOnce
<1>. QED  BY <1>1, <1>3, RowsUntouched DEF ThreadInv

\* A route begins: a new epoch of the thread's generation is live, and every earlier one retired.
RouteOpened(i) ==
    /\ i \in 1 .. MaxEpochs /\ \A e \in 1 .. MaxEpochs : epochs[e].st = "none" <=> i <= e
    /\ epochs' \in [1 .. MaxEpochs -> EpochRows]
    /\ epochs'[i].st = "live" /\ epochs'[i].gen = thread'.gen /\ ~epochs'[i].cred
    /\ \A e \in 1 .. MaxEpochs :
          /\ e # i /\ epochs[e].st = "none" => epochs'[e] = epochs[e]
          /\ epochs[e].st # "none" => /\ epochs'[e].st = "retired" /\ ~epochs'[e].cred
                                      /\ epochs'[e].gen = epochs[e].gen

\* It is the one route.
LEMMA RouteOpenedIsCurrent ==
    ASSUME ThreadRowsBound, thread'.st = "active", NEW i, RouteOpened(i)
    PROVE  /\ RowsNumbered(epochs, MaxEpochs)' /\ EpochsCurrent'
           /\ \A e \in 1 .. MaxEpochs : epochs'[e].st = "none" => epochs'[e] = NoEpoch
           /\ \A e \in 1 .. MaxEpochs : epochs[e].st # "none" => epochs'[e].st = "retired" /\ ~epochs'[e].cred
           /\ i \in 1 .. MaxEpochs /\ epochs[i].st = "none" /\ epochs'[i].st = "live"
           /\ \A e \in 1 .. MaxEpochs : epochs'[e].st = "live" => e = i
<1>1. i \in 1 .. MaxEpochs /\ \A e \in 1 .. MaxEpochs : epochs[e].st = "none" <=> i <= e  BY DEF RouteOpened
<1>2. epochs[i].st = "none"  BY <1>1
<1>3. \A e \in 1 .. MaxEpochs : epochs'[e].st = "none" <=> (epochs[e].st = "none" /\ e # i)  BY DEF RouteOpened
<1>4. RowsNumbered(epochs, MaxEpochs)'
  <2>1. \A e \in 1 .. MaxEpochs : epochs'[e].st = "none" <=> e > i  BY <1>1, <1>3
  <2>2. i \in 0 .. MaxEpochs  BY <1>1
  <2>. QED  BY <2>1, <2>2 DEF RowsNumbered
<1>5. \A e \in 1 .. MaxEpochs : epochs'[e].st = "none" => epochs'[e] = NoEpoch
  BY <1>3 DEF RouteOpened, ThreadRowsBound
<1>6. \A e \in 1 .. MaxEpochs : epochs'[e].st = "live" => e = i
  BY <1>5 DEF RouteOpened, NoEpoch
<1>7. \A e \in 1 .. MaxEpochs : epochs'[e].cred => epochs'[e].st = "live"
  <2>1. \A e \in 1 .. MaxEpochs : e # i /\ epochs[e].st = "none" => ~epochs'[e].cred
    BY DEF RouteOpened, ThreadRowsBound, NoEpoch
  <2>. QED  BY <2>1 DEF RouteOpened
<1>8. EpochsCurrent'
  <2>1. \A e \in 1 .. MaxEpochs : epochs'[e].st = "live" => thread'.st = "active" /\ epochs'[e].gen = thread'.gen
    BY <1>6 DEF RouteOpened
  <2>2. \A e, f \in 1 .. MaxEpochs : epochs'[e].st = "live" /\ epochs'[f].st = "live" => e = f  BY <1>6
  <2>. QED  BY <1>7, <2>1, <2>2 DEF EpochsCurrent
<1>. QED  BY <1>1, <1>2, <1>4, <1>5, <1>6, <1>8 DEF RouteOpened

\* A route begins under a thread of which nothing runs or waits: New and Resume.
LEMMA FirstRouteKeepsInv ==
    ASSUME ThreadInv, UNCHANGED <<works, atts, msgs, effect, reqs>>, thread.st # "active", thread'.st = "active",
           ThreadTypeOK', TookOnce', NEW i, RouteOpened(i)
    PROVE  ThreadInv'
<1>. USE DEF ThreadInv
<1>1. /\ RowsNumbered(epochs, MaxEpochs)' /\ EpochsCurrent'
      /\ \A e \in 1 .. MaxEpochs : epochs'[e].st = "none" => epochs'[e] = NoEpoch
      /\ \A e \in 1 .. MaxEpochs : epochs[e].st # "none" => epochs'[e].st = "retired" /\ ~epochs'[e].cred
  BY RouteOpenedIsCurrent
<1>2. /\ \A e \in 1 .. MaxEpochs : epochs[e].st # "live"
      /\ \A w \in 1 .. MaxBound : works[w].st # "active"
      /\ \A a \in 1 .. MaxAtts : atts[a].st \notin Running \cup {"waiting"}
  <2>1. \A e \in 1 .. MaxEpochs : epochs[e].st # "live"  BY DEF EpochsCurrent
  <2>2. \A w \in 1 .. MaxBound : works[w].st # "active"  BY DEF WorksCurrent
  <2>3. \A a \in 1 .. MaxAtts : atts[a].st \in Running \cup {"waiting"} => atts[a].work \in 1 .. MaxBound
    BY DEF ThreadRowsBound, Running
  <2>4. \A a \in 1 .. MaxAtts : atts[a].st \notin Running \cup {"waiting"}  BY <2>2, <2>3 DEF AttsCurrent
  <2>. QED  BY <2>1, <2>2, <2>4
<1>3. ThreadRowsBound'
  <2>1. /\ RowsNumbered(works, MaxBound)' /\ RowsNumbered(atts, MaxAtts)' /\ RowsNumbered(msgs, MaxMsgs)'
    BY DEF ThreadRowsBound, RowsNumbered
  <2>2. \A a \in 1 .. MaxAtts : atts[a].st # "none" => epochs'[atts[a].ep].st # "none"
    BY <1>1 DEF ThreadRowsBound
  <2>. QED  BY <1>1, <2>1, <2>2 DEF ThreadRowsBound
<1>4. WorksCurrent'  BY <1>2 DEF WorksCurrent
<1>5. AttsCurrent'
  <2>1. \A a, b \in 1 .. MaxAtts :
           a < b /\ atts[b].st # "none" /\ atts[a].work = atts[b].work => atts[a].st \in EndedStates
    BY DEF AttsCurrent
  <2>. QED  BY <1>2, <2>1 DEF AttsCurrent
<1>6. \A n \in 1 .. MaxMsgs : msgs[n].st # "none" =>
         /\ AttOf(n)' = AttOf(n) /\ epochs'[AttOf(n).ep].st = "retired" /\ ~msgs[n].tk
         /\ AttOf(n).st \notin Running /\ msgs[n].st # "queued"
  <2>. SUFFICES ASSUME NEW n \in 1 .. MaxMsgs, msgs[n].st # "none"
                PROVE  /\ AttOf(n)' = AttOf(n) /\ epochs'[AttOf(n).ep].st = "retired" /\ ~msgs[n].tk
                       /\ AttOf(n).st \notin Running /\ msgs[n].st # "queued"
    OBVIOUS
  <2>1. /\ msgs[n].at \in 1 .. MaxAtts /\ AttOf(n) = atts[msgs[n].at]
        /\ AttOf(n).ep \in 1 .. MaxEpochs /\ epochs[AttOf(n).ep].st # "none"
    BY DeliveryAttempt
  <2>2. AttOf(n)' = AttOf(n)  BY DEF AttOf
  <2>. QED  BY <1>1, <1>2, <2>1, <2>2 DEF MsgsCurrent
<1>7. MsgsCurrent'
  <2>1. \A n \in 1 .. MaxMsgs : msgs[n].st = "none" => ~msgs[n].tk  BY BlankDelivery
  <2>. QED  BY <1>6, <2>1 DEF MsgsCurrent
<1>8. OneOpen'
  <2>1. \A n \in 1 .. MaxMsgs : IsOpen(n)' => AttOf(n)'.st \notin Running  BY <1>6 DEF IsOpen
  <2>. QED  BY <2>1 DEF OneOpen
<1>9. OneServing'
  <2>1. \A n \in 1 .. MaxMsgs : ~Serving(n)'  BY <1>6, BlankDelivery DEF Serving
  <2>. QED  BY <2>1 DEF OneServing
<1>. QED  BY <1>1, <1>3, <1>4, <1>5, <1>7, <1>8, <1>9

\* A thread is created with its first route.
LEMMA NewThreadKeepsInv ==
    ASSUME ThreadInv, NEW k \in Keys, NewThread(k)
    PROVE  ThreadInv'
<1>. USE DEF ThreadInv
<1>1. /\ UNCHANGED <<works, atts, msgs, effect, reqs>> /\ Admitted(k, "new") /\ Applied(k) /\ thread.st = "none"
      /\ thread' = [st |-> "active", gen |-> 1, spec |-> "enabled", pv |-> 0]
      /\ epochs' = [epochs EXCEPT ![1] = FirstEpoch] /\ epochs \in [1 .. MaxEpochs -> EpochRows]
  BY DEF NewThread, ThreadTypeOK
<1>2. "new" \in Ops  BY <1>1, ThreadAssumption DEF Admitted, ThreadTypeOK, RequestRows, ThreadConstants
<1>3. took' \in [Keys -> 0 .. 2] /\ done' \subseteq {j \in Keys : reqs'[j].op # "none"} /\ TookOnce'
  BY <1>1, <1>2, AppliedIsRecorded
<1>4. thread' \in ThreadRows /\ thread'.st = "active"  BY <1>1, ThreadNumbers DEF ThreadRows
<1>5. 1 \in 1 .. MaxEpochs /\ \A e \in 1 .. MaxEpochs : epochs[e].st = "none" /\ 1 <= e /\ epochs[e] = NoEpoch
  BY <1>1, ThreadNumbers DEF EpochsCurrent, ThreadRowsBound
<1>6. FirstEpoch \in EpochRows  BY DEF FirstEpoch, EpochRows
<1>7. /\ epochs' \in [1 .. MaxEpochs -> EpochRows] /\ epochs'[1] = FirstEpoch
      /\ \A e \in 1 .. MaxEpochs : e # 1 => epochs'[e] = epochs[e]
  BY <1>1, <1>5, <1>6
<1>8. RouteOpened(1)  BY <1>1, <1>5, <1>7 DEF RouteOpened, FirstEpoch
<1>9. ThreadTypeOK'
  <2>1. \A e \in 1 .. MaxEpochs : epochs'[e].gen <= thread'.gen
    <3>1. \A e \in 1 .. MaxEpochs : epochs'[e].gen \in {0, 1}  BY <1>5, <1>7 DEF FirstEpoch, NoEpoch
    <3>. QED  BY <1>1, <3>1
  <2>. QED  BY <1>1, <1>3, <1>4, <1>7, <2>1 DEF ThreadTypeOK
<1>. QED  BY <1>1, <1>3, <1>4, <1>8, <1>9, FirstRouteKeepsInv

\* Finish, Resume and Delete each begin a generation of the thread.
LEMMA NextGeneration ==
    ASSUME thread \in ThreadRows, NEW st \in {"active", "archived", "deleted"},
           NEW spec \in {"enabled", "stopped", "revoked"},
           thread' = [thread EXCEPT !.st = st, !.gen = @ + 1, !.spec = spec]
    PROVE  thread' \in ThreadRows /\ thread'.st = st /\ thread'.gen = thread.gen + 1 /\ thread.gen \in Nat
<1>1. thread.gen \in Nat /\ thread.pv \in 0 .. MaxPurpose  BY DEF ThreadRows
<1>2. /\ thread'.st = st /\ thread'.spec = spec
      /\ thread'.gen = thread.gen + 1 /\ thread'.pv = thread.pv
  BY DEF ThreadRows
<1>3. thread' = [st |-> thread'.st, spec |-> thread'.spec, gen |-> thread'.gen, pv |-> thread'.pv]
  BY DEF ThreadRows
<1>4. thread'.gen \in Nat  BY <1>1, <1>2
<1>. QED  BY <1>1, <1>2, <1>3, <1>4 DEF ThreadRows

\* A finished thread resumes in a new generation with one fresh route.
LEMMA ResumeKeepsInv ==
    ASSUME ThreadInv, NEW k \in Keys, Resume(k)
    PROVE  ThreadInv'
<1>. USE DEF ThreadInv
<1>. DEFINE i == NextUnused(epochs)
            row == [st |-> "live", gen |-> thread.gen + 1, conn |-> 1, rt |-> "starting", cred |-> FALSE]
<1>1. /\ UNCHANGED <<works, atts, msgs, effect, reqs>> /\ Admitted(k, "resume") /\ Applied(k)
      /\ thread.st = "archived" /\ thread' = [thread EXCEPT !.st = "active", !.gen = @ + 1, !.spec = "enabled"]
      /\ epochs' = [AllRevoked EXCEPT ![i] = row] /\ Unused(epochs) # {}
  BY DEF Resume
<1>2. epochs \in [1 .. MaxEpochs -> EpochRows] /\ thread \in ThreadRows  BY DEF ThreadTypeOK
<1>3. "resume" \in Ops  BY <1>1, ThreadAssumption DEF Admitted, ThreadTypeOK, RequestRows, ThreadConstants
<1>4. took' \in [Keys -> 0 .. 2] /\ done' \subseteq {j \in Keys : reqs'[j].op # "none"} /\ TookOnce'
  BY <1>1, <1>3, AppliedIsRecorded
<1>5. thread' \in ThreadRows /\ thread'.st = "active" /\ thread'.gen = thread.gen + 1 /\ thread.gen \in Nat
  <2>1. thread' = [thread EXCEPT !.st = "active", !.gen = @ + 1, !.spec = "enabled"]  BY DEF Resume
  <2>. QED  BY <1>2, <2>1, NextGeneration
<1>6. i \in 1 .. MaxEpochs /\ epochs[i].st = "none" /\ \A e \in 1 .. MaxEpochs : epochs[e].st = "none" <=> i <= e
  BY <1>1, <1>2, ThreadNumbers, NextUnusedRow DEF ThreadRowsBound
<1>7. row \in EpochRows /\ row.st = "live" /\ row.gen = thread'.gen /\ ~row.cred
  BY <1>5 DEF EpochRows
<1>. HIDE DEF i, row
<1>8. /\ AllRevoked \in [1 .. MaxEpochs -> EpochRows]
      /\ \A e \in 1 .. MaxEpochs :
            /\ epochs[e].st = "none" => AllRevoked[e] = epochs[e]
            /\ epochs[e].st # "none" => /\ AllRevoked[e].st = "retired" /\ ~AllRevoked[e].cred
                                        /\ AllRevoked[e].gen = epochs[e].gen
  <2>. SUFFICES ASSUME NEW e \in 1 .. MaxEpochs
                PROVE  /\ AllRevoked[e] \in EpochRows
                       /\ epochs[e].st = "none" => AllRevoked[e] = epochs[e]
                       /\ epochs[e].st # "none" => /\ AllRevoked[e].st = "retired" /\ ~AllRevoked[e].cred
                                                   /\ AllRevoked[e].gen = epochs[e].gen
    BY DEF AllRevoked
  <2>1. CASE epochs[e].st = "none"  BY <1>2, <2>1 DEF AllRevoked, ThreadRowsBound
  <2>2. CASE epochs[e].st # "none"  BY <1>2, <2>2 DEF AllRevoked, EpochRows
  <2>. QED  BY <2>1, <2>2
<1>9. /\ epochs' \in [1 .. MaxEpochs -> EpochRows] /\ epochs'[i] = row
      /\ \A e \in 1 .. MaxEpochs : e # i => epochs'[e] = AllRevoked[e]
  BY <1>1, <1>6, <1>7, <1>8
<1>10. RouteOpened(i)  BY <1>6, <1>7, <1>8, <1>9 DEF RouteOpened
<1>11. ThreadTypeOK'
  <2>1. \A e \in 1 .. MaxEpochs : epochs'[e].gen <= thread'.gen
    <3>1. \A e \in 1 .. MaxEpochs : epochs[e].gen \in Nat /\ epochs[e].gen <= thread.gen
      BY <1>2 DEF ThreadTypeOK, EpochRows
    <3>2. \A e \in 1 .. MaxEpochs : epochs'[e].gen = epochs[e].gen \/ epochs'[e].gen = thread'.gen
      BY <1>7, <1>8, <1>9
    <3>. QED  BY <1>5, <3>1, <3>2
  <2>. QED  BY <1>1, <1>4, <1>5, <1>9, <2>1 DEF ThreadTypeOK
<1>. QED  BY <1>1, <1>4, <1>5, <1>10, <1>11, FirstRouteKeepsInv

\* The end of supervision leaves no live route, no active Work, no running Attempt and no
\* delivery that could still be claimed.
LEMMA TerminalRows ==
    ASSUME ThreadInv, Terminalized
    PROVE  /\ epochs' \in [1 .. MaxEpochs -> EpochRows] /\ works' \in [1 .. MaxBound -> BoundRows]
           /\ atts' \in [1 .. MaxAtts -> PinnedRows] /\ msgs' \in [1 .. MaxMsgs -> AssignmentRows]
           /\ \A e \in 1 .. MaxEpochs : /\ epochs'[e].st # "live" /\ ~epochs'[e].cred
                                        /\ epochs'[e].gen = epochs[e].gen
                                        /\ epochs'[e].st = "none" <=> epochs[e].st = "none"
                                        /\ epochs[e].st = "none" => epochs'[e] = epochs[e]
           /\ \A w \in 1 .. MaxBound : /\ works'[w].st # "active" /\ works'[w].bd = "none"
                                       /\ works'[w].st = "none" <=> works[w].st = "none"
                                       /\ works[w].st = "none" => works'[w] = works[w]
           /\ \A a \in 1 .. MaxAtts : /\ atts'[a].work = atts[a].work /\ atts'[a].ep = atts[a].ep
                                      /\ atts'[a].st \in EndedStates \cup {"none"}
                                      /\ atts'[a].st = "none" <=> atts[a].st = "none"
                                      /\ atts[a].st = "none" => atts'[a] = atts[a]
                                      /\ atts[a].st \in EndedStates => atts'[a].st = atts[a].st
           /\ \A m \in 1 .. MaxMsgs : /\ msgs'[m].at = msgs[m].at /\ ~msgs'[m].tk
                                      /\ msgs'[m].st \notin {"queued", "lapsed"}
                                      /\ ~Unclaimed(m) => msgs'[m].st = msgs[m].st
                                      /\ msgs'[m].st = "none" <=> msgs[m].st = "none"
                                      /\ msgs[m].st = "none" => msgs'[m] = msgs[m]
<1>. USE DEF ThreadInv
<1>1. /\ msgs \in [1 .. MaxMsgs -> AssignmentRows] /\ epochs \in [1 .. MaxEpochs -> EpochRows]
      /\ works \in [1 .. MaxBound -> BoundRows] /\ atts \in [1 .. MaxAtts -> PinnedRows]
  BY DEF ThreadTypeOK
<1>2. /\ epochs' = AllRevoked /\ works' = TerminalWorks /\ atts' = TerminalAtts /\ msgs' = TerminalMsgs
  BY DEF Terminalized
<1>3. ASSUME NEW e \in 1 .. MaxEpochs
      PROVE  /\ AllRevoked[e] \in EpochRows /\ AllRevoked[e].st # "live" /\ ~AllRevoked[e].cred
             /\ AllRevoked[e].gen = epochs[e].gen
             /\ AllRevoked[e].st = "none" <=> epochs[e].st = "none"
             /\ epochs[e].st = "none" => AllRevoked[e] = epochs[e]
  <2>1. CASE epochs[e].st = "none"  BY <1>1, <2>1 DEF AllRevoked, ThreadRowsBound, NoEpoch
  <2>2. CASE epochs[e].st # "none"  BY <1>1, <2>2 DEF AllRevoked, EpochRows
  <2>. QED  BY <2>1, <2>2
<1>4. ASSUME NEW w \in 1 .. MaxBound
      PROVE  /\ TerminalWorks[w] \in BoundRows /\ TerminalWorks[w].st # "active" /\ TerminalWorks[w].bd = "none"
             /\ TerminalWorks[w].st = "none" <=> works[w].st = "none"
             /\ works[w].st = "none" => TerminalWorks[w] = works[w]
  <2>1. CASE works[w].st = "active"
    <3>1. TerminalWorks[w] = [works[w] EXCEPT !.st = "canceled", !.bd = "none"]
      BY <2>1 DEF TerminalWorks, Unsettled
    <3>. QED  BY <1>1, <2>1, <3>1 DEF BoundRows
  <2>2. CASE works[w].st # "active"
    <3>1. TerminalWorks[w] = works[w]  BY <2>2 DEF TerminalWorks, Unsettled
    <3>2. works[w].bd = "none"  BY <2>2 DEF WorksCurrent
    <3>. QED  BY <1>1, <2>2, <3>1, <3>2
  <2>. QED  BY <2>1, <2>2
<1>5. ASSUME NEW a \in 1 .. MaxAtts
      PROVE  /\ TerminalAtts[a] \in PinnedRows /\ TerminalAtts[a].work = atts[a].work /\ TerminalAtts[a].ep = atts[a].ep
             /\ TerminalAtts[a].st \in EndedStates \cup {"none"}
             /\ TerminalAtts[a].st = "none" <=> atts[a].st = "none"
             /\ atts[a].st = "none" => TerminalAtts[a] = atts[a]
             /\ atts[a].st \in EndedStates => TerminalAtts[a].st = atts[a].st
  <2>1. CASE atts[a].st \notin EndedStates \cup {"none"}
    <3>1. atts[a].st \in Running \cup {"waiting"}  BY <1>1, <2>1 DEF PinnedRows
    <3>2. works[atts[a].work].st = "active"  BY <3>1 DEF AttsCurrent
    <3>3. TerminalAtts[a] = [atts[a] EXCEPT !.st = "canceled"]  BY <2>1, <3>2 DEF TerminalAtts, Unsettled
    <3>. QED  BY <1>1, <2>1, <3>3 DEF PinnedRows, EndedStates
  <2>2. CASE atts[a].st \in EndedStates \cup {"none"}
    <3>1. TerminalAtts[a] = atts[a]  BY <2>2 DEF TerminalAtts
    <3>. QED  BY <1>1, <2>2, <3>1
  <2>. QED  BY <2>1, <2>2
<1>6. ASSUME NEW m \in 1 .. MaxMsgs
      PROVE  /\ TerminalMsgs[m] \in AssignmentRows /\ TerminalMsgs[m].at = msgs[m].at /\ ~TerminalMsgs[m].tk
             /\ TerminalMsgs[m].st \notin {"queued", "lapsed"}
             /\ ~Unclaimed(m) => TerminalMsgs[m].st = msgs[m].st
             /\ TerminalMsgs[m].st = "none" <=> msgs[m].st = "none"
             /\ msgs[m].st = "none" => TerminalMsgs[m] = msgs[m]
  <2>1. CASE Unclaimed(m)
    <3>1. TerminalMsgs[m] = [msgs[m] EXCEPT !.st = "dead", !.tk = FALSE] /\ msgs[m] \in AssignmentRows
      BY <1>1, <2>1 DEF TerminalMsgs
    <3>2. TerminalMsgs[m] \in AssignmentRows  BY <3>1 DEF AssignmentRows
    <3>3. TerminalMsgs[m].st = "dead" /\ TerminalMsgs[m].at = msgs[m].at /\ ~TerminalMsgs[m].tk
      BY <3>1 DEF AssignmentRows
    <3>4. msgs[m].st # "none"  BY <2>1 DEF Unclaimed
    <3>. QED  BY <2>1, <3>2, <3>3, <3>4
  <2>2. CASE ~Unclaimed(m)
    <3>1. TerminalMsgs[m] = [msgs[m] EXCEPT !.st = msgs[m].st, !.tk = FALSE]  BY <2>2 DEF TerminalMsgs
    <3>2. /\ TerminalMsgs[m] \in AssignmentRows /\ TerminalMsgs[m].at = msgs[m].at /\ ~TerminalMsgs[m].tk
          /\ TerminalMsgs[m].st = msgs[m].st /\ (~msgs[m].tk => TerminalMsgs[m] = msgs[m])
      BY <1>1, <3>1 DEF AssignmentRows
    <3>. QED  BY <2>2, <3>2, BlankDelivery DEF Unclaimed
  <2>. QED  BY <2>1, <2>2
<1>7. /\ epochs' \in [1 .. MaxEpochs -> EpochRows] /\ works' \in [1 .. MaxBound -> BoundRows]
      /\ atts' \in [1 .. MaxAtts -> PinnedRows] /\ msgs' \in [1 .. MaxMsgs -> AssignmentRows]
  BY <1>2, <1>3, <1>4, <1>5, <1>6 DEF AllRevoked, TerminalWorks, TerminalAtts, TerminalMsgs
<1>. QED  BY <1>2, <1>3, <1>4, <1>5, <1>6, <1>7

\* Finish and Delete end the thread with everything it has.
LEMMA TerminalizedKeepsInv ==
    ASSUME ThreadInv, Terminalized, thread'.st \in {"archived", "deleted"}, UNCHANGED <<effect, reqs>>,
           ThreadTypeOK', TookOnce'
    PROVE  ThreadInv'
<1>. USE DEF ThreadInv
<1>1. /\ \A e \in 1 .. MaxEpochs : /\ epochs'[e].st # "live" /\ ~epochs'[e].cred
                                   /\ epochs'[e].st = "none" <=> epochs[e].st = "none"
                                   /\ epochs[e].st = "none" => epochs'[e] = epochs[e]
      /\ \A w \in 1 .. MaxBound : /\ works'[w].st # "active" /\ works'[w].bd = "none"
                                  /\ works'[w].st = "none" <=> works[w].st = "none"
                                  /\ works[w].st = "none" => works'[w] = works[w]
  BY TerminalRows
<1>2. \A a \in 1 .. MaxAtts : /\ atts'[a].work = atts[a].work /\ atts'[a].ep = atts[a].ep
                              /\ atts'[a].st \in EndedStates \cup {"none"}
                              /\ atts'[a].st = "none" <=> atts[a].st = "none"
                              /\ atts[a].st = "none" => atts'[a] = atts[a]
                              /\ atts[a].st \in EndedStates => atts'[a].st = atts[a].st
  BY TerminalRows
<1>3. \A m \in 1 .. MaxMsgs : /\ msgs'[m].at = msgs[m].at /\ ~msgs'[m].tk
                              /\ msgs'[m].st \notin {"queued", "lapsed"}
                              /\ msgs'[m].st = "none" <=> msgs[m].st = "none"
                              /\ msgs[m].st = "none" => msgs'[m] = msgs[m]
  BY TerminalRows
<1>4. ThreadRowsBound'
  <2>1. RowsNumbered(epochs, MaxEpochs)'  BY <1>1 DEF ThreadRowsBound, RowsNumbered
  <2>2. RowsNumbered(works, MaxBound)'  BY <1>1 DEF ThreadRowsBound, RowsNumbered
  <2>3. RowsNumbered(atts, MaxAtts)'
    <3>1. \A a \in 1 .. MaxAtts : atts'[a].st = "none" <=> atts[a].st = "none"  BY <1>2
    <3>. QED  BY <3>1 DEF ThreadRowsBound, RowsNumbered
  <2>4. RowsNumbered(msgs, MaxMsgs)'
    <3>1. \A m \in 1 .. MaxMsgs : msgs'[m].st = "none" <=> msgs[m].st = "none"  BY <1>3
    <3>. QED  BY <3>1 DEF ThreadRowsBound, RowsNumbered
  <2>5. /\ \A e \in 1 .. MaxEpochs : epochs'[e].st = "none" => epochs'[e] = NoEpoch
        /\ \A w \in 1 .. MaxBound : works'[w].st = "none" => works'[w] = NoBound
    BY <1>1 DEF ThreadRowsBound
  <2>6. \A a \in 1 .. MaxAtts :
          IF atts'[a].st = "none" THEN atts'[a] = NoPinned
          ELSE /\ atts'[a].work \in 1 .. MaxBound /\ works'[atts'[a].work].st # "none"
               /\ atts'[a].ep \in 1 .. MaxEpochs /\ epochs'[atts'[a].ep].st # "none"
    BY <1>1, <1>2 DEF ThreadRowsBound
  <2>7. \A m \in 1 .. MaxMsgs : IF msgs'[m].st = "none" THEN msgs'[m] = NoMsg
                                ELSE msgs'[m].at \in 1 .. MaxAtts /\ atts'[msgs'[m].at].st # "none"
    BY <1>2, <1>3 DEF ThreadRowsBound
  <2>. QED  BY <2>1, <2>2, <2>3, <2>4, <2>5, <2>6, <2>7 DEF ThreadRowsBound
<1>5. EpochsCurrent'  BY <1>1 DEF EpochsCurrent
<1>6. WorksCurrent'  BY <1>1 DEF WorksCurrent
<1>7. AttsCurrent'
  <2>1. \A a \in 1 .. MaxAtts : atts'[a].st \notin Running \cup {"waiting"}
    BY <1>2 DEF Running, EndedStates
  <2>2. \A a, b \in 1 .. MaxAtts :
          a < b /\ atts'[b].st # "none" /\ atts'[a].work = atts'[b].work => atts'[a].st \in EndedStates
    BY <1>2 DEF AttsCurrent
  <2>. QED  BY <2>1, <2>2 DEF AttsCurrent
<1>8. MsgsCurrent'
  <2>1. \A m \in 1 .. MaxMsgs : msgs'[m].st = "leased" => epochs'[AttOf(m)'.ep].st # "live"
    <3>. SUFFICES ASSUME NEW m \in 1 .. MaxMsgs, msgs'[m].st = "leased"  PROVE  epochs'[AttOf(m)'.ep].st # "live"
      OBVIOUS
    <3>1. msgs[m].at \in 1 .. MaxAtts /\ atts[msgs[m].at].ep \in 1 .. MaxEpochs  BY <1>3, DeliveryAttempt
    <3>2. AttOf(m)' = atts'[msgs[m].at]  BY <1>3, <3>1, ThreadNumbers DEF AttOf
    <3>. QED  BY <1>1, <1>2, <3>1, <3>2
  <2>. QED  BY <1>3, <2>1 DEF MsgsCurrent
<1>9. OneOpen'
  <2>1. \A m \in 1 .. MaxMsgs : AttOf(m)'.st \notin Running
    <3>. SUFFICES ASSUME NEW m \in 1 .. MaxMsgs  PROVE  AttOf(m)'.st \notin Running
      OBVIOUS
    <3>1. CASE msgs[m].st = "none"  BY <1>3, <3>1, BlankDelivery DEF AttOf, NoPinned, Running
    <3>2. CASE msgs[m].st # "none"
      <4>1. msgs[m].at \in 1 .. MaxAtts  BY <3>2, DeliveryAttempt
      <4>2. AttOf(m)' = atts'[msgs[m].at]  BY <1>3, <4>1, ThreadNumbers DEF AttOf
      <4>. QED  BY <1>2, <4>1, <4>2 DEF Running, EndedStates
    <3>. QED  BY <3>1, <3>2
  <2>. QED  BY <2>1 DEF OneOpen
<1>10. OneServing'
  <2>1. \A m \in 1 .. MaxMsgs : ~Serving(m)'
    <3>. SUFFICES ASSUME NEW m \in 1 .. MaxMsgs, Serving(m)'  PROVE  FALSE
      OBVIOUS
    <3>1. msgs[m].st # "none"  BY <1>3 DEF Serving
    <3>2. msgs[m].at \in 1 .. MaxAtts /\ atts[msgs[m].at].ep \in 1 .. MaxEpochs  BY <3>1, DeliveryAttempt
    <3>3. AttOf(m)' = atts'[msgs[m].at]  BY <1>3, <3>2, ThreadNumbers DEF AttOf
    <3>. QED  BY <1>1, <1>2, <3>2, <3>3 DEF Serving
  <2>. QED  BY <2>1 DEF OneServing
<1>. QED  BY <1>4, <1>5, <1>6, <1>7, <1>8, <1>9, <1>10

\* finish_worker_thread.
LEMMA FinishKeepsInv ==
    ASSUME ThreadInv, NEW k \in Keys, Finish(k)
    PROVE  ThreadInv'
<1>. USE DEF ThreadInv
<1>1. /\ UNCHANGED <<effect, reqs>> /\ Admitted(k, "finish") /\ Applied(k) /\ Terminalized
      /\ thread' = [thread EXCEPT !.st = "archived", !.gen = @ + 1, !.spec = "stopped"] /\ thread \in ThreadRows
  BY DEF Finish, Retired, ThreadTypeOK
<1>2. "finish" \in Ops  BY <1>1, ThreadAssumption DEF Admitted, ThreadTypeOK, RequestRows, ThreadConstants
<1>3. took' \in [Keys -> 0 .. 2] /\ done' \subseteq {j \in Keys : reqs'[j].op # "none"} /\ TookOnce'
  BY <1>1, <1>2, AppliedIsRecorded
<1>4. thread' \in ThreadRows /\ thread'.st = "archived" /\ thread'.gen = thread.gen + 1 /\ thread.gen \in Nat
  <2>1. thread' = [thread EXCEPT !.st = "archived", !.gen = @ + 1, !.spec = "stopped"]  BY <1>1
  <2>. QED  BY <1>1, <2>1, NextGeneration
<1>5. /\ epochs' \in [1 .. MaxEpochs -> EpochRows] /\ works' \in [1 .. MaxBound -> BoundRows]
      /\ atts' \in [1 .. MaxAtts -> PinnedRows] /\ msgs' \in [1 .. MaxMsgs -> AssignmentRows]
      /\ \A e \in 1 .. MaxEpochs : epochs'[e].gen = epochs[e].gen
  BY <1>1, TerminalRows
<1>6. \A e \in 1 .. MaxEpochs : epochs'[e].gen <= thread'.gen
  <2>1. \A e \in 1 .. MaxEpochs : epochs[e].gen \in Nat /\ epochs[e].gen <= thread.gen
    BY DEF ThreadTypeOK, EpochRows
  <2>. QED  BY <1>4, <1>5, <2>1
<1>7. ThreadTypeOK'  BY <1>1, <1>3, <1>4, <1>5, <1>6 DEF ThreadTypeOK
<1>. QED  BY <1>1, <1>3, <1>4, <1>7, TerminalizedKeepsInv

\* delete_worker_thread.
LEMMA DeleteKeepsInv ==
    ASSUME ThreadInv, NEW k \in Keys, Delete(k)
    PROVE  ThreadInv'
<1>. USE DEF ThreadInv
<1>1. /\ UNCHANGED <<effect, reqs>> /\ Admitted(k, "delete") /\ Applied(k) /\ Terminalized
      /\ thread' = [thread EXCEPT !.st = "deleted", !.gen = @ + 1, !.spec = "revoked"] /\ thread \in ThreadRows
  BY DEF Delete, LedgerDeleted, ThreadTypeOK
<1>2. "delete" \in Ops  BY <1>1, ThreadAssumption DEF Admitted, ThreadTypeOK, RequestRows, ThreadConstants
<1>3. took' \in [Keys -> 0 .. 2] /\ done' \subseteq {j \in Keys : reqs'[j].op # "none"} /\ TookOnce'
  BY <1>1, <1>2, AppliedIsRecorded
<1>4. thread' \in ThreadRows /\ thread'.st = "deleted" /\ thread'.gen = thread.gen + 1 /\ thread.gen \in Nat
  <2>1. thread' = [thread EXCEPT !.st = "deleted", !.gen = @ + 1, !.spec = "revoked"]  BY <1>1
  <2>. QED  BY <1>1, <2>1, NextGeneration
<1>5. /\ epochs' \in [1 .. MaxEpochs -> EpochRows] /\ works' \in [1 .. MaxBound -> BoundRows]
      /\ atts' \in [1 .. MaxAtts -> PinnedRows] /\ msgs' \in [1 .. MaxMsgs -> AssignmentRows]
      /\ \A e \in 1 .. MaxEpochs : epochs'[e].gen = epochs[e].gen
  BY <1>1, TerminalRows
<1>6. \A e \in 1 .. MaxEpochs : epochs'[e].gen <= thread'.gen
  <2>1. \A e \in 1 .. MaxEpochs : epochs[e].gen \in Nat /\ epochs[e].gen <= thread.gen
    BY DEF ThreadTypeOK, EpochRows
  <2>. QED  BY <1>4, <1>5, <2>1
<1>7. ThreadTypeOK'  BY <1>1, <1>3, <1>4, <1>5, <1>6 DEF ThreadTypeOK
<1>. QED  BY <1>1, <1>3, <1>4, <1>7, TerminalizedKeepsInv

-----------------------------------------------------------------------------
\* The route a command takes: the current one as it is, or a new one that retires it.
LEMMA RouteTaken ==
    ASSUME ThreadInv, ThreadUsable, RoutePossible, epochs' = RouteEpochs, thread' = thread
    PROVE  /\ RouteEp \in 1 .. MaxEpochs /\ epochs' \in [1 .. MaxEpochs -> EpochRows] /\ epochs'[RouteEp].st = "live"
           /\ \A e \in 1 .. MaxEpochs : epochs'[e].gen <= thread'.gen /\ (epochs'[e].st = "live" => e = RouteEp)
           /\ \/ ReadyRoute(Current) /\ RouteEp = Current /\ epochs' = epochs
              \/ ~ReadyRoute(Current) /\ RouteOpened(RouteEp)
<1>. USE DEF ThreadInv
<1>1. /\ epochs \in [1 .. MaxEpochs -> EpochRows] /\ thread.gen \in Nat
      /\ \A e \in 1 .. MaxEpochs : epochs[e].gen <= thread.gen
  BY DEF ThreadTypeOK, ThreadRows
<1>2. /\ Current \in 1 .. MaxEpochs /\ epochs[Current].st = "live" /\ epochs[Current].gen = thread.gen
      /\ \A e \in 1 .. MaxEpochs : epochs[e].st = "live" => e = Current
  BY CurrentEpoch
<1>3. CASE ReadyRoute(Current)
  <2>1. epochs' = epochs /\ RouteEp = Current  BY <1>3 DEF RouteEpochs, RouteEp
  <2>. QED  BY <1>1, <1>2, <1>3, <2>1
<1>4. CASE ~ReadyRoute(Current)
  <2>. DEFINE i == NextUnused(epochs)
              c == Current
              next == NextConnection(c)
              last == [epochs[c] EXCEPT !.st = "retired", !.rt = "stopped", !.cred = FALSE]
  <2>1. epochs' = Advanced(c) /\ RouteEp = i /\ Unused(epochs) # {}
    BY <1>4 DEF RouteEpochs, RouteEp, RoutePossible
  <2>2. i \in 1 .. MaxEpochs /\ epochs[i].st = "none" /\ \A e \in 1 .. MaxEpochs : epochs[e].st = "none" <=> i <= e
    BY <1>1, <2>1, ThreadNumbers, NextUnusedRow DEF ThreadRowsBound
  <2>3. next \in EpochRows /\ next.st = "live" /\ next.gen = thread.gen /\ ~next.cred
    <3>1. epochs[c].conn \in Nat  BY <1>1, <1>2 DEF EpochRows
    <3>2. epochs[c].conn + 1 \in Nat  BY <3>1
    <3>. QED  BY <1>1, <3>2 DEF NextConnection, EpochRows
  <2>4. epochs' = [epochs EXCEPT ![c] = last, ![i] = next]  BY <2>1 DEF Advanced
  <2>5. c \in 1 .. MaxEpochs /\ epochs[c].st = "live" /\ \A e \in 1 .. MaxEpochs : epochs[e].st = "live" => e = c
    BY <1>2
  <2>l. last \in EpochRows /\ last.st = "retired" /\ ~last.cred /\ last.gen = epochs[c].gen
    <3>1. epochs[c] \in EpochRows  BY <1>1, <1>2
    <3>. QED  BY <3>1 DEF EpochRows
  <2>. HIDE DEF i, c, next, last
  <2>6. c # i  BY <2>2, <2>5
  <2>7. /\ epochs' \in [1 .. MaxEpochs -> EpochRows] /\ epochs'[i] = next
        /\ epochs'[c].st = "retired" /\ ~epochs'[c].cred /\ epochs'[c].gen = epochs[c].gen
        /\ \A e \in 1 .. MaxEpochs : e # i /\ e # c => epochs'[e] = epochs[e]
    BY <1>1, <2>2, <2>3, <2>4, <2>5, <2>6, <2>l
  <2>8. \A e \in 1 .. MaxEpochs : epochs[e].st # "none" => /\ epochs'[e].st = "retired" /\ ~epochs'[e].cred
                                                           /\ epochs'[e].gen = epochs[e].gen
    <3>. SUFFICES ASSUME NEW e \in 1 .. MaxEpochs, epochs[e].st # "none", e # c
                  PROVE  epochs'[e].st = "retired" /\ ~epochs'[e].cred /\ epochs'[e].gen = epochs[e].gen
      BY <2>7
    <3>1. epochs[e].st # "live" /\ ~epochs[e].cred  BY <2>5 DEF EpochsCurrent
    <3>2. epochs[e].st = "retired"  BY <1>1, <3>1 DEF EpochRows
    <3>3. e # i  BY <2>2
    <3>. QED  BY <2>7, <3>1, <3>2, <3>3
  <2>9. \A e \in 1 .. MaxEpochs : e # i /\ epochs[e].st = "none" => epochs'[e] = epochs[e]  BY <2>5, <2>7
  <2>10. RouteOpened(i)  BY <2>2, <2>3, <2>7, <2>8, <2>9 DEF RouteOpened
  <2>11. \A e \in 1 .. MaxEpochs : epochs'[e].st = "live" => e = i  BY <2>8, <2>9
  <2>12. \A e \in 1 .. MaxEpochs : epochs'[e].gen <= thread'.gen
    <3>1. \A e \in 1 .. MaxEpochs : epochs'[e].gen = epochs[e].gen \/ epochs'[e].gen = thread.gen
      BY <2>3, <2>7
    <3>. QED  BY <1>1, <3>1
  <2>. QED  BY <1>4, <2>1, <2>2, <2>3, <2>7, <2>10, <2>11, <2>12
<1>. QED  BY <1>3, <1>4

\* A command gives Work w a new Attempt a on epoch ep, whose Assignment is delivery n; the Work's
\* earlier Attempts are ended, none of them while its delivery is claimed.
AssignmentGiven(w, ep, a, n) ==
    /\ w \in 1 .. MaxBound /\ ep \in 1 .. MaxEpochs /\ a \in 1 .. MaxAtts /\ n \in 1 .. MaxMsgs
    /\ \A b \in 1 .. MaxAtts : atts[b].st = "none" <=> a <= b
    /\ \A m \in 1 .. MaxMsgs : msgs[m].st = "none" <=> n <= m
    /\ atts'[a] = [st |-> "assigned", work |-> w, ep |-> ep]
    /\ \A b \in 1 .. MaxAtts : b # a =>
          /\ atts'[b].work = atts[b].work /\ atts'[b].ep = atts[b].ep
          /\ IF atts[b].work = w THEN atts'[b].st \in EndedStates ELSE atts'[b] = atts[b]
          /\ \A m \in 1 .. MaxMsgs : msgs[m].at = b /\ msgs[m].st = "leased" /\ atts[b].st \in Running =>
                atts'[b].st = atts[b].st
    /\ msgs'[n] = [st |-> "queued", at |-> a, tk |-> FALSE]
    /\ \A m \in 1 .. MaxMsgs : m # n =>
          /\ msgs'[m].at = msgs[m].at /\ (msgs'[m].tk => msgs[m].tk)
          /\ msgs'[m].st = msgs[m].st \/ (Unclaimed(m) /\ msgs'[m].st = "dead")
          /\ msgs[m].st = "none" => msgs'[m] = msgs[m]

\* Its route is the current one, or a new one when nothing ran on the old.
AssignmentRoute(ep) ==
    /\ epochs'[ep].st = "live"
    /\ \/ epochs' = epochs
       \/ /\ RouteOpened(ep) /\ \A b \in 1 .. MaxAtts : atts[b].st \notin Running
          /\ \A m \in 1 .. MaxMsgs : ~msgs'[m].tk

\* The command keeps every running Attempt on the current route, and gives the new one alone.
LEMMA AssignmentKeepsInv ==
    ASSUME ThreadInv, thread' = thread, thread.st = "active", ThreadTypeOK', TookOnce',
           NEW w, NEW ep, NEW a, NEW n, AssignmentGiven(w, ep, a, n), AssignmentRoute(ep),
           RowsNumbered(works, MaxBound)',
           works'[w].st = "active", works'[w].gen = thread.gen, works'[w].bd = "none",
           \A v \in 1 .. MaxBound : v # w => works'[v] = works[v]
    PROVE  ThreadInv'
<1>. USE DEF ThreadInv
<1>1. /\ w \in 1 .. MaxBound /\ ep \in 1 .. MaxEpochs /\ a \in 1 .. MaxAtts /\ n \in 1 .. MaxMsgs
      /\ atts[a].st = "none" /\ msgs[n].st = "none"
  BY DEF AssignmentGiven
<1>2. /\ RowsNumbered(epochs, MaxEpochs)' /\ EpochsCurrent'
      /\ \A e \in 1 .. MaxEpochs : epochs'[e].st = "none" => epochs'[e] = NoEpoch
      /\ \A e \in 1 .. MaxEpochs : epochs[e].st # "none" => epochs'[e].st # "none"
  <2>1. CASE epochs' = epochs
    <3>1. RowsNumbered(epochs, MaxEpochs)'  BY <2>1 DEF ThreadRowsBound, RowsNumbered
    <3>2. EpochsCurrent'  BY <2>1 DEF EpochsCurrent
    <3>. QED  BY <2>1, <3>1, <3>2 DEF ThreadRowsBound
  <2>2. CASE RouteOpened(ep)  BY <2>2, RouteOpenedIsCurrent
  <2>. QED  BY <2>1, <2>2 DEF AssignmentRoute
<1>3. \A b \in 1 .. MaxAtts : atts[b].work = w => atts[b].st # "none" /\ b # a
  BY <1>1 DEF ThreadRowsBound, NoPinned
<1>4. \A b \in 1 .. MaxAtts : /\ atts[b].st = "none" /\ b # a => atts'[b] = atts[b]
                              /\ atts'[b].st = "none" <=> (atts[b].st = "none" /\ b # a)
  BY <1>1, <1>3 DEF AssignmentGiven, EndedStates
<1>5. \A m \in 1 .. MaxMsgs : msgs'[m].st = "none" <=> (msgs[m].st = "none" /\ m # n)
  BY <1>1 DEF AssignmentGiven, Unclaimed
<1>6. ThreadRowsBound'
  <2>1. RowsNumbered(atts, MaxAtts)'
    <3>1. \A b \in 1 .. MaxAtts : atts'[b].st = "none" <=> b > a  BY <1>1, <1>4 DEF AssignmentGiven
    <3>2. a \in 0 .. MaxAtts  BY <1>1
    <3>. QED  BY <3>1, <3>2 DEF RowsNumbered
  <2>2. RowsNumbered(msgs, MaxMsgs)'
    <3>1. \A m \in 1 .. MaxMsgs : msgs'[m].st = "none" <=> m > n  BY <1>1, <1>5 DEF AssignmentGiven
    <3>2. n \in 0 .. MaxMsgs  BY <1>1
    <3>. QED  BY <3>1, <3>2 DEF RowsNumbered
  <2>3. \A v \in 1 .. MaxBound : /\ works'[v].st = "none" => works'[v] = NoBound
                                 /\ works[v].st # "none" => works'[v].st # "none"
    BY DEF ThreadRowsBound
  <2>4. \A b \in 1 .. MaxAtts :
          IF atts'[b].st = "none" THEN atts'[b] = NoPinned
          ELSE /\ atts'[b].work \in 1 .. MaxBound /\ works'[atts'[b].work].st # "none"
               /\ atts'[b].ep \in 1 .. MaxEpochs /\ epochs'[atts'[b].ep].st # "none"
    <3>. SUFFICES ASSUME NEW b \in 1 .. MaxAtts
                  PROVE  IF atts'[b].st = "none" THEN atts'[b] = NoPinned
                         ELSE /\ atts'[b].work \in 1 .. MaxBound /\ works'[atts'[b].work].st # "none"
                              /\ atts'[b].ep \in 1 .. MaxEpochs /\ epochs'[atts'[b].ep].st # "none"
      OBVIOUS
    <3>1. CASE b = a
      <4>1. atts'[b] = [st |-> "assigned", work |-> w, ep |-> ep]  BY <3>1 DEF AssignmentGiven
      <4>. QED  BY <1>1, <4>1 DEF AssignmentRoute
    <3>2. CASE b # a /\ atts[b].st = "none"  BY <1>4, <3>2 DEF ThreadRowsBound
    <3>3. CASE b # a /\ atts[b].st # "none"
      <4>1. atts'[b].work = atts[b].work /\ atts'[b].ep = atts[b].ep  BY <3>3 DEF AssignmentGiven
      <4>. QED  BY <1>2, <1>4, <2>3, <3>3, <4>1 DEF ThreadRowsBound
    <3>. QED  BY <3>1, <3>2, <3>3
  <2>5. \A m \in 1 .. MaxMsgs : IF msgs'[m].st = "none" THEN msgs'[m] = NoMsg
                                ELSE msgs'[m].at \in 1 .. MaxAtts /\ atts'[msgs'[m].at].st # "none"
    <3>. SUFFICES ASSUME NEW m \in 1 .. MaxMsgs
                  PROVE  IF msgs'[m].st = "none" THEN msgs'[m] = NoMsg
                         ELSE msgs'[m].at \in 1 .. MaxAtts /\ atts'[msgs'[m].at].st # "none"
      OBVIOUS
    <3>1. CASE m = n
      <4>1. msgs'[m] = [st |-> "queued", at |-> a, tk |-> FALSE]  BY <3>1 DEF AssignmentGiven
      <4>. QED  BY <1>1, <1>4, <4>1
    <3>2. CASE m # n /\ msgs[m].st = "none"  BY <1>5, <3>2 DEF ThreadRowsBound, AssignmentGiven
    <3>3. CASE m # n /\ msgs[m].st # "none"
      <4>1. msgs'[m].at = msgs[m].at  BY <3>3 DEF AssignmentGiven
      <4>. QED  BY <1>4, <1>5, <3>3, <4>1 DEF ThreadRowsBound
    <3>. QED  BY <3>1, <3>2, <3>3
  <2>. QED  BY <1>2, <2>1, <2>2, <2>3, <2>4, <2>5 DEF ThreadRowsBound
<1>7. WorksCurrent'
  <2>1. \A v \in 1 .. MaxBound : v # w /\ works[v].st = "active" =>
           \E b \in 1 .. MaxAtts : atts'[b].work = v /\ atts'[b].st \in Running \cup {"waiting"}
    <3>. SUFFICES ASSUME NEW v \in 1 .. MaxBound, v # w, works[v].st = "active"
                  PROVE  \E b \in 1 .. MaxAtts : atts'[b].work = v /\ atts'[b].st \in Running \cup {"waiting"}
      OBVIOUS
    <3>1. PICK b \in 1 .. MaxAtts : atts[b].work = v /\ atts[b].st \in Running \cup {"waiting"}
      BY DEF WorksCurrent
    <3>2. atts'[b] = atts[b]  BY <1>1, <3>1 DEF AssignmentGiven, Running
    <3>. QED  BY <3>1, <3>2
  <2>2. atts'[a].work = w /\ atts'[a].st \in Running \cup {"waiting"}  BY DEF AssignmentGiven, Running
  <2>. QED  BY <1>1, <2>1, <2>2 DEF WorksCurrent
<1>8. \A b \in 1 .. MaxAtts : b # a /\ atts'[b].st \in Running \cup {"waiting"} =>
         /\ atts[b].work # w /\ atts'[b] = atts[b] /\ atts[b].work \in 1 .. MaxBound /\ atts[b].ep \in 1 .. MaxEpochs
  <2>. SUFFICES ASSUME NEW b \in 1 .. MaxAtts, b # a, atts'[b].st \in Running \cup {"waiting"}
                PROVE  /\ atts[b].work # w /\ atts'[b] = atts[b]
                       /\ atts[b].work \in 1 .. MaxBound /\ atts[b].ep \in 1 .. MaxEpochs
    OBVIOUS
  <2>1. atts[b].work # w  BY DEF AssignmentGiven, Running, EndedStates
  <2>2. atts'[b] = atts[b]  BY <2>1 DEF AssignmentGiven
  <2>. QED  BY <2>1, <2>2 DEF ThreadRowsBound, Running
<1>9. AttsCurrent'
  <2>1. atts'[a].work = w /\ atts'[a].ep = ep  BY DEF AssignmentGiven
  <2>2. \A b \in 1 .. MaxAtts : atts'[b].st \in Running \cup {"waiting"} => works'[atts'[b].work].st = "active"
    BY <1>8, <2>1 DEF AttsCurrent
  <2>3. \A b \in 1 .. MaxAtts : atts'[b].st \in Running => /\ works'[atts'[b].work].bd = "none"
                                                           /\ epochs'[atts'[b].ep].st = "live"
    BY <1>8, <2>1 DEF AttsCurrent, AssignmentRoute
  <2>4. \A b, c \in 1 .. MaxAtts :
          b < c /\ atts'[c].st # "none" /\ atts'[b].work = atts'[c].work => atts'[b].st \in EndedStates
    <3>. SUFFICES ASSUME NEW b \in 1 .. MaxAtts, NEW c \in 1 .. MaxAtts,
                         b < c, atts'[c].st # "none", atts'[b].work = atts'[c].work
                  PROVE  atts'[b].st \in EndedStates
      OBVIOUS
    <3>1. c <= a
      <4>1. c # a => atts[c].st # "none"  BY <1>4
      <4>. QED  BY <1>1, <4>1 DEF AssignmentGiven
    <3>2. b # a  BY <1>1, <3>1
    <3>3. CASE atts[b].work = w  BY <3>2, <3>3 DEF AssignmentGiven
    <3>4. CASE atts[b].work # w
      <4>1. atts'[b] = atts[b]  BY <3>2, <3>4 DEF AssignmentGiven
      <4>2. c # a  BY <2>1, <3>4, <4>1
      <4>3. atts[c].st # "none" /\ atts[c].work = atts[b].work  BY <1>4, <4>1, <4>2 DEF AssignmentGiven
      <4>. QED  BY <4>1, <4>3 DEF AttsCurrent
    <3>. QED  BY <3>3, <3>4
  <2>. QED  BY <2>2, <2>3, <2>4 DEF AttsCurrent
<1>10. AttOf(n)' = atts'[a] /\ atts'[a].ep = ep  BY <1>1, ThreadNumbers DEF AttOf, AssignmentGiven
<1>11. \A m \in 1 .. MaxMsgs : m # n /\ msgs[m].st # "none" =>
         /\ msgs[m].at \in 1 .. MaxAtts /\ msgs[m].at # a /\ AttOf(m) = atts[msgs[m].at]
         /\ AttOf(m)' = atts'[msgs[m].at] /\ AttOf(m)'.ep = AttOf(m).ep
         /\ AttOf(m).ep \in 1 .. MaxEpochs /\ epochs[AttOf(m).ep].st # "none"
         /\ epochs'[AttOf(m).ep].st = "live" => epochs' = epochs
  <2>. SUFFICES ASSUME NEW m \in 1 .. MaxMsgs, m # n, msgs[m].st # "none"
                PROVE  /\ msgs[m].at \in 1 .. MaxAtts /\ msgs[m].at # a /\ AttOf(m) = atts[msgs[m].at]
                       /\ AttOf(m)' = atts'[msgs[m].at] /\ AttOf(m)'.ep = AttOf(m).ep
                       /\ AttOf(m).ep \in 1 .. MaxEpochs /\ epochs[AttOf(m).ep].st # "none"
                       /\ epochs'[AttOf(m).ep].st = "live" => epochs' = epochs
    OBVIOUS
  <2>1. /\ msgs[m].at \in 1 .. MaxAtts /\ AttOf(m) = atts[msgs[m].at] /\ atts[msgs[m].at].st # "none"
        /\ AttOf(m).ep \in 1 .. MaxEpochs /\ epochs[AttOf(m).ep].st # "none"
    BY DeliveryAttempt
  <2>2. msgs[m].at # a  BY <1>1, <2>1
  <2>3. AttOf(m)' = atts'[msgs[m].at]  BY <2>1, ThreadNumbers DEF AttOf, AssignmentGiven
  <2>4. AttOf(m)'.ep = AttOf(m).ep  BY <2>1, <2>2, <2>3 DEF AssignmentGiven
  <2>5. epochs'[AttOf(m).ep].st = "live" => epochs' = epochs
    BY <2>1 DEF AssignmentRoute, RouteOpened
  <2>. QED  BY <2>1, <2>2, <2>3, <2>4, <2>5
<1>12. \A m \in 1 .. MaxMsgs : m # n => /\ msgs'[m].at = msgs[m].at /\ (msgs'[m].tk => msgs[m].tk)
                                        /\ msgs'[m].st = msgs[m].st \/ msgs'[m].st = "dead"
                                        /\ msgs[m].st = "none" => msgs'[m] = msgs[m]
  BY DEF AssignmentGiven
<1>13. MsgsCurrent'
  <2>. SUFFICES ASSUME NEW m \in 1 .. MaxMsgs
                PROVE  /\ msgs'[m].st = "leased" /\ epochs'[AttOf(m)'.ep].st = "live" => AttOf(m)'.st \in Running
                       /\ msgs'[m].tk => /\ msgs'[m].st = "leased" /\ epochs'[AttOf(m)'.ep].st = "live"
                                         /\ epochs'[AttOf(m)'.ep].rt = "busy"
    BY DEF MsgsCurrent
  <2>1. CASE m = n  BY <2>1 DEF AssignmentGiven
  <2>2. ASSUME m # n, msgs'[m].st = "leased", epochs'[AttOf(m)'.ep].st = "live"  PROVE  AttOf(m)'.st \in Running
    <3>1. msgs[m].st = "leased"  BY <1>12, <2>2
    <3>2. epochs[AttOf(m).ep].st = "live"  BY <1>11, <2>2, <3>1
    <3>3. AttOf(m).st \in Running  BY <3>1, <3>2 DEF MsgsCurrent
    <3>4. AttOf(m)'.st = AttOf(m).st  BY <1>11, <2>2, <3>1, <3>3 DEF AssignmentGiven
    <3>. QED  BY <3>3, <3>4
  <2>3. ASSUME m # n, msgs'[m].tk
        PROVE  msgs'[m].st = "leased" /\ epochs'[AttOf(m)'.ep].st = "live" /\ epochs'[AttOf(m)'.ep].rt = "busy"
    <3>1. msgs[m].tk /\ msgs[m].st = "leased" /\ epochs[AttOf(m).ep].st = "live" /\ epochs[AttOf(m).ep].rt = "busy"
      BY <1>12, <2>3 DEF MsgsCurrent
    <3>2. epochs' = epochs  BY <2>3 DEF AssignmentRoute
    <3>3. msgs'[m].st = "leased"  BY <2>3, <3>1 DEF AssignmentGiven, Unclaimed
    <3>. QED  BY <1>11, <2>3, <3>1, <3>2, <3>3
  <2>. QED  BY <2>1, <2>2, <2>3
<1>14. \A m \in 1 .. MaxMsgs : m # n /\ IsOpen(m)' => IsOpen(m) /\ msgs[m].st # "none"
  BY <1>12 DEF IsOpen
<1>15. OneOpen'
  <2>. SUFFICES ASSUME NEW m \in 1 .. MaxMsgs, NEW l \in 1 .. MaxMsgs,
                       IsOpen(m)', IsOpen(l)', msgs'[m].at = msgs'[l].at, AttOf(m)'.st \in Running
                PROVE  m = l
    BY DEF OneOpen
  <2>1. msgs'[n].at = a  BY DEF AssignmentGiven
  <2>2. \A x \in 1 .. MaxMsgs : x # n /\ IsOpen(x)' => msgs'[x].at # a  BY <1>11, <1>12, <1>14
  <2>3. CASE m = n \/ l = n  BY <2>1, <2>2, <2>3
  <2>4. CASE m # n /\ l # n
    <3>1. IsOpen(m) /\ IsOpen(l) /\ msgs[m].at = msgs[l].at /\ msgs[m].st # "none"  BY <1>12, <1>14, <2>4
    <3>2. AttOf(m).st \in Running  BY <1>8, <1>11, <2>4, <3>1
    <3>. QED  BY <3>1, <3>2 DEF OneOpen
  <2>. QED  BY <2>3, <2>4
<1>16. \A m \in 1 .. MaxMsgs : Serving(m)' =>
          m # n /\ Serving(m) /\ msgs[m].st # "none" /\ epochs' = epochs /\ AttOf(m)'.ep = AttOf(m).ep
  <2>. SUFFICES ASSUME NEW m \in 1 .. MaxMsgs, Serving(m)'
                PROVE  m # n /\ Serving(m) /\ msgs[m].st # "none" /\ epochs' = epochs /\ AttOf(m)'.ep = AttOf(m).ep
    OBVIOUS
  <2>1. m # n
    <3>1. ~msgs'[n].tk /\ msgs'[n].st # "dispatched"  BY DEF AssignmentGiven
    <3>. QED  BY <3>1 DEF Serving
  <2>2. msgs[m].tk \/ msgs[m].st = "dispatched"  BY <1>12, <2>1 DEF Serving
  <2>3. msgs[m].st # "none"  BY <2>2, BlankDelivery
  <2>. QED  BY <1>11, <2>1, <2>2, <2>3 DEF Serving
<1>17. OneServing'  BY <1>16 DEF OneServing
<1>. QED  BY <1>2, <1>6, <1>7, <1>9, <1>13, <1>15, <1>17

\* Dead-lettering ends only deliveries that nobody claimed, and keeps every ticket.
LEMMA DeadLetteredRows ==
    ASSUME ThreadTypeOK, NEW ended
    PROVE  /\ DeadLettered(msgs, ended) \in [1 .. MaxMsgs -> AssignmentRows]
           /\ \A m \in 1 .. MaxMsgs :
                 /\ DeadLettered(msgs, ended)[m].at = msgs[m].at /\ DeadLettered(msgs, ended)[m].tk = msgs[m].tk
                 /\ \/ DeadLettered(msgs, ended)[m] = msgs[m]
                    \/ Unclaimed(m) /\ DeadLettered(msgs, ended)[m].st = "dead" /\ msgs[m].at \in ended
<1>1. msgs \in [1 .. MaxMsgs -> AssignmentRows]  BY DEF ThreadTypeOK
<1>2. ASSUME NEW m \in 1 .. MaxMsgs
      PROVE  /\ DeadLettered(msgs, ended)[m] \in AssignmentRows
             /\ DeadLettered(msgs, ended)[m].at = msgs[m].at /\ DeadLettered(msgs, ended)[m].tk = msgs[m].tk
             /\ \/ DeadLettered(msgs, ended)[m] = msgs[m]
                \/ Unclaimed(m) /\ DeadLettered(msgs, ended)[m].st = "dead" /\ msgs[m].at \in ended
  <2>1. CASE Unclaimed(m) /\ msgs[m].at \in ended
    <3>1. DeadLettered(msgs, ended)[m] = [msgs[m] EXCEPT !.st = "dead"]  BY <2>1 DEF DeadLettered
    <3>. QED  BY <1>1, <2>1, <3>1 DEF AssignmentRows
  <2>2. CASE ~(Unclaimed(m) /\ msgs[m].at \in ended)
    <3>1. DeadLettered(msgs, ended)[m] = msgs[m]  BY <2>2 DEF DeadLettered
    <3>. QED  BY <1>1, <3>1
  <2>. QED  BY <2>1, <2>2
<1>3. DeadLettered(msgs, ended) \in [1 .. MaxMsgs -> AssignmentRows]  BY <1>2 DEF DeadLettered
<1>. QED  BY <1>2, <1>3

\* Revoking the tickets of epochs changes nothing else of a delivery.
LEMMA TicketsRevokedRows ==
    ASSUME NEW table \in [1 .. MaxMsgs -> AssignmentRows], NEW es
    PROVE  /\ TicketsRevoked(table, es) \in [1 .. MaxMsgs -> AssignmentRows]
           /\ \A m \in 1 .. MaxMsgs :
                 /\ TicketsRevoked(table, es)[m].at = table[m].at /\ TicketsRevoked(table, es)[m].st = table[m].st
                 /\ TicketsRevoked(table, es)[m].tk => table[m].tk /\ AttOf(m).ep \notin es
                 /\ ~table[m].tk => TicketsRevoked(table, es)[m] = table[m]
<1>1. ASSUME NEW m \in 1 .. MaxMsgs
      PROVE  /\ TicketsRevoked(table, es)[m] \in AssignmentRows
             /\ TicketsRevoked(table, es)[m].at = table[m].at /\ TicketsRevoked(table, es)[m].st = table[m].st
             /\ TicketsRevoked(table, es)[m].tk => table[m].tk /\ AttOf(m).ep \notin es
             /\ ~table[m].tk => TicketsRevoked(table, es)[m] = table[m]
  <2>1. CASE AttOf(m).ep \in es
    <3>1. TicketsRevoked(table, es)[m] = [table[m] EXCEPT !.tk = FALSE]  BY <2>1 DEF TicketsRevoked
    <3>. QED  BY <3>1 DEF AssignmentRows
  <2>2. CASE AttOf(m).ep \notin es
    <3>1. TicketsRevoked(table, es)[m] = table[m]  BY <2>2 DEF TicketsRevoked
    <3>. QED  BY <2>2, <3>1
  <2>. QED  BY <2>1, <2>2
<1>2. TicketsRevoked(table, es) \in [1 .. MaxMsgs -> AssignmentRows]  BY <1>1 DEF TicketsRevoked
<1>. QED  BY <1>1, <1>2

\* The deliveries as they were, but for dead-lettered ones.
BaseRows(table) ==
    /\ table \in [1 .. MaxMsgs -> AssignmentRows]
    /\ \A m \in 1 .. MaxMsgs :
          /\ table[m].at = msgs[m].at /\ table[m].tk = msgs[m].tk
          /\ table[m] = msgs[m] \/ (Unclaimed(m) /\ table[m].st = "dead")

\* The deliveries after a command: its own in the first blank row; epochs es lost their tickets.
AssignmentRowGiven(n, a, es) ==
    /\ n \in 1 .. MaxMsgs /\ \A m \in 1 .. MaxMsgs : msgs[m].st = "none" <=> n <= m
    /\ msgs' \in [1 .. MaxMsgs -> AssignmentRows]
    /\ msgs'[n] = [st |-> "queued", at |-> a, tk |-> FALSE]
    /\ \A m \in 1 .. MaxMsgs : m # n =>
          /\ msgs'[m].at = msgs[m].at /\ (msgs'[m].tk => msgs[m].tk /\ AttOf(m).ep \notin es)
          /\ msgs'[m].st = msgs[m].st \/ (Unclaimed(m) /\ msgs'[m].st = "dead")
          /\ msgs[m].st = "none" => msgs'[m] = msgs[m]

\* What Instruct, Continue and Replace write is that.
LEMMA AssignmentRow ==
    ASSUME ThreadTypeOK, ThreadRowsBound, Unused(msgs) # {}, NEW a \in 1 .. MaxAtts,
           NEW table, BaseRows(table), NEW es, NEW n, n = NextUnused(msgs),
           msgs' = [TicketsRevoked(table, es) EXCEPT ![n] = [st |-> "queued", at |-> a, tk |-> FALSE]]
    PROVE  AssignmentRowGiven(n, a, es)
<1>. DEFINE row == [st |-> "queued", at |-> a, tk |-> FALSE]
            base == TicketsRevoked(table, es)
<1>1. msgs \in [1 .. MaxMsgs -> AssignmentRows] /\ table \in [1 .. MaxMsgs -> AssignmentRows]
  BY DEF ThreadTypeOK, BaseRows
<1>2. n \in 1 .. MaxMsgs /\ \A m \in 1 .. MaxMsgs : msgs[m].st = "none" <=> n <= m
  <2>1. /\ NextUnused(msgs) \in 1 .. MaxMsgs
        /\ \A m \in 1 .. MaxMsgs : msgs[m].st = "none" <=> NextUnused(msgs) <= m
    BY <1>1, ThreadNumbers, NextUnusedRow DEF ThreadRowsBound
  <2>. QED  BY <2>1
<1>3. row \in AssignmentRows  BY ThreadNumbers DEF AssignmentRows
<1>4. /\ base \in [1 .. MaxMsgs -> AssignmentRows]
      /\ \A m \in 1 .. MaxMsgs : /\ base[m].at = table[m].at /\ base[m].st = table[m].st
                                 /\ base[m].tk => table[m].tk /\ AttOf(m).ep \notin es
                                 /\ ~table[m].tk => base[m] = table[m]
  BY <1>1, TicketsRevokedRows
<1>5. msgs' = [base EXCEPT ![n] = row]  OBVIOUS
<1>. HIDE DEF row, base
<1>6. /\ msgs' \in [1 .. MaxMsgs -> AssignmentRows] /\ msgs'[n] = row
      /\ \A m \in 1 .. MaxMsgs : m # n => msgs'[m] = base[m]
  BY <1>2, <1>3, <1>4, <1>5
<1>7. ASSUME NEW m \in 1 .. MaxMsgs, m # n
      PROVE  /\ msgs'[m].at = msgs[m].at /\ (msgs'[m].tk => msgs[m].tk /\ AttOf(m).ep \notin es)
             /\ msgs'[m].st = msgs[m].st \/ (Unclaimed(m) /\ msgs'[m].st = "dead")
             /\ msgs[m].st = "none" => msgs'[m] = msgs[m]
  <2>1. /\ table[m].at = msgs[m].at /\ table[m].tk = msgs[m].tk
        /\ table[m] = msgs[m] \/ (Unclaimed(m) /\ table[m].st = "dead")
    BY DEF BaseRows
  <2>2. msgs'[m].at = msgs[m].at /\ (msgs'[m].tk => msgs[m].tk /\ AttOf(m).ep \notin es)
    BY <1>4, <1>6, <1>7, <2>1
  <2>3. msgs'[m].st = msgs[m].st \/ (Unclaimed(m) /\ msgs'[m].st = "dead")  BY <1>4, <1>6, <1>7, <2>1
  <2>4. msgs[m].st = "none" => msgs'[m] = msgs[m]
    <3>. SUFFICES ASSUME msgs[m].st = "none"  PROVE  msgs'[m] = msgs[m]
      OBVIOUS
    <3>1. ~msgs[m].tk  BY BlankDelivery
    <3>2. table[m] = msgs[m]  BY <2>1 DEF Unclaimed
    <3>. QED  BY <1>4, <1>6, <1>7, <3>1, <3>2
  <2>. QED  BY <2>2, <2>3, <2>4
<1>. QED  BY <1>2, <1>6, <1>7 DEF row, AssignmentRowGiven

\* Only deliveries nobody claimed are rewritten: a claimed or submitted one keeps its outcome.
OnlyUnclaimed ==
    \A m \in 1 .. MaxMsgs :
       \/ msgs'[m].st = msgs[m].st
       \/ msgs[m].st \in {"none", "queued", "lapsed"} /\ msgs'[m].st \in {"queued", "dead"}

\* So do Instruct, Continue and Replace.
LEMMA AssignmentKeepsOutcomes ==
    ASSUME NEW n, NEW a, NEW es, AssignmentRowGiven(n, a, es)
    PROVE  OnlyUnclaimed
BY DEF AssignmentRowGiven, OnlyUnclaimed, Unclaimed

\* A retry of Work w on the route that Continue or Replace took: nothing ran on the lane.
LEMMA NewAttemptKeepsInv ==
    ASSUME ThreadInv, NEW w \in 1 .. MaxBound, WorkBound(w), ~ExecutionOwned, RoutePossible, epochs' = RouteEpochs,
           UNCHANGED <<thread, effect, reqs, done, took>>, works' = [works EXCEPT ![w].bd = "none"],
           NewAttempt(w, DeadLettered(msgs, EndedAtts))
    PROVE  ThreadInv' /\ OnlyUnclaimed
<1>. USE DEF ThreadInv
<1>. DEFINE a == NextUnused(atts)
            n == NextUnused(msgs)
            l == Latest(w)
            ep == RouteEp
            table == DeadLettered(msgs, EndedAtts)
            row == [st |-> "assigned", work |-> w, ep |-> ep]
            es == IF ReadyRoute(Current) THEN {} ELSE {Current}
<1>1. /\ works \in [1 .. MaxBound -> BoundRows] /\ atts \in [1 .. MaxAtts -> PinnedRows]
      /\ works[w].st = "active" /\ works[w].gen = thread.gen /\ ThreadUsable /\ thread.st = "active"
  BY DEF ThreadTypeOK, WorkBound, ThreadUsable
<1>2. /\ l \in 1 .. MaxAtts /\ atts[l].work = w /\ atts[l].st \in Running \cup {"waiting"}
      /\ \A b \in 1 .. MaxAtts : atts[b].work = w /\ b # l => atts[b].st \in EndedStates
  BY <1>1, LatestAttempt
<1>3. a \in 1 .. MaxAtts /\ atts[a].st = "none" /\ \A b \in 1 .. MaxAtts : atts[b].st = "none" <=> a <= b
  BY <1>1, ThreadNumbers, NextUnusedRow DEF NewAttempt, ThreadRowsBound
<1>4. /\ ep \in 1 .. MaxEpochs /\ epochs' \in [1 .. MaxEpochs -> EpochRows] /\ epochs'[ep].st = "live"
      /\ \A e \in 1 .. MaxEpochs : epochs'[e].gen <= thread'.gen
      /\ \/ ReadyRoute(Current) /\ epochs' = epochs
         \/ ~ReadyRoute(Current) /\ RouteOpened(ep)
  BY <1>1, RouteTaken
<1>5. BaseRows(table)  BY DeadLetteredRows DEF BaseRows
<1>6. /\ Unused(msgs) # {} /\ msgs' = [RouteMsgs(table) EXCEPT ![n] = [st |-> "queued", at |-> a, tk |-> FALSE]]
      /\ atts' = [atts EXCEPT ![l].st = IF @ \in EndedStates THEN @ ELSE "canceled", ![a] = row]
  BY DEF NewAttempt
<1>7. RouteMsgs(table) = TicketsRevoked(table, es)
  <2>1. CASE ReadyRoute(Current)
    <3>1. TicketsRevoked(table, {}) = [m \in 1 .. MaxMsgs |-> table[m]]  BY DEF TicketsRevoked
    <3>2. [m \in 1 .. MaxMsgs |-> table[m]] = table  BY <1>5 DEF BaseRows
    <3>. QED  BY <2>1, <3>1, <3>2 DEF RouteMsgs
  <2>2. CASE ~ReadyRoute(Current)  BY <2>2 DEF RouteMsgs
  <2>. QED  BY <2>1, <2>2
<1>8. \A e \in 1 .. MaxEpochs : epochs[e].st = "live" => e = Current  BY <1>1, CurrentEpoch
<1>9. ~ReadyRoute(Current) => Current \in es  OBVIOUS
<1>. HIDE DEF a, n, l, ep, table, row, es
<1>10. n = NextUnused(msgs) /\ row = [st |-> "assigned", work |-> w, ep |-> ep]  BY DEF n, row
<1>11. msgs' = [TicketsRevoked(table, es) EXCEPT ![n] = [st |-> "queued", at |-> a, tk |-> FALSE]]
  BY <1>6, <1>7, <1>10
<1>12. AssignmentRowGiven(n, a, es)
  <2>1. ThreadTypeOK /\ ThreadRowsBound /\ Unused(msgs) # {} /\ a \in 1 .. MaxAtts /\ n = NextUnused(msgs)
    BY <1>3, <1>6, <1>10
  <2>. HIDE DEF ThreadInv
  <2>. QED  BY <1>5, <1>11, <2>1, AssignmentRow
<1>13. row \in PinnedRows  BY <1>4, <1>10, ThreadNumbers DEF PinnedRows, Running
<1>14. a # l /\ atts[l].st \notin EndedStates  BY <1>2, <1>3 DEF Running, EndedStates
<1>15. /\ atts' \in [1 .. MaxAtts -> PinnedRows] /\ atts'[a] = row /\ atts'[l].st \in EndedStates
       /\ atts'[l].work = atts[l].work /\ atts'[l].ep = atts[l].ep
       /\ \A b \in 1 .. MaxAtts : b # a /\ b # l => atts'[b] = atts[b]
  <2>1. atts' = [atts EXCEPT ![l] = [@ EXCEPT !.st = "canceled"], ![a] = row]  BY <1>1, <1>2, <1>6, <1>14
  <2>2. [atts[l] EXCEPT !.st = "canceled"] \in PinnedRows  BY <1>1, <1>2 DEF PinnedRows, EndedStates
  <2>3. /\ atts' \in [1 .. MaxAtts -> PinnedRows] /\ atts'[a] = row /\ atts'[l] = [atts[l] EXCEPT !.st = "canceled"]
        /\ \A b \in 1 .. MaxAtts : b # a /\ b # l => atts'[b] = atts[b]
    BY <1>1, <1>2, <1>3, <1>13, <1>14, <2>1, <2>2
  <2>4. atts[l] \in PinnedRows  BY <1>1, <1>2
  <2>. QED  BY <2>3, <2>4 DEF PinnedRows, EndedStates
<1>16. /\ works' \in [1 .. MaxBound -> BoundRows] /\ works'[w].st = "active" /\ works'[w].gen = thread.gen
       /\ works'[w].bd = "none" /\ \A v \in 1 .. MaxBound : v # w => works'[v] = works[v]
  BY <1>1 DEF BoundRows
<1>17. \A b \in 1 .. MaxAtts : atts[b].st \notin Running  BY DEF ExecutionOwned
<1>18. AssignmentGiven(w, ep, a, n)
  <2>1. \A b \in 1 .. MaxAtts : b # a =>
           /\ atts'[b].work = atts[b].work /\ atts'[b].ep = atts[b].ep
           /\ IF atts[b].work = w THEN atts'[b].st \in EndedStates ELSE atts'[b] = atts[b]
    BY <1>2, <1>15
  <2>. QED  BY <1>3, <1>4, <1>10, <1>12, <1>15, <1>17, <2>1 DEF AssignmentGiven, AssignmentRowGiven
<1>19. AssignmentRoute(ep)
  <2>1. ASSUME ~ReadyRoute(Current), NEW m \in 1 .. MaxMsgs  PROVE  ~msgs'[m].tk
    <3>1. CASE m = n  BY <1>12, <3>1 DEF AssignmentRowGiven
    <3>2. ASSUME m # n, msgs'[m].tk  PROVE  FALSE
      <4>1. msgs[m].tk /\ AttOf(m).ep # Current  BY <1>9, <1>12, <2>1, <3>2 DEF AssignmentRowGiven
      <4>2. epochs[AttOf(m).ep].st = "live" /\ AttOf(m).ep \in 1 .. MaxEpochs
        <5>1. epochs[AttOf(m).ep].st = "live" /\ msgs[m].st # "none"  BY <4>1 DEF MsgsCurrent
        <5>. QED  BY <5>1, DeliveryAttempt
      <4>. QED  BY <1>8, <4>1, <4>2
    <3>. QED  BY <3>1, <3>2
  <2>. QED  BY <1>4, <1>17, <2>1 DEF AssignmentRoute
<1>20. RowsNumbered(works, MaxBound)'
  <2>1. \A v \in 1 .. MaxBound : works'[v].st = "none" <=> works[v].st = "none"  BY <1>1, <1>16
  <2>. QED  BY <2>1 DEF ThreadRowsBound, RowsNumbered
<1>21. ThreadTypeOK'  BY <1>4, <1>12, <1>15, <1>16 DEF ThreadTypeOK, AssignmentRowGiven
<1>22. TookOnce'  BY DEF TookOnce
<1>o. OnlyUnclaimed  BY <1>12, AssignmentKeepsOutcomes
<1>. QED  BY <1>o, <1>1, <1>16, <1>18, <1>19, <1>20, <1>21, <1>22, AssignmentKeepsInv

\* A goal is replaced on a settled lane.
LEMMA ReplaceGoalKeepsInv ==
    ASSUME ThreadInv, NEW w \in 1 .. MaxBound, ReplaceGoal(w)
    PROVE  ThreadInv' /\ OnlyUnclaimed
<1>1. /\ WorkBound(w) /\ RoutePossible /\ epochs' = RouteEpochs /\ UNCHANGED <<thread, effect, reqs, done, took>>
      /\ works' = [works EXCEPT ![w].bd = "none"] /\ NewAttempt(w, DeadLettered(msgs, EndedAtts))
  BY DEF ReplaceGoal
<1>2. ~ExecutionOwned  BY DEF ReplaceGoal, Blocked
<1>. QED  BY <1>1, <1>2, NewAttemptKeepsInv

\* No ticket is revoked when no epoch ends.
LEMMA NothingRevoked ==
    ASSUME NEW table \in [1 .. MaxMsgs -> AssignmentRows]
    PROVE  TicketsRevoked(table, {}) = table
<1>1. TicketsRevoked(table, {}) = [m \in 1 .. MaxMsgs |-> table[m]]  BY DEF TicketsRevoked
<1>. QED  BY <1>1

\* The Attempt that waited goes on, with one new instruction: a lane that is not blocked has no
\* other delivery open for it.
LEMMA ReuseKeepsInv ==
    ASSUME ThreadInv, NEW w \in 1 .. MaxBound, ContinueWork(w), ReadyRoute(Current), atts[Latest(w)].ep = Current
    PROVE  ThreadInv' /\ OnlyUnclaimed
<1>. USE DEF ThreadInv
<1>. DEFINE l == Latest(w)
            n == NextUnused(msgs)
            table == DeadLettered(msgs, EndedAtts)
<1>1. /\ works \in [1 .. MaxBound -> BoundRows] /\ atts \in [1 .. MaxAtts -> PinnedRows]
      /\ works[w].st = "active" /\ ThreadUsable /\ thread.st = "active"
  BY DEF ThreadTypeOK, ContinueWork, WorkBound, ThreadUsable
<1>2. /\ l \in 1 .. MaxAtts /\ atts[l].work = w /\ atts[l].st \in Running \cup {"waiting"}
  BY <1>1, LatestAttempt
<1>3. \A b \in 1 .. MaxAtts : atts[b].st \notin Running  BY DEF ContinueWork, Blocked, ExecutionOwned
<1>4. /\ epochs' = epochs /\ UNCHANGED <<thread, effect, reqs, done, took>>
      /\ works' = [works EXCEPT ![w].bd = "none"] /\ atts' = [atts EXCEPT ![l].st = "working"]
      /\ Unused(msgs) # {} /\ msgs' = [table EXCEPT ![n] = [st |-> "queued", at |-> l, tk |-> FALSE]]
  BY DEF ContinueWork, RouteEpochs
<1>5. \A m \in 1 .. MaxMsgs : IsOpen(m) => msgs[m].at # l
  <2>. SUFFICES ASSUME NEW m \in 1 .. MaxMsgs, IsOpen(m), msgs[m].at = l  PROVE  FALSE
    OBVIOUS
  <2>1. AttOf(m) = atts[l]  BY <1>2, ThreadNumbers DEF AttOf
  <2>2. atts[l].st \notin EndedStates  BY <1>2 DEF Running, EndedStates
  <2>3. DeliveryBlocks(m, w)  BY <1>2, <2>1, <2>2 DEF DeliveryBlocks, IsOpen
  <2>. QED  BY <2>3 DEF ContinueWork, Blocked
<1>6. epochs[Current].st = "live" /\ Current \in 1 .. MaxEpochs  BY <1>1, CurrentEpoch
<1>7. atts[l].ep = Current  OBVIOUS
<1>8. BaseRows(table)  BY DeadLetteredRows DEF BaseRows
<1>. HIDE DEF l, table, n
<1>9. n = NextUnused(msgs)  BY DEF n
<1>10. msgs' = [TicketsRevoked(table, {}) EXCEPT ![n] = [st |-> "queued", at |-> l, tk |-> FALSE]]
  BY <1>4, <1>8, NothingRevoked DEF BaseRows
<1>11. AssignmentRowGiven(n, l, {})
  <2>1. ThreadTypeOK /\ ThreadRowsBound /\ Unused(msgs) # {} /\ l \in 1 .. MaxAtts /\ n = NextUnused(msgs)
    BY <1>2, <1>4, <1>9
  <2>. HIDE DEF ThreadInv
  <2>. QED  BY <1>8, <1>10, <2>1, AssignmentRow
<1>12. /\ atts' \in [1 .. MaxAtts -> PinnedRows] /\ atts'[l].st = "working"
       /\ \A b \in 1 .. MaxAtts : /\ atts'[b].work = atts[b].work /\ atts'[b].ep = atts[b].ep
                                  /\ b # l => atts'[b] = atts[b]
  BY <1>1, <1>2, <1>4 DEF PinnedRows, Running
<1>13. /\ works' \in [1 .. MaxBound -> BoundRows] /\ works'[w].bd = "none"
       /\ \A v \in 1 .. MaxBound : /\ works'[v].st = works[v].st /\ works'[v].gen = works[v].gen
                                   /\ v # w => works'[v] = works[v]
  BY <1>1, <1>4 DEF BoundRows
<1>14. ThreadTypeOK'  BY <1>4, <1>11, <1>12, <1>13 DEF ThreadTypeOK, AssignmentRowGiven
<1>15. n \in 1 .. MaxMsgs /\ msgs[n].st = "none"  BY <1>11 DEF AssignmentRowGiven
<1>16. \A m \in 1 .. MaxMsgs : m # n => /\ msgs'[m].at = msgs[m].at /\ (msgs'[m].tk => msgs[m].tk)
                                        /\ msgs'[m].st = msgs[m].st \/ (Unclaimed(m) /\ msgs'[m].st = "dead")
                                        /\ msgs[m].st = "none" => msgs'[m] = msgs[m]
  BY <1>11 DEF AssignmentRowGiven
<1>17. msgs'[n].st = "queued" /\ msgs'[n].at = l /\ ~msgs'[n].tk  BY <1>11 DEF AssignmentRowGiven
<1>18. \A b \in 1 .. MaxAtts : atts'[b].st = "none" <=> atts[b].st = "none"  BY <1>2, <1>12 DEF Running
<1>19. ThreadRowsBound'
  <2>1. RowsNumbered(epochs, MaxEpochs)'  BY <1>4 DEF ThreadRowsBound, RowsNumbered
  <2>2. RowsNumbered(works, MaxBound)'
    <3>1. \A v \in 1 .. MaxBound : works'[v].st = "none" <=> works[v].st = "none"  BY <1>13
    <3>. QED  BY <3>1 DEF ThreadRowsBound, RowsNumbered
  <2>3. RowsNumbered(atts, MaxAtts)'  BY <1>18 DEF ThreadRowsBound, RowsNumbered
  <2>4. RowsNumbered(msgs, MaxMsgs)'
    <3>1. \A m \in 1 .. MaxMsgs : msgs'[m].st = "none" <=> (msgs[m].st = "none" /\ m # n)
      BY <1>15, <1>16, <1>17 DEF Unclaimed
    <3>2. \A m \in 1 .. MaxMsgs : msgs'[m].st = "none" <=> m > n
      BY <1>11, <1>15, <3>1 DEF AssignmentRowGiven
    <3>3. n \in 0 .. MaxMsgs  BY <1>15
    <3>. QED  BY <3>2, <3>3 DEF RowsNumbered
  <2>5. \A v \in 1 .. MaxBound : works'[v].st = "none" => works'[v] = NoBound
    BY <1>1, <1>13 DEF ThreadRowsBound
  <2>6. \A b \in 1 .. MaxAtts :
          IF atts'[b].st = "none" THEN atts'[b] = NoPinned
          ELSE /\ atts'[b].work \in 1 .. MaxBound /\ works'[atts'[b].work].st # "none"
               /\ atts'[b].ep \in 1 .. MaxEpochs /\ epochs'[atts'[b].ep].st # "none"
    BY <1>2, <1>4, <1>12, <1>13, <1>18 DEF ThreadRowsBound, Running
  <2>7. \A m \in 1 .. MaxMsgs : IF msgs'[m].st = "none" THEN msgs'[m] = NoMsg
                                ELSE msgs'[m].at \in 1 .. MaxAtts /\ atts'[msgs'[m].at].st # "none"
    <3>. SUFFICES ASSUME NEW m \in 1 .. MaxMsgs
                  PROVE  IF msgs'[m].st = "none" THEN msgs'[m] = NoMsg
                         ELSE msgs'[m].at \in 1 .. MaxAtts /\ atts'[msgs'[m].at].st # "none"
      OBVIOUS
    <3>1. CASE m = n  BY <1>2, <1>12, <1>17, <3>1
    <3>2. CASE m # n /\ msgs[m].st = "none"  BY <1>16, <3>2 DEF ThreadRowsBound
    <3>3. CASE m # n /\ msgs[m].st # "none"  BY <1>16, <1>18, <3>3 DEF ThreadRowsBound, Unclaimed
    <3>. QED  BY <3>1, <3>2, <3>3
  <2>8. \A e \in 1 .. MaxEpochs : epochs'[e].st = "none" => epochs'[e] = NoEpoch
    BY <1>4 DEF ThreadRowsBound
  <2>. QED  BY <2>1, <2>2, <2>3, <2>4, <2>5, <2>6, <2>7, <2>8 DEF ThreadRowsBound
<1>20. EpochsCurrent'  BY <1>4 DEF EpochsCurrent
<1>21. WorksCurrent'
  <2>1. \A b \in 1 .. MaxAtts : atts[b].st \in Running \cup {"waiting"} => atts'[b].st \in Running \cup {"waiting"}
    BY <1>12 DEF Running
  <2>. QED  BY <1>1, <1>4, <1>12, <1>13, <2>1 DEF WorksCurrent
<1>22. AttsCurrent'
  <2>1. \A b \in 1 .. MaxAtts : atts'[b].st \in Running => b = l  BY <1>3, <1>12
  <2>2. \A b \in 1 .. MaxAtts : atts'[b].st \in Running \cup {"waiting"} => atts[b].st \in Running \cup {"waiting"}
    BY <1>2, <1>12
  <2>3. \A b \in 1 .. MaxAtts : atts[b].st \in Running \cup {"waiting"} => atts[b].work \in 1 .. MaxBound
    BY DEF ThreadRowsBound, Running
  <2>4. \A b \in 1 .. MaxAtts : atts'[b].st \in Running \cup {"waiting"} => works'[atts'[b].work].st = "active"
    BY <1>12, <1>13, <2>2, <2>3 DEF AttsCurrent
  <2>5. \A b \in 1 .. MaxAtts : atts'[b].st \in Running => /\ works'[atts'[b].work].bd = "none"
                                                           /\ epochs'[atts'[b].ep].st = "live"
    BY <1>2, <1>4, <1>6, <1>7, <1>12, <1>13, <2>1
  <2>6. \A b, c \in 1 .. MaxAtts :
          b < c /\ atts'[c].st # "none" /\ atts'[b].work = atts'[c].work => atts'[b].st \in EndedStates
    <3>. SUFFICES ASSUME NEW b \in 1 .. MaxAtts, NEW c \in 1 .. MaxAtts,
                         b < c, atts'[c].st # "none", atts'[b].work = atts'[c].work
                  PROVE  atts'[b].st \in EndedStates
      OBVIOUS
    <3>1. atts[b].st \in EndedStates  BY <1>12, <1>18 DEF AttsCurrent
    <3>2. b # l  BY <1>2, <3>1 DEF Running, EndedStates
    <3>. QED  BY <1>12, <3>1, <3>2
  <2>. QED  BY <2>4, <2>5, <2>6 DEF AttsCurrent
<1>23. \A m \in 1 .. MaxMsgs : m # n /\ msgs[m].st # "none" =>
          /\ AttOf(m)' = atts'[msgs[m].at] /\ AttOf(m)'.ep = AttOf(m).ep /\ msgs[m].at \in 1 .. MaxAtts
          /\ AttOf(m) = atts[msgs[m].at]
  <2>. SUFFICES ASSUME NEW m \in 1 .. MaxMsgs, m # n, msgs[m].st # "none"
                PROVE  /\ AttOf(m)' = atts'[msgs[m].at] /\ AttOf(m)'.ep = AttOf(m).ep /\ msgs[m].at \in 1 .. MaxAtts
                       /\ AttOf(m) = atts[msgs[m].at]
    OBVIOUS
  <2>1. msgs[m].at \in 1 .. MaxAtts /\ AttOf(m) = atts[msgs[m].at]  BY DeliveryAttempt
  <2>2. AttOf(m)' = atts'[msgs[m].at]  BY <1>16, <2>1, ThreadNumbers DEF AttOf
  <2>. QED  BY <1>12, <2>1, <2>2
<1>24. MsgsCurrent'
  <2>. SUFFICES ASSUME NEW m \in 1 .. MaxMsgs
                PROVE  /\ msgs'[m].st = "leased" /\ epochs'[AttOf(m)'.ep].st = "live" => AttOf(m)'.st \in Running
                       /\ msgs'[m].tk => /\ msgs'[m].st = "leased" /\ epochs'[AttOf(m)'.ep].st = "live"
                                         /\ epochs'[AttOf(m)'.ep].rt = "busy"
    BY <1>1, <1>4 DEF MsgsCurrent
  <2>1. CASE m = n  BY <1>17, <2>1
  <2>2. ASSUME m # n, msgs'[m].st = "leased", epochs'[AttOf(m)'.ep].st = "live"  PROVE  AttOf(m)'.st \in Running
    <3>1. msgs[m].st = "leased"  BY <1>16, <2>2
    <3>2. AttOf(m).st \in Running  BY <1>4, <1>23, <2>2, <3>1 DEF MsgsCurrent
    <3>. QED  BY <1>3, <1>23, <2>2, <3>1, <3>2
  <2>3. ASSUME m # n, msgs'[m].tk
        PROVE  msgs'[m].st = "leased" /\ epochs'[AttOf(m)'.ep].st = "live" /\ epochs'[AttOf(m)'.ep].rt = "busy"
    <3>1. msgs[m].tk /\ msgs[m].st = "leased" /\ epochs[AttOf(m).ep].st = "live" /\ epochs[AttOf(m).ep].rt = "busy"
      BY <1>16, <2>3 DEF MsgsCurrent
    <3>2. msgs'[m].st = "leased"  BY <1>16, <2>3, <3>1 DEF Unclaimed
    <3>. QED  BY <1>4, <1>23, <2>3, <3>1, <3>2
  <2>. QED  BY <2>1, <2>2, <2>3
<1>25. OneOpen'
  <2>. SUFFICES ASSUME NEW m \in 1 .. MaxMsgs, NEW o \in 1 .. MaxMsgs,
                       IsOpen(m)', IsOpen(o)', msgs'[m].at = msgs'[o].at, AttOf(m)'.st \in Running
                PROVE  m = o
    BY DEF OneOpen
  <2>1. \A x \in 1 .. MaxMsgs : x # n /\ IsOpen(x)' => IsOpen(x) /\ msgs'[x].at # l
    BY <1>5, <1>16 DEF IsOpen
  <2>2. CASE m # n
    <3>1. IsOpen(m) /\ msgs[m].at # l /\ msgs[m].st # "none"  BY <1>16, <2>1, <2>2 DEF IsOpen
    <3>. QED  BY <1>3, <1>12, <1>23, <2>2, <3>1
  <2>3. CASE m = n /\ o # n  BY <1>17, <2>1, <2>3
  <2>. QED  BY <2>2, <2>3
<1>26. OneServing'
  <2>1. \A m \in 1 .. MaxMsgs : Serving(m)' => m # n /\ Serving(m) /\ AttOf(m)'.ep = AttOf(m).ep
    <3>. SUFFICES ASSUME NEW m \in 1 .. MaxMsgs, Serving(m)'  PROVE  m # n /\ Serving(m) /\ AttOf(m)'.ep = AttOf(m).ep
      OBVIOUS
    <3>1. m # n  BY <1>17 DEF Serving
    <3>2. msgs[m].tk \/ msgs[m].st = "dispatched"  BY <1>16, <3>1 DEF Serving
    <3>3. msgs[m].st # "none"  BY <3>2, BlankDelivery
    <3>. QED  BY <1>4, <1>23, <3>1, <3>2, <3>3 DEF Serving
  <2>. QED  BY <1>4, <2>1 DEF OneServing
<1>27. TookOnce'  BY <1>4 DEF TookOnce
<1>o. OnlyUnclaimed  BY <1>11, AssignmentKeepsOutcomes
<1>. QED  BY <1>o, <1>14, <1>19, <1>20, <1>21, <1>22, <1>24, <1>25, <1>26, <1>27

\* Continue, on the same route or on a new one.
LEMMA ContinueKeepsInv ==
    ASSUME ThreadInv, NEW w \in 1 .. MaxBound, ContinueWork(w)
    PROVE  ThreadInv' /\ OnlyUnclaimed
<1>1. CASE ReadyRoute(Current) /\ atts[Latest(w)].ep = Current  BY <1>1, ReuseKeepsInv
<1>2. CASE ~(ReadyRoute(Current) /\ atts[Latest(w)].ep = Current)
  <2>1. /\ WorkBound(w) /\ RoutePossible /\ epochs' = RouteEpochs /\ UNCHANGED <<thread, effect, reqs, done, took>>
        /\ works' = [works EXCEPT ![w].bd = "none"] /\ NewAttempt(w, DeadLettered(msgs, EndedAtts))
    BY <1>2 DEF ContinueWork
  <2>2. ~ExecutionOwned  BY DEF ContinueWork, Blocked
  <2>. QED  BY <2>1, <2>2, NewAttemptKeepsInv
<1>. QED  BY <1>1, <1>2

\* A queued Assignment nobody claimed is replaced on its own route.
LEMMA ReplaceQueuedKeepsInv ==
    ASSUME ThreadInv, NEW w \in 1 .. MaxBound, ReplaceQueued(w)
    PROVE  ThreadInv' /\ OnlyUnclaimed
<1>. USE DEF ThreadInv
<1>. DEFINE a == NextUnused(atts)
            n == NextUnused(msgs)
            l == Latest(w)
            ep == Current
            ended == EndedAtts \cup {l}
            table == DeadLettered(msgs, ended)
            row == [st |-> "assigned", work |-> w, ep |-> ep]
<1>1. /\ works \in [1 .. MaxBound -> BoundRows] /\ atts \in [1 .. MaxAtts -> PinnedRows]
      /\ works[w].st = "active" /\ works[w].gen = thread.gen /\ ThreadUsable /\ thread.st = "active"
  BY DEF ThreadTypeOK, ReplaceQueued, WorkBound, ThreadUsable
<1>2. /\ l \in 1 .. MaxAtts /\ atts[l].work = w /\ atts[l].st = "assigned"
      /\ \A b \in 1 .. MaxAtts : atts[b].work = w /\ b # l => atts[b].st \in EndedStates
      /\ \A m \in 1 .. MaxMsgs : msgs[m].at = l => msgs[m].st = "queued"
  BY <1>1, LatestAttempt DEF ReplaceQueued, UnclaimedTask
<1>3. a \in 1 .. MaxAtts /\ atts[a].st = "none" /\ \A b \in 1 .. MaxAtts : atts[b].st = "none" <=> a <= b
  BY <1>1, ThreadNumbers, NextUnusedRow DEF ReplaceQueued, ThreadRowsBound
<1>4. /\ UNCHANGED <<thread, epochs, works, effect, reqs, done, took>> /\ Unused(msgs) # {}
      /\ msgs' = [table EXCEPT ![n] = [st |-> "queued", at |-> a, tk |-> FALSE]]
      /\ atts' = [atts EXCEPT ![l].st = "canceled", ![a] = row]
  BY DEF ReplaceQueued
<1>5. BaseRows(table)  BY DeadLetteredRows DEF BaseRows
<1>6. ep \in 1 .. MaxEpochs /\ epochs[ep].st = "live"  BY <1>1, CurrentEpoch
<1>. HIDE DEF a, n, l, ep, ended, table, row
<1>7. n = NextUnused(msgs) /\ row = [st |-> "assigned", work |-> w, ep |-> ep]  BY DEF n, row
<1>8. msgs' = [TicketsRevoked(table, {}) EXCEPT ![n] = [st |-> "queued", at |-> a, tk |-> FALSE]]
  BY <1>4, <1>5, NothingRevoked DEF BaseRows
<1>9. AssignmentRowGiven(n, a, {})
  <2>1. ThreadTypeOK /\ ThreadRowsBound /\ Unused(msgs) # {} /\ a \in 1 .. MaxAtts /\ n = NextUnused(msgs)
    BY <1>3, <1>4, <1>7
  <2>. HIDE DEF ThreadInv
  <2>. QED  BY <1>5, <1>8, <2>1, AssignmentRow
<1>10. row \in PinnedRows  BY <1>6, <1>7, ThreadNumbers DEF PinnedRows, Running
<1>11. a # l  BY <1>2, <1>3
<1>12. /\ atts' \in [1 .. MaxAtts -> PinnedRows] /\ atts'[a] = row /\ atts'[l].st \in EndedStates
       /\ atts'[l].work = atts[l].work /\ atts'[l].ep = atts[l].ep
       /\ \A b \in 1 .. MaxAtts : b # a /\ b # l => atts'[b] = atts[b]
  <2>1. [atts[l] EXCEPT !.st = "canceled"] \in PinnedRows  BY <1>1, <1>2 DEF PinnedRows, EndedStates
  <2>2. /\ atts' \in [1 .. MaxAtts -> PinnedRows] /\ atts'[a] = row /\ atts'[l] = [atts[l] EXCEPT !.st = "canceled"]
        /\ \A b \in 1 .. MaxAtts : b # a /\ b # l => atts'[b] = atts[b]
    BY <1>1, <1>2, <1>3, <1>4, <1>10, <1>11, <2>1
  <2>3. atts[l] \in PinnedRows  BY <1>1, <1>2
  <2>. QED  BY <2>2, <2>3 DEF PinnedRows, EndedStates
<1>13. AssignmentGiven(w, ep, a, n)
  <2>1. \A b \in 1 .. MaxAtts : b # a =>
           /\ atts'[b].work = atts[b].work /\ atts'[b].ep = atts[b].ep
           /\ IF atts[b].work = w THEN atts'[b].st \in EndedStates ELSE atts'[b] = atts[b]
    BY <1>2, <1>12
  <2>2. \A b \in 1 .. MaxAtts, m \in 1 .. MaxMsgs :
           b # a /\ msgs[m].at = b /\ msgs[m].st = "leased" => atts'[b].st = atts[b].st
    BY <1>2, <1>12
  <2>. QED  BY <1>3, <1>6, <1>7, <1>9, <1>12, <2>1, <2>2 DEF AssignmentGiven, AssignmentRowGiven
<1>14. AssignmentRoute(ep)  BY <1>4, <1>6 DEF AssignmentRoute
<1>15. works'[w].bd = "none"  BY <1>2, <1>4 DEF AttsCurrent, Running
<1>16. RowsNumbered(works, MaxBound)'  BY <1>4 DEF ThreadRowsBound, RowsNumbered
<1>17. ThreadTypeOK' /\ TookOnce'  BY <1>4, <1>9, <1>12 DEF ThreadTypeOK, TookOnce, AssignmentRowGiven
<1>o. OnlyUnclaimed  BY <1>9, AssignmentKeepsOutcomes
<1>. QED  BY <1>o, <1>1, <1>4, <1>13, <1>14, <1>15, <1>16, <1>17, AssignmentKeepsInv

\* Instruct gives a new Work an Assignment: beside a running Attempt on its route, otherwise on a
\* route that is ready.
LEMMA InstructKeepsInv ==
    ASSUME ThreadInv, NEW k \in Keys, Instruct(k)
    PROVE  ThreadInv' /\ OnlyUnclaimed
<1>. USE DEF ThreadInv
<1>1. /\ works \in [1 .. MaxBound -> BoundRows] /\ atts \in [1 .. MaxAtts -> PinnedRows]
      /\ epochs \in [1 .. MaxEpochs -> EpochRows] /\ msgs \in [1 .. MaxMsgs -> AssignmentRows]
      /\ thread.gen \in Nat /\ thread.pv \in 0 .. MaxPurpose
      /\ \A e \in 1 .. MaxEpochs : epochs[e].gen <= thread.gen
  BY DEF ThreadTypeOK, ThreadRows
<1>2. /\ ThreadUsable /\ thread.st = "active" /\ thread' = thread
      /\ Unused(works) # {} /\ Unused(atts) # {} /\ Unused(msgs) # {}
      /\ Admitted(k, "instruct") /\ Applied(k) /\ UNCHANGED <<thread, effect, reqs>>
  BY DEF Instruct, ThreadUsable
<1>3. PICK ep \in 1 .. MaxEpochs :
        /\ epochs' \in [1 .. MaxEpochs -> EpochRows] /\ epochs'[ep].st = "live"
        /\ \A e \in 1 .. MaxEpochs : epochs'[e].gen <= thread'.gen /\ (epochs'[e].st = "live" => e = ep)
        /\ epochs' = epochs \/ (RouteOpened(ep) /\ ~ExecutionOwned)
  <2>1. CASE ExecutionOwned
    <3>1. epochs' = epochs  BY <2>1 DEF Instruct, CreateRoute
    <3>2. /\ Current \in 1 .. MaxEpochs /\ epochs[Current].st = "live"
          /\ \A e \in 1 .. MaxEpochs : epochs[e].st = "live" => e = Current
      BY <1>2, CurrentEpoch
    <3>. QED  BY <1>1, <1>2, <3>1, <3>2
  <2>2. CASE ~ExecutionOwned
    <3>1. RoutePossible /\ epochs' = RouteEpochs  BY <2>2 DEF Instruct, CreateRoute
    <3>. QED  BY <1>2, <2>2, <3>1, RouteTaken
  <2>. QED  BY <2>1, <2>2
<1>4. (CHOOSE e \in 1 .. MaxEpochs : epochs'[e].st = "live") = ep  BY <1>3
<1>. DEFINE w == NextUnused(works)
            a == NextUnused(atts)
            n == NextUnused(msgs)
            row == [st |-> "assigned", work |-> w, ep |-> ep]
            es == {e \in 1 .. MaxEpochs : epochs'[e].st = "retired"}
            new == NewWork
<1>5. /\ works' = [works EXCEPT ![w] = new] /\ atts' = [atts EXCEPT ![a] = row]
      /\ msgs' = [TicketsRevoked(msgs, es) EXCEPT ![n] = [st |-> "queued", at |-> a, tk |-> FALSE]]
  BY <1>4 DEF Instruct
<1>6. w \in 1 .. MaxBound /\ works[w].st = "none" /\ \A v \in 1 .. MaxBound : works[v].st = "none" <=> w <= v
  BY <1>1, <1>2, ThreadNumbers, NextUnusedRow DEF ThreadRowsBound
<1>7. a \in 1 .. MaxAtts /\ atts[a].st = "none" /\ \A b \in 1 .. MaxAtts : atts[b].st = "none" <=> a <= b
  BY <1>1, <1>2, ThreadNumbers, NextUnusedRow DEF ThreadRowsBound
<1>8. new \in BoundRows /\ new.st = "active" /\ new.gen = thread.gen /\ new.bd = "none"
  BY <1>1 DEF NewWork, BoundRows
<1>9. row \in PinnedRows  BY <1>3, <1>6, ThreadNumbers DEF PinnedRows, Running
<1>10. BaseRows(msgs)  BY <1>1 DEF BaseRows
<1>11. \A e \in 1 .. MaxEpochs : epochs'[e].st = "retired" => e \in es  OBVIOUS
<1>. HIDE DEF w, a, n, row, es, new
<1>12. n = NextUnused(msgs) /\ row = [st |-> "assigned", work |-> w, ep |-> ep]  BY DEF n, row
<1>13. AssignmentRowGiven(n, a, es)
  <2>1. ThreadTypeOK /\ ThreadRowsBound /\ Unused(msgs) # {} /\ a \in 1 .. MaxAtts /\ n = NextUnused(msgs)
    BY <1>2, <1>7, <1>12
  <2>. HIDE DEF ThreadInv
  <2>. QED  BY <1>5, <1>10, <2>1, AssignmentRow
<1>14. /\ works' \in [1 .. MaxBound -> BoundRows] /\ works'[w] = new
       /\ \A v \in 1 .. MaxBound : v # w => works'[v] = works[v]
  BY <1>1, <1>5, <1>6, <1>8
<1>15. /\ atts' \in [1 .. MaxAtts -> PinnedRows] /\ atts'[a] = row
       /\ \A b \in 1 .. MaxAtts : b # a => atts'[b] = atts[b]
  BY <1>1, <1>5, <1>7, <1>9
<1>16. AssignmentGiven(w, ep, a, n)
  <2>1. \A b \in 1 .. MaxAtts : atts[b].work # w  BY <1>6 DEF ThreadRowsBound, NoPinned
  <2>2. \A b \in 1 .. MaxAtts : b # a =>
           /\ atts'[b].work = atts[b].work /\ atts'[b].ep = atts[b].ep
           /\ IF atts[b].work = w THEN atts'[b].st \in EndedStates ELSE atts'[b] = atts[b]
    BY <1>15, <2>1
  <2>. QED  BY <1>3, <1>6, <1>7, <1>12, <1>13, <1>15, <2>2 DEF AssignmentGiven, AssignmentRowGiven
<1>17. AssignmentRoute(ep)
  <2>1. ASSUME RouteOpened(ep), NEW m \in 1 .. MaxMsgs, msgs'[m].tk  PROVE  FALSE
    <3>1. m # n  BY <1>13, <2>1 DEF AssignmentRowGiven
    <3>2. msgs[m].tk /\ AttOf(m).ep \notin es  BY <1>13, <2>1, <3>1 DEF AssignmentRowGiven
    <3>3. epochs[AttOf(m).ep].st = "live" /\ AttOf(m).ep \in 1 .. MaxEpochs
      <4>1. epochs[AttOf(m).ep].st = "live" /\ msgs[m].st # "none"  BY <3>2 DEF MsgsCurrent
      <4>. QED  BY <4>1, DeliveryAttempt
    <3>4. epochs'[AttOf(m).ep].st = "retired"  BY <2>1, <3>3 DEF RouteOpened
    <3>. QED  BY <1>11, <3>2, <3>3, <3>4
  <2>. QED  BY <1>3, <2>1 DEF AssignmentRoute, ExecutionOwned
<1>18. RowsNumbered(works, MaxBound)'
  <2>1. \A v \in 1 .. MaxBound : works'[v].st = "none" <=> v > w  BY <1>6, <1>8, <1>14
  <2>2. w \in 0 .. MaxBound  BY <1>6
  <2>. QED  BY <2>1, <2>2 DEF RowsNumbered
<1>19. took' \in [Keys -> 0 .. 2] /\ done' \subseteq {j \in Keys : reqs'[j].op # "none"} /\ TookOnce'
  <2>1. "instruct" \in Ops  BY <1>2, ThreadAssumption DEF Admitted, ThreadTypeOK, RequestRows, ThreadConstants
  <2>. QED  BY <1>2, <2>1, AppliedIsRecorded
<1>20. ThreadTypeOK'
  <2>1. msgs' \in [1 .. MaxMsgs -> AssignmentRows]  BY <1>13 DEF AssignmentRowGiven
  <2>. QED  BY <1>2, <1>3, <1>14, <1>15, <1>19, <2>1 DEF ThreadTypeOK
<1>21. works'[w].st = "active" /\ works'[w].gen = thread.gen /\ works'[w].bd = "none"  BY <1>8, <1>14
<1>o. OnlyUnclaimed  BY <1>13, AssignmentKeepsOutcomes
<1>. QED  BY <1>o, <1>2, <1>14, <1>16, <1>17, <1>18, <1>19, <1>20, <1>21, AssignmentKeepsInv

-----------------------------------------------------------------------------
\* A thread starts in order: none, or one that was just created.
LEMMA ThreadInitInv == ThreadInit => ThreadInv
<1>. SUFFICES ASSUME ThreadInit  PROVE  ThreadInv
  OBVIOUS
<1>1. /\ works = [w \in 1 .. MaxBound |-> NoBound] /\ atts = [a \in 1 .. MaxAtts |-> NoPinned]
      /\ msgs = [m \in 1 .. MaxMsgs |-> NoMsg] /\ effect = "none"
      /\ reqs = [k \in Keys |-> NoReq] /\ done = {} /\ took = [k \in Keys |-> 0]
  BY DEF ThreadInit
<1>2. /\ \A w \in 1 .. MaxBound : works[w].st = "none" /\ works[w].bd = "none" /\ works[w] = NoBound
      /\ \A a \in 1 .. MaxAtts : atts[a].st = "none" /\ atts[a] = NoPinned
      /\ \A m \in 1 .. MaxMsgs : msgs[m].st = "none" /\ ~msgs[m].tk /\ msgs[m] = NoMsg
  BY <1>1 DEF NoBound, NoPinned, NoMsg
<1>3. /\ works \in [1 .. MaxBound -> BoundRows] /\ atts \in [1 .. MaxAtts -> PinnedRows]
      /\ msgs \in [1 .. MaxMsgs -> AssignmentRows] /\ reqs \in [Keys -> RequestRows]
  <2>1. NoBound \in BoundRows /\ NoPinned \in PinnedRows  BY ThreadNumbers DEF NoBound, NoPinned, BoundRows, PinnedRows
  <2>2. NoMsg \in AssignmentRows /\ NoReq \in RequestRows
    BY ThreadNumbers DEF NoMsg, NoReq, AssignmentRows, RequestRows
  <2>. QED  BY <1>1, <2>1, <2>2
<1>4. /\ thread \in ThreadRows /\ epochs \in [1 .. MaxEpochs -> EpochRows] /\ EpochsCurrent
      /\ \A e \in 1 .. MaxEpochs : epochs[e].gen <= thread.gen
      /\ \A e \in 1 .. MaxEpochs : epochs[e].st = "none" => epochs[e] = NoEpoch
      /\ RowsNumbered(epochs, MaxEpochs)
  <2>1. NoEpoch \in EpochRows /\ FirstEpoch \in EpochRows  BY DEF NoEpoch, FirstEpoch, EpochRows
  <2>2. CASE /\ thread = [st |-> "none", gen |-> 0, spec |-> "none", pv |-> 0]
             /\ epochs = [e \in 1 .. MaxEpochs |-> NoEpoch]
    <3>1. thread \in ThreadRows  BY <2>2, ThreadNumbers DEF ThreadRows
    <3>2. epochs \in [1 .. MaxEpochs -> EpochRows]  BY <2>1, <2>2
    <3>3. \A e \in 1 .. MaxEpochs : epochs[e] = NoEpoch /\ epochs[e].gen = 0 /\ epochs[e].st = "none" /\ ~epochs[e].cred
      BY <2>2 DEF NoEpoch
    <3>4. EpochsCurrent  BY <3>3 DEF EpochsCurrent
    <3>5. RowsNumbered(epochs, MaxEpochs)
      <4>1. 0 \in 0 .. MaxEpochs /\ \A e \in 1 .. MaxEpochs : e > 0  BY ThreadNumbers
      <4>. QED  BY <3>3, <4>1 DEF RowsNumbered
    <3>. QED  BY <2>2, <3>1, <3>2, <3>3, <3>4, <3>5
  <2>3. CASE /\ thread = [st |-> "active", gen |-> 1, spec |-> "enabled", pv |-> 1]
             /\ epochs = [e \in 1 .. MaxEpochs |-> IF e = 1 THEN FirstEpoch ELSE NoEpoch]
    <3>1. thread \in ThreadRows  BY <2>3, ThreadNumbers DEF ThreadRows
    <3>2. epochs \in [1 .. MaxEpochs -> EpochRows]  BY <2>1, <2>3
    <3>3. /\ 1 \in 1 .. MaxEpochs /\ epochs[1] = FirstEpoch
          /\ epochs[1].st = "live" /\ epochs[1].gen = 1 /\ ~epochs[1].cred
      BY <2>3, ThreadNumbers DEF FirstEpoch
    <3>4. \A e \in 1 .. MaxEpochs : e # 1 => /\ epochs[e] = NoEpoch /\ epochs[e].st = "none"
                                             /\ epochs[e].gen = 0 /\ ~epochs[e].cred
      BY <2>3 DEF NoEpoch
    <3>5. EpochsCurrent
      <4>1. thread.st = "active" /\ thread.gen = 1  BY <2>3
      <4>. QED  BY <3>3, <3>4, <4>1 DEF EpochsCurrent
    <3>6. RowsNumbered(epochs, MaxEpochs)
      <4>1. 1 \in 0 .. MaxEpochs /\ \A e \in 1 .. MaxEpochs : epochs[e].st = "none" <=> e > 1  BY <3>3, <3>4
      <4>. QED  BY <4>1 DEF RowsNumbered
    <3>. QED  BY <2>3, <3>1, <3>2, <3>3, <3>4, <3>5, <3>6
  <2>. QED  BY <2>2, <2>3 DEF ThreadInit
<1>5. ThreadTypeOK  BY <1>1, <1>3, <1>4 DEF ThreadTypeOK
<1>6. ThreadRowsBound
  <2>1. RowsNumbered(works, MaxBound) /\ RowsNumbered(atts, MaxAtts) /\ RowsNumbered(msgs, MaxMsgs)
    <3>1. /\ \A w \in 1 .. MaxBound : w > 0
          /\ \A a \in 1 .. MaxAtts : a > 0
          /\ \A m \in 1 .. MaxMsgs : m > 0
          /\ 0 \in 0 .. MaxBound /\ 0 \in 0 .. MaxAtts /\ 0 \in 0 .. MaxMsgs
      BY ThreadNumbers
    <3>. QED  BY <1>2, <3>1 DEF RowsNumbered
  <2>. QED  BY <1>2, <1>4, <2>1 DEF ThreadRowsBound
<1>7. WorksCurrent  BY <1>2 DEF WorksCurrent
<1>8. AttsCurrent  BY <1>2 DEF AttsCurrent, Running
<1>9. MsgsCurrent /\ OneOpen  BY <1>2 DEF MsgsCurrent, OneOpen, IsOpen
<1>10. OneServing  BY <1>2 DEF OneServing, Serving
<1>11. TookOnce  BY <1>1 DEF TookOnce
<1>. QED  BY <1>4, <1>5, <1>6, <1>7, <1>8, <1>9, <1>10, <1>11 DEF ThreadInv

\* What one step does, named for its handler.
RequestStep ==
    \E k \in Keys : \/ \E op \in Ops : Send(k, op)
                    \/ NewThread(k) \/ SetPurpose(k) \/ Instruct(k)
                    \/ Finish(k) \/ Resume(k) \/ Delete(k)
WorkStep == \E w \in 1 .. MaxBound : ContinueWork(w) \/ ReplaceQueued(w) \/ ReplaceGoal(w)
DeliveryStep ==
    \E m \in 1 .. MaxMsgs : Lease(m) \/ IssueLaunchTicket(m) \/ SubmitAssignment(m) \/ DeliveryLapses(m)
                            \/ Requeue(m) \/ TurnEnds(m) \/ OutcomeUnknown(m)

\* Every handler keeps the thread in order.
LEMMA ThreadStepInv == ThreadInv /\ [ThreadNext]_threads => ThreadInv'
<1>. SUFFICES ASSUME ThreadInv, [ThreadNext]_threads  PROVE  ThreadInv'
  OBVIOUS
<1>1. CASE RequestStep
  <2>1. ASSUME NEW k \in Keys, \E op \in Ops : Send(k, op)  PROVE  ThreadInv'  BY <2>1, SendKeepsInv
  <2>2. ASSUME NEW k \in Keys, NewThread(k) \/ SetPurpose(k) \/ Instruct(k)  PROVE  ThreadInv'
    BY <2>2, NewThreadKeepsInv, SetPurposeKeepsInv, InstructKeepsInv
  <2>3. ASSUME NEW k \in Keys, Finish(k) \/ Resume(k) \/ Delete(k)  PROVE  ThreadInv'
    BY <2>3, FinishKeepsInv, ResumeKeepsInv, DeleteKeepsInv
  <2>. QED  BY <1>1, <2>1, <2>2, <2>3 DEF RequestStep
<1>2. CASE WorkStep  BY <1>2, ContinueKeepsInv, ReplaceQueuedKeepsInv, ReplaceGoalKeepsInv DEF WorkStep
<1>3. CASE DeliveryStep
  BY <1>3, LeaseKeepsInv, TicketKeepsInv, SubmitKeepsInv, LapseKeepsInv, RequeueKeepsInv,
     TurnEndsKeepsInv, OutcomeUnknownKeepsInv DEF DeliveryStep
<1>4. CASE \E e \in 1 .. MaxEpochs : ConnectionLost(e)  BY <1>4, ConnectionLostKeepsInv
<1>5. CASE Effect  BY <1>5, EffectKeepsInv
<1>6. CASE UNCHANGED threads
  <2>1. UNCHANGED <<thread, epochs, works, atts, msgs, effect, reqs, done, took>>  BY <1>6 DEF threads
  <2>2. ThreadTypeOK' /\ TookOnce'  BY <2>1 DEF ThreadInv, ThreadTypeOK, TookOnce
  <2>. QED  BY <2>1, <2>2, RowsUntouched DEF ThreadInv
<1>. QED  BY <1>1, <1>2, <1>3, <1>4, <1>5, <1>6 DEF ThreadNext, RequestStep, WorkStep, DeliveryStep

\* The rows of a thread stay in order.
THEOREM ThreadInOrder == ThreadSpec => []ThreadInv
BY ThreadInitInv, ThreadStepInv, PTL DEF ThreadSpec

\* From the order of its rows: one authority, no stranded Attempt, a settled end.
LEMMA ThreadInvSettled == ThreadInv => ThreadSettled
<1>. SUFFICES ASSUME ThreadInv  PROVE  ThreadSettled
  OBVIOUS
<1>. USE DEF ThreadInv
<1>1. Cardinality(LiveEpochs) <= 1
  <2>1. CASE LiveEpochs = {}  BY <2>1, FS_EmptySet
  <2>2. CASE LiveEpochs # {}
    <3>1. PICK e : LiveEpochs = {e}  BY <2>2 DEF LiveEpochs, EpochsCurrent
    <3>. QED  BY <3>1, FS_Singleton
  <2>. QED  BY <2>1, <2>2
<1>2. OneAuthority
  <2>1. \A e \in 1 .. MaxEpochs : epochs[e].cred => epochs[e].st = "live"  BY DEF EpochsCurrent
  <2>2. \A m \in 1 .. MaxMsgs : msgs[m].tk => epochs[AttOf(m).ep].st = "live"  BY DEF MsgsCurrent
  <2>3. \A e \in 1 .. MaxEpochs : epochs[e].st = "live" => thread.st = "active" /\ epochs[e].gen = thread.gen
    BY DEF EpochsCurrent
  <2>. QED  BY <1>1, <2>1, <2>2, <2>3 DEF OneAuthority
<1>3. AppliedOnce  BY DEF AppliedOnce, TookOnce
<1>4. \A a \in 1 .. MaxAtts : atts[a].st \in Running \cup {"waiting"} => thread.st = "active"
  <2>1. \A a \in 1 .. MaxAtts : atts[a].st \in Running \cup {"waiting"} => atts[a].work \in 1 .. MaxBound
    BY DEF ThreadRowsBound, Running
  <2>. QED  BY <2>1 DEF AttsCurrent, WorksCurrent
<1>5. NoStrandedAttempt  BY <1>4 DEF NoStrandedAttempt, AttsCurrent
<1>6. FinishedIsSettled
  <2>1. \A w \in 1 .. MaxBound : thread.st # "active" => works[w].st # "active" /\ works[w].bd = "none"
    BY DEF WorksCurrent
  <2>2. \A a \in 1 .. MaxAtts : thread.st # "active" => atts[a].st \in EndedStates \cup {"none"}
    <3>1. atts \in [1 .. MaxAtts -> PinnedRows]  BY DEF ThreadTypeOK
    <3>. QED  BY <1>4, <3>1 DEF PinnedRows
  <2>3. \A m \in 1 .. MaxMsgs : thread.st # "active" => msgs[m].st # "queued"  BY DEF MsgsCurrent
  <2>. QED  BY <2>1, <2>2, <2>3 DEF FinishedIsSettled
<1>. QED  BY <1>2, <1>3, <1>5, <1>6 DEF ThreadSettled

\* In every state a thread is settled: one route holds authority, a request takes effect once, no
\* running Attempt is left on a replaced route, and a finished thread asks for nothing.
THEOREM ThreadIsSettled == ThreadSpec => []ThreadSettled
BY ThreadInOrder, ThreadInvSettled, PTL

-----------------------------------------------------------------------------
\* A step that creates no Work starts none under any purpose.
NoWorkCreated == \A w \in 1 .. MaxBound : works[w].st = "none" => works'[w].st # "active"
LEMMA NoWorkNoPurpose == NoWorkCreated => PurposeRead
BY DEF NoWorkCreated, PurposeRead

\* A command rewrites only deliveries nobody claimed, and no effect: what was dispatched keeps
\* its outcome, and nothing is dispatched again.
LEMMA CommandsKeepOutcomes ==
    ASSUME OnlyUnclaimed, effect' = effect
    PROVE  NothingRedispatched /\ UnknownKept
<1>1. NothingRedispatched  BY DEF OnlyUnclaimed, NothingRedispatched
<1>2. UnknownKept  BY DEF OnlyUnclaimed, UnknownKept
<1>. QED  BY <1>1, <1>2

\* Finish and Delete leave what is leased, dispatched or delivered as it is.
LEMMA TerminalizedKeepsOutcomes ==
    ASSUME ThreadInv, Terminalized, effect' = effect
    PROVE  PurposeRead /\ NothingRedispatched /\ UnknownKept
<1>1. /\ \A m \in 1 .. MaxMsgs : ~Unclaimed(m) => msgs'[m].st = msgs[m].st
      /\ \A m \in 1 .. MaxMsgs : msgs'[m].st \notin {"queued", "lapsed"}
      /\ \A w \in 1 .. MaxBound : works'[w].st # "active"
  BY TerminalRows
<1>2. \A m \in 1 .. MaxMsgs : Unclaimed(m) => msgs'[m].st = "dead"
  BY DEF Terminalized, TerminalMsgs, ThreadInv, ThreadTypeOK, AssignmentRows
<1>3. PurposeRead  BY <1>1 DEF PurposeRead
<1>4. NothingRedispatched  BY <1>1, <1>2 DEF NothingRedispatched
<1>5. UnknownKept  BY <1>1 DEF UnknownKept, Unclaimed
<1>. QED  BY <1>3, <1>4, <1>5

\* Each request of a client: only Instruct creates a Work, under the purpose its client read.
LEMMA RequestMovesOn ==
    ASSUME ThreadInv, RequestStep
    PROVE  PurposeRead /\ NothingRedispatched /\ UnknownKept
<1>1. PICK k \in Keys : \/ \E op \in Ops : Send(k, op)
                        \/ NewThread(k) \/ SetPurpose(k) \/ Instruct(k)
                        \/ Finish(k) \/ Resume(k) \/ Delete(k)
  BY DEF RequestStep
<1>2. CASE (\E op \in Ops : Send(k, op)) \/ NewThread(k) \/ SetPurpose(k) \/ Resume(k)
  <2>1. msgs' = msgs /\ effect' = effect /\ works' = works  BY <1>2 DEF Send, NewThread, SetPurpose, Resume
  <2>2. OnlyUnclaimed /\ NoWorkCreated  BY <2>1 DEF OnlyUnclaimed, NoWorkCreated
  <2>. QED  BY <2>1, <2>2, CommandsKeepOutcomes, NoWorkNoPurpose
<1>3. CASE Instruct(k)
  <2>1. OnlyUnclaimed /\ effect' = effect  BY <1>3, InstructKeepsInv DEF Instruct
  <2>2. PurposeRead
    <3>1. reqs[k].op = "instruct" /\ reqs[k].seen = thread.pv  BY <1>3 DEF Instruct, Admitted, PurposeConfirmed
    <3>2. works' = [works EXCEPT ![NextUnused(works)] = NewWork] /\ NewWork.pv = thread.pv
      BY <1>3 DEF Instruct, NewWork
    <3>3. works \in [1 .. MaxBound -> BoundRows]  BY DEF ThreadInv, ThreadTypeOK
    <3>4. \A w \in 1 .. MaxBound : works[w].st = "none" /\ works'[w].st = "active" => works'[w].pv = thread.pv
      BY <3>2, <3>3
    <3>. QED  BY <3>1, <3>4 DEF PurposeRead
  <2>. QED  BY <2>1, <2>2, CommandsKeepOutcomes
<1>4. CASE Finish(k) \/ Delete(k)
  <2>1. Terminalized /\ effect' = effect  BY <1>4 DEF Finish, Delete
  <2>. QED  BY <2>1, TerminalizedKeepsOutcomes
<1>. QED  BY <1>1, <1>2, <1>3, <1>4

\* Continue and Replace only close a boundary, and instruct.
LEMMA WorkMovesOn ==
    ASSUME ThreadInv, WorkStep
    PROVE  PurposeRead /\ NothingRedispatched /\ UnknownKept
<1>1. PICK w \in 1 .. MaxBound : ContinueWork(w) \/ ReplaceQueued(w) \/ ReplaceGoal(w)  BY DEF WorkStep
<1>2. OnlyUnclaimed /\ effect' = effect
  <2>1. effect' = effect  BY <1>1 DEF ContinueWork, ReplaceQueued, ReplaceGoal
  <2>. QED  BY <1>1, <2>1, ContinueKeepsInv, ReplaceQueuedKeepsInv, ReplaceGoalKeepsInv
<1>3. NoWorkCreated
  <2>1. works \in [1 .. MaxBound -> BoundRows]  BY DEF ThreadInv, ThreadTypeOK
  <2>2. works' = works \/ works' = [works EXCEPT ![w].bd = "none"]
    BY <1>1 DEF ContinueWork, ReplaceQueued, ReplaceGoal
  <2>. QED  BY <2>1, <2>2 DEF NoWorkCreated, BoundRows
<1>. QED  BY <1>2, <1>3, CommandsKeepOutcomes, NoWorkNoPurpose

\* A step that begins and ends no route and records no request is none of a client's.
NoCommand ==
    /\ thread' = thread /\ done' = done
    /\ \A e \in 1 .. MaxEpochs : epochs'[e].st = epochs[e].st
LEMMA NoCommandRewritesNothing == NoCommand => UnknownKept
BY DEF NoCommand, UnknownKept

\* A job submits under its ticket alone, and a ticket is good only on the current route, for a
\* running Attempt of the thread's generation.
LEMMA SubmittedToCurrent ==
    ASSUME ThreadInv, NEW m \in 1 .. MaxMsgs, msgs[m].tk
    PROVE  /\ AttOf(m).st \in Running /\ epochs[AttOf(m).ep].st = "live"
           /\ works[AttOf(m).work].gen = thread.gen
<1>. USE DEF ThreadInv
<1>1. msgs[m].st = "leased" /\ epochs[AttOf(m).ep].st = "live"  BY DEF MsgsCurrent
<1>2. AttOf(m).st \in Running  BY <1>1 DEF MsgsCurrent
<1>3. /\ msgs[m].at \in 1 .. MaxAtts /\ AttOf(m) = atts[msgs[m].at]
      /\ atts[msgs[m].at].work \in 1 .. MaxBound
  BY <1>1, DeliveryAttempt
<1>4. works[AttOf(m).work].st = "active"  BY <1>2, <1>3 DEF AttsCurrent
<1>. QED  BY <1>1, <1>2, <1>3, <1>4 DEF WorksCurrent

\* The Dispatcher and the provider: only a submission dispatches.
LEMMA DeliveryMovesOn ==
    ASSUME ThreadInv, DeliveryStep
    PROVE  PurposeRead /\ NothingRedispatched /\ UnknownKept
<1>1. PICK m \in 1 .. MaxMsgs : Lease(m) \/ IssueLaunchTicket(m) \/ SubmitAssignment(m) \/ DeliveryLapses(m)
                                \/ Requeue(m) \/ TurnEnds(m) \/ OutcomeUnknown(m)
  BY DEF DeliveryStep
<1>2. /\ msgs \in [1 .. MaxMsgs -> AssignmentRows] /\ epochs \in [1 .. MaxEpochs -> EpochRows]
      /\ works \in [1 .. MaxBound -> BoundRows]
  BY DEF ThreadInv, ThreadTypeOK
<1>3. NoCommand
  <2>1. thread' = thread /\ done' = done
    BY <1>1 DEF Lease, IssueLaunchTicket, SubmitAssignment, DeliveryLapses, Requeue, TurnEnds, OutcomeUnknown
  <2>2. CASE Lease(m) \/ Requeue(m)
    <3>1. epochs' = epochs  BY <2>2 DEF Lease, Requeue
    <3>. QED  BY <2>1, <3>1 DEF NoCommand
  <2>3. CASE IssueLaunchTicket(m) \/ SubmitAssignment(m) \/ DeliveryLapses(m)
    <3>1. \/ epochs' = epochs
          \/ epochs' = [epochs EXCEPT ![AttOf(m).ep].rt = "busy"]
          \/ epochs' = [epochs EXCEPT ![AttOf(m).ep].cred = TRUE]
          \/ epochs' = [epochs EXCEPT ![AttOf(m).ep].rt = "waiting"]
      BY <2>3 DEF IssueLaunchTicket, SubmitAssignment, DeliveryLapses
    <3>2. \A e \in 1 .. MaxEpochs : epochs'[e].st = epochs[e].st
      <4>1. CASE epochs' = epochs  BY <4>1
      <4>2. CASE epochs' = [epochs EXCEPT ![AttOf(m).ep].rt = "busy"]  BY <1>2, <4>2 DEF EpochRows
      <4>3. CASE epochs' = [epochs EXCEPT ![AttOf(m).ep].cred = TRUE]  BY <1>2, <4>3 DEF EpochRows
      <4>4. CASE epochs' = [epochs EXCEPT ![AttOf(m).ep].rt = "waiting"]  BY <1>2, <4>4 DEF EpochRows
      <4>. QED  BY <3>1, <4>1, <4>2, <4>3, <4>4
    <3>. QED  BY <2>1, <3>2 DEF NoCommand
  <2>4. CASE TurnEnds(m) \/ OutcomeUnknown(m)
    <3>1. \/ epochs' = [epochs EXCEPT ![AttOf(m).ep].rt = "waiting", ![AttOf(m).ep].cred = FALSE]
          \/ epochs' = [epochs EXCEPT ![AttOf(m).ep].rt = "missing", ![AttOf(m).ep].cred = FALSE]
      BY <2>4 DEF TurnEnds, OutcomeUnknown
    <3>2. \A e \in 1 .. MaxEpochs : epochs'[e].st = epochs[e].st
      <4>1. CASE epochs' = [epochs EXCEPT ![AttOf(m).ep].rt = "waiting", ![AttOf(m).ep].cred = FALSE]
        BY <1>2, <4>1 DEF EpochRows
      <4>2. CASE epochs' = [epochs EXCEPT ![AttOf(m).ep].rt = "missing", ![AttOf(m).ep].cred = FALSE]
        BY <1>2, <4>2 DEF EpochRows
      <4>. QED  BY <3>1, <4>1, <4>2
    <3>. QED  BY <2>1, <3>2 DEF NoCommand
  <2>. QED  BY <1>1, <2>2, <2>3, <2>4
<1>4. NoWorkCreated
  <2>1. CASE Lease(m) \/ IssueLaunchTicket(m) \/ SubmitAssignment(m) \/ DeliveryLapses(m) \/ Requeue(m)
    <3>1. works' = works  BY <2>1 DEF Lease, IssueLaunchTicket, SubmitAssignment, DeliveryLapses, Requeue
    <3>. QED  BY <3>1 DEF NoWorkCreated
  <2>2. CASE TurnEnds(m) \/ OutcomeUnknown(m)
    <3>1. \/ works' = [works EXCEPT ![atts[msgs[m].at].work].st = "completed"]
          \/ works' = [works EXCEPT ![atts[msgs[m].at].work].bd = "open"]
          \/ works' = [works EXCEPT ![atts[msgs[m].at].work].bd = "recovery"]
      BY <2>2 DEF TurnEnds, OutcomeUnknown
    <3>. DEFINE v == atts[msgs[m].at].work
    <3>. HIDE DEF v
    <3>2. \/ works' = [works EXCEPT ![v].st = "completed"]
          \/ works' = [works EXCEPT ![v].bd = "open"]
          \/ works' = [works EXCEPT ![v].bd = "recovery"]
      BY <3>1 DEF v
    <3>3. \A u \in 1 .. MaxBound : works'[u].st = works[u].st \/ works'[u].st = "completed"
      <4>1. CASE works' = [works EXCEPT ![v].st = "completed"]  BY <1>2, <4>1 DEF BoundRows
      <4>2. CASE works' = [works EXCEPT ![v].bd = "open"]  BY <1>2, <4>2 DEF BoundRows
      <4>3. CASE works' = [works EXCEPT ![v].bd = "recovery"]  BY <1>2, <4>3 DEF BoundRows
      <4>. QED  BY <3>2, <4>1, <4>2, <4>3
    <3>. QED  BY <3>3 DEF NoWorkCreated
  <2>. QED  BY <1>1, <2>1, <2>2
<1>5. NothingRedispatched
  <2>1. CASE SubmitAssignment(m)
    <3>1. msgs[m].tk /\ msgs' = [msgs EXCEPT ![m].st = "dispatched", ![m].tk = FALSE]
      BY <2>1 DEF SubmitAssignment
    <3>2. \A n \in 1 .. MaxMsgs : n # m => msgs'[n] = msgs[n]  BY <1>2, <3>1
    <3>. QED  BY <3>1, <3>2, SubmittedToCurrent DEF NothingRedispatched
  <2>2. CASE Lease(m) \/ IssueLaunchTicket(m) \/ DeliveryLapses(m) \/ Requeue(m) \/ TurnEnds(m) \/ OutcomeUnknown(m)
    <3>1. \/ msgs' = msgs
          \/ msgs' = [msgs EXCEPT ![m].st = "leased"]
          \/ msgs' = [msgs EXCEPT ![m].tk = TRUE]
          \/ msgs' = [msgs EXCEPT ![m].st = "lapsed", ![m].tk = FALSE]
          \/ msgs' = [msgs EXCEPT ![m].st = "queued"]
          \/ msgs' = [msgs EXCEPT ![m].st = "delivered"]
      BY <2>2 DEF Lease, IssueLaunchTicket, DeliveryLapses, Requeue, TurnEnds, OutcomeUnknown
    <3>2. ASSUME NEW n \in 1 .. MaxMsgs, msgs'[n].st = "dispatched"  PROVE  msgs[n].st = "dispatched"
      <4>1. CASE n # m
        <5>1. msgs'[n] = msgs[n]  BY <1>2, <3>1, <4>1
        <5>. QED  BY <3>2, <5>1
      <4>2. CASE n = m
        <5>1. msgs' = msgs \/ msgs' = [msgs EXCEPT ![m].tk = TRUE]  BY <1>2, <3>1, <3>2, <4>2 DEF AssignmentRows
        <5>. QED  BY <1>2, <3>2, <4>2, <5>1 DEF AssignmentRows
      <4>. QED  BY <4>1, <4>2
    <3>. QED  BY <3>2 DEF NothingRedispatched
  <2>. QED  BY <1>1, <2>1, <2>2
<1>. QED  BY <1>3, <1>4, <1>5, NoCommandRewritesNothing, NoWorkNoPurpose

\* The world around the thread: a connection is lost, an effect starts or ends.
LEMMA WorldMovesOn ==
    ASSUME ThreadInv, Effect \/ (\E e \in 1 .. MaxEpochs : ConnectionLost(e)) \/ UNCHANGED threads
    PROVE  PurposeRead /\ NothingRedispatched /\ UnknownKept
<1>1. epochs \in [1 .. MaxEpochs -> EpochRows] /\ msgs \in [1 .. MaxMsgs -> AssignmentRows]
  BY DEF ThreadInv, ThreadTypeOK
<1>2. works' = works /\ thread' = thread /\ done' = done  BY DEF Effect, ConnectionLost, threads
<1>3. /\ \A e \in 1 .. MaxEpochs : epochs'[e].st = epochs[e].st
      /\ \A m \in 1 .. MaxMsgs : msgs'[m].st = msgs[m].st
  <2>1. CASE Effect \/ UNCHANGED threads  BY <2>1 DEF Effect, threads
  <2>2. ASSUME NEW e \in 1 .. MaxEpochs, ConnectionLost(e)
        PROVE  /\ \A f \in 1 .. MaxEpochs : epochs'[f].st = epochs[f].st
               /\ \A m \in 1 .. MaxMsgs : msgs'[m].st = msgs[m].st
    BY <1>1, <2>2 DEF ConnectionLost, EpochRows, AssignmentRows
  <2>. QED  BY <2>1, <2>2
<1>4. NoCommand /\ NoWorkCreated  BY <1>2, <1>3 DEF NoCommand, NoWorkCreated
<1>5. NothingRedispatched  BY <1>3 DEF NothingRedispatched
<1>. QED  BY <1>4, <1>5, NoCommandRewritesNothing, NoWorkNoPurpose

\* Every step of the thread.
LEMMA ThreadStepMovesOn ==
    ThreadInv /\ [ThreadNext]_threads => [PurposeRead /\ NothingRedispatched /\ UnknownKept]_threads
<1>. SUFFICES ASSUME ThreadInv, [ThreadNext]_threads  PROVE  PurposeRead /\ NothingRedispatched /\ UnknownKept
  OBVIOUS
<1>1. CASE RequestStep  BY <1>1, RequestMovesOn
<1>2. CASE WorkStep  BY <1>2, WorkMovesOn
<1>3. CASE DeliveryStep  BY <1>3, DeliveryMovesOn
<1>4. CASE Effect \/ (\E e \in 1 .. MaxEpochs : ConnectionLost(e)) \/ UNCHANGED threads  BY <1>4, WorldMovesOn
<1>. QED  BY <1>1, <1>2, <1>3, <1>4 DEF ThreadNext, RequestStep, WorkStep, DeliveryStep

\* And in every step of a thread: no Work starts under a purpose its CAO had not read, nothing of
\* an earlier generation or a retired route is dispatched, and no command rewrites a delivery or an
\* effect of unknown outcome.
THEOREM ThreadOnlyMovesOn == ThreadSpec => ThreadMovesOn
BY ThreadInOrder, ThreadStepMovesOn, PTL DEF ThreadSpec, ThreadMovesOn

------------------------------------------------------------------------------
(* IntentLog: the inductive invariant.                                       *)

USE IntentAssumption

\* The rows of Works, and what was recorded about them.
WorksTyped ==
    /\ used \in 0 .. MaxWorks /\ work \in [Works -> WorkRows]
    /\ bnd \subseteq Boundaries /\ deferred \subseteq Works

\* Works are created in order.
WorksNumbered == \A w \in Works : work[w].state = "none" <=> w > used

\* A suspended Work is paused or interrupted, and nothing else is paused.
OneCause ==
    \A w \in Works : /\ work[w].state = "suspended" => (work[w].paused <=> work[w].by = 0)
                     /\ work[w].paused => work[w].state = "suspended"

WorksExplained == WorksTyped /\ WorksNumbered /\ OneCause /\ SuspensionExplained /\ InterruptedWaits

\* An open intent was not applied yet, and what assign_work applied has its result.
AppliedWhenDone ==
    \A s \in Sources :
       /\ applied[s] <= 1 /\ (intent[s].state # "done" => applied[s] = 0)
       /\ intent[s].via = "assign" => results[s] # NoResult

IntentsRecorded ==
    /\ intent \in [Sources -> Intents] /\ sent \subseteq Sources
    /\ wakes \in [Sources -> SUBSET Caos] /\ dirs \subseteq Sources
    /\ results \in [Sources -> Results] /\ applied \in [Sources -> Nat]
    /\ AppliedWhenDone

IntentInv == WorksExplained /\ IntentsRecorded

------------------------------------------------------------------------------
(* IntentLog: rows of Works.                                                 *)

\* The columns of a row that other rows are compared with.
LEMMA Columns ==
    ASSUME NEW r \in WorkRows, used \in 0 .. MaxWorks
    PROVE  /\ r.by \in 0 .. used /\ r.interrupts \in 0 .. used
           /\ r.by # 0 => r.by \in Works
           /\ r.interrupts # 0 => r.interrupts \in Works
           /\ r.paused \in BOOLEAN /\ r.gen \in Nat /\ r.goal \in Nat
<1>1. /\ r.by \in 0 .. used /\ r.interrupts \in 0 .. used
      /\ r.paused \in BOOLEAN /\ r.gen \in Nat /\ r.goal \in Nat
  BY DEF WorkRows
<1>. QED  BY <1>1 DEF Works

\* Every Work has a row, and is created unless its row is blank.
LEMMA RowOf ==
    ASSUME WorksTyped, NEW w \in Works
    PROVE  work[w] \in WorkRows /\ used \in 0 .. MaxWorks /\ used \in Nat
BY DEF WorksTyped

\* An open Work is one that was created.
LEMMA OpenIsCreated ==
    ASSUME WorksTyped, WorksNumbered, NEW w \in Works, Open(w) PROVE w <= used
<1>1. work[w].state # "none"  BY DEF Open
<1>. QED  BY <1>1, RowOf DEF WorksNumbered, Works

\* A row stays one when more Works are created.
LEMMA RowsGrow ==
    ASSUME used \in 0 .. MaxWorks, used' \in 0 .. MaxWorks, used <= used', NEW r \in WorkRows
    PROVE  r \in WorkRows'
<1>1. 0 .. used \subseteq 0 .. used'  OBVIOUS
<1>. QED  BY <1>1 DEF WorkRows

\* How a Work w is explained: the Work it waits for is open, or its end is on record.
Explained(w) ==
    work[w].state = "suspended" /\ work[w].by # 0 =>
        /\ Open(work[w].by) \/ w \in deferred
        /\ work[work[w].by].interrupts = w
        /\ work[w].att \in AttemptOver \cup {"suspended"}
Caused(w) == /\ work[w].state = "suspended" => (work[w].paused <=> work[w].by = 0)
             /\ work[w].paused => work[w].state = "suspended"
Waits(w) == work[w].by # 0 /\ Open(w) => work[w].state = "suspended"

\* The invariant, Work by Work.
LEMMA WorkByWork ==
    ASSUME WorksTyped', \A w \in Works : (work'[w].state = "none" <=> w > used') /\ Caused(w)' /\ Explained(w)' /\ Waits(w)'
    PROVE  WorksExplained'
BY DEF WorksExplained, WorksNumbered, OneCause, SuspensionExplained, InterruptedWaits, Caused, Explained, Waits

\* What the invariant says of one Work.
LEMMA OfWork ==
    ASSUME WorksExplained, NEW w \in Works
    PROVE  (work[w].state = "none" <=> w > used) /\ Caused(w) /\ Explained(w) /\ Waits(w)
BY DEF WorksExplained, WorksNumbered, OneCause, SuspensionExplained, InterruptedWaits, Caused, Explained, Waits

\* A Work keeps its explanation when its row stays, the Work it waits for stays open and goes on
\* naming it, and a deferred resume of it stays on record.
LEMMA StaysExplained ==
    ASSUME WorksExplained, NEW w \in Works, work'[w] = work[w],
           w \in deferred => w \in deferred',
           \A v \in Works : Open(v) => (Open(v))',
           \A v \in Works : v <= used => work'[v].interrupts = work[v].interrupts
    PROVE  Caused(w)' /\ Explained(w)' /\ Waits(w)'
<1>1. Caused(w) /\ Explained(w) /\ Waits(w) /\ work[w] \in WorkRows /\ used \in 0 .. MaxWorks
  BY OfWork, RowOf DEF WorksExplained
<1>2. work[w].by # 0 => work[w].by \in Works /\ work[w].by <= used  BY <1>1, Columns
<1>3. w # 0  BY DEF Works
<1>4. Explained(w)'
  <2> SUFFICES ASSUME work[w].state = "suspended", work[w].by # 0
               PROVE  /\ (Open(work[w].by))' \/ w \in deferred'
                      /\ work'[work[w].by].interrupts = w
                      /\ work[w].att \in AttemptOver \cup {"suspended"}
    BY DEF Explained, Open
  <2>1. /\ Open(work[w].by) \/ w \in deferred
        /\ work[work[w].by].interrupts = w
        /\ work[w].att \in AttemptOver \cup {"suspended"}
    BY <1>1 DEF Explained
  <2>2. work'[work[w].by].interrupts = w  BY <1>2, <1>3, <2>1
  <2>3. Open(work[w].by) => (Open(work[w].by))'  BY <1>2 DEF Open
  <2>. QED  BY <2>1, <2>2, <2>3
<1>5. Caused(w)' /\ Waits(w)'  BY <1>1 DEF Caused, Waits, Open
<1>. QED  BY <1>4, <1>5

------------------------------------------------------------------------------
(* IntentLog: what an operation does to the Works.                           *)

\* The next Work, beside the others or interrupting one of them.
Opens == /\ used < MaxWorks /\ used' = used + 1
         /\ work' = Created(work, used + 1, 0) /\ bnd' = bnd /\ deferred' = deferred
OpensOver(t) == /\ used < MaxWorks /\ used' = used + 1 /\ Open(t) /\ Interruptible(t)
                /\ work' = Interrupted(Created(work, used + 1, t), used + 1, t)
                /\ bnd' = bnd /\ deferred' = deferred \ {t}

\* The row of a new Work.
LEMMA NewRow ==
    ASSUME NEW t \in 0 .. used', used' \in 0 .. MaxWorks
    PROVE  /\ NewRows(t) \in WorkRows' /\ NewRows(t).state = "active" /\ NewRows(t).by = 0
           /\ ~NewRows(t).paused /\ NewRows(t).interrupts = t
<1>1. 0 \in 0 .. used' /\ 0 \in Nat /\ 1 \in Nat  OBVIOUS
<1>2. NoWork \in WorkRows'  BY <1>1 DEF NoWork, WorkRows, Terminal, AttemptOver
<1>. QED  BY <1>1, <1>2 DEF NewRows, NoWork, WorkRows

\* Boundaries stay well formed when more Works are created.
LEMMA BoundariesGrow ==
    ASSUME WorksTyped, used' \in 0 .. MaxWorks, used <= used', bnd' \subseteq bnd
    PROVE  bnd' \subseteq Boundaries'
<1>1. used \in 0 .. MaxWorks /\ bnd \subseteq Boundaries  BY DEF WorksTyped
<1>2. 1 .. used \subseteq 1 .. used'  BY <1>1
<1>. QED  BY <1>1, <1>2 DEF Boundaries

\* A new Work beside the others leaves them as they are.
LEMMA CreatedExplained == ASSUME WorksExplained, Opens PROVE WorksExplained'
<1> DEFINE n == used + 1
<1>1. WorksTyped /\ WorksNumbered /\ used \in 0 .. MaxWorks  BY DEF WorksExplained, WorksTyped
<1>2. /\ n \in Works /\ used' = n /\ used' \in 0 .. MaxWorks /\ used <= used'
      /\ bnd' = bnd /\ deferred' = deferred
  BY <1>1 DEF Opens, Works
<1>3. /\ work'[n] = NewRows(0) /\ DOMAIN work' = Works
      /\ \A w \in Works \ {n} : work'[w] = work[w]
      /\ work' = [w \in Works |-> work'[w]]
  BY <1>1, <1>2 DEF Opens, Created, WorksTyped
<1>4. NewRows(0) \in WorkRows' /\ NewRows(0).state = "active" /\ NewRows(0).by = 0 /\ ~NewRows(0).paused
  BY <1>2, NewRow
<1>5. \A w \in Works \ {n} : work'[w] \in WorkRows'
  BY <1>1, <1>2, <1>3, RowsGrow DEF WorksTyped
<1>6. WorksTyped'
  <2>1. \A w \in Works : work'[w] \in WorkRows'  BY <1>3, <1>4, <1>5
  <2>2. bnd' \subseteq Boundaries'  BY <1>1, <1>2, BoundariesGrow
  <2>. QED  BY <2>1, <2>2, <1>1, <1>2, <1>3 DEF WorksTyped
<1>7. work[n].state = "none"  BY <1>1, <1>2 DEF WorksNumbered
<1>8. \A v \in Works : Open(v) => (Open(v))'
  BY <1>3, <1>4, <1>7 DEF Open, Terminal
<1>9. ASSUME NEW w \in Works
      PROVE  (work'[w].state = "none" <=> w > used') /\ Caused(w)' /\ Explained(w)' /\ Waits(w)'
  <2>1. CASE w = n
    BY <2>1, <1>2, <1>3, <1>4 DEF Caused, Explained, Waits
  <2>2. CASE w # n
    <3>1. work'[w] = work[w]  BY <2>2, <1>3
    <3>2. \A v \in Works : v <= used => work'[v].interrupts = work[v].interrupts  BY <1>1, <1>2, <1>3
    <3>3. Caused(w)' /\ Explained(w)' /\ Waits(w)'  BY <3>1, <3>2, <1>2, <1>8, StaysExplained
    <3>. QED  BY <2>2, <3>1, <3>3, <1>1, <1>2 DEF WorksNumbered, Works
  <2>. QED  BY <2>1, <2>2
<1>. QED  BY <1>6, <1>9, WorkByWork

\* A new Work that interrupts another one: the target waits for it from now on.
LEMMA InterruptedExplained == ASSUME WorksExplained, NEW t \in Works, OpensOver(t) PROVE WorksExplained'
<1>0. PICK n \in Nat : n = used + 1  BY DEF WorksExplained, WorksTyped
<1> DEFINE row == [work[t] EXCEPT !.state = "suspended", !.by = n, !.gen = @ + 1, !.owner = "none",
                        !.att = IF @ \in AttemptOver THEN @ ELSE "suspended"]
<1>1. WorksTyped /\ WorksNumbered /\ used \in 0 .. MaxWorks  BY DEF WorksExplained, WorksTyped
<1>2. /\ n \in Works /\ used' = n /\ used' \in 0 .. MaxWorks /\ used <= used'
      /\ bnd' = bnd /\ deferred' = deferred \ {t} /\ Open(t) /\ ~work[t].paused /\ n = used + 1
  BY <1>0, <1>1 DEF OpensOver, Works, Interruptible
<1>3. t <= used /\ t # n /\ t \in 0 .. used'  BY <1>1, <1>2, OpenIsCreated DEF Works
<1>4. /\ work'[n] = NewRows(t) /\ DOMAIN work' = Works /\ work'[t] = row
      /\ \A w \in Works \ {n, t} : work'[w] = work[w]
      /\ work' = [w \in Works |-> work'[w]]
  BY <1>0, <1>1, <1>2, <1>3 DEF OpensOver, Created, Interrupted, WorksTyped
<1>5. /\ NewRows(t) \in WorkRows' /\ NewRows(t).state = "active" /\ NewRows(t).by = 0
      /\ ~NewRows(t).paused /\ NewRows(t).interrupts = t
  BY <1>2, <1>3, NewRow
<1>6. work[t] \in WorkRows'  BY <1>1, <1>2, RowOf, RowsGrow
<1>7. /\ row \in WorkRows' /\ row.state = "suspended" /\ row.by = n /\ ~row.paused
      /\ row.att \in AttemptOver \cup {"suspended"} /\ row.interrupts = work[t].interrupts
  <2>1. n \in 0 .. used'  BY <1>1, <1>2
  <2>2. work[t].gen \in Nat /\ work[t].gen + 1 \in Nat  BY <1>1, Columns, RowOf
  <2>3. work[t].att \in {"assigned", "working", "suspended"} \cup AttemptOver  BY <1>6 DEF WorkRows
  <2>. QED  BY <2>1, <2>2, <2>3, <1>2, <1>6 DEF WorkRows, AttemptOver
<1>. HIDE DEF row
<1>8. WorksTyped'
  <2>1. \A w \in Works \ {n, t} : work'[w] \in WorkRows'  BY <1>1, <1>2, <1>4, RowsGrow DEF WorksTyped
  <2>2. \A w \in Works : work'[w] \in WorkRows'  BY <2>1, <1>4, <1>5, <1>7
  <2>3. bnd' \subseteq Boundaries'  BY <1>1, <1>2, BoundariesGrow
  <2>. QED  BY <2>2, <2>3, <1>1, <1>2, <1>4 DEF WorksTyped
<1>9. work[n].state = "none"  BY <1>1, <1>2 DEF WorksNumbered
<1>10. \A v \in Works : Open(v) => (Open(v))'
  BY <1>4, <1>5, <1>7, <1>9 DEF Open, Terminal
<1>11. ASSUME NEW w \in Works
       PROVE  (work'[w].state = "none" <=> w > used') /\ Caused(w)' /\ Explained(w)' /\ Waits(w)'
  <2>1. CASE w = n
    BY <2>1, <1>2, <1>4, <1>5 DEF Caused, Explained, Waits
  <2>2. CASE w = t
    <3>1. (Open(n))'  BY <1>4, <1>5 DEF Open, Terminal
    <3>2. Caused(w)' /\ Waits(w)'  BY <2>2, <1>1, <1>2, <1>4, <1>7 DEF Caused, Waits
    <3>3. Explained(w)'  BY <2>2, <3>1, <1>4, <1>5, <1>7 DEF Explained, Open
    <3>. QED  BY <2>2, <3>2, <3>3, <1>1, <1>2, <1>3, <1>4, <1>7
  <2>3. CASE w # n /\ w # t
    <3>1. work'[w] = work[w]  BY <2>3, <1>4
    <3>2. \A v \in Works : v <= used => work'[v].interrupts = work[v].interrupts  BY <1>1, <1>2, <1>4, <1>7
    <3>3. Caused(w)' /\ Explained(w)' /\ Waits(w)'  BY <2>3, <3>1, <3>2, <1>2, <1>10, StaysExplained
    <3>. QED  BY <2>3, <3>1, <3>3, <1>1, <1>2 DEF WorksNumbered, Works
  <2>. QED  BY <2>1, <2>2, <2>3
<1>. QED  BY <1>8, <1>11, WorkByWork

\* The row r replaces that of an open Work, and explains itself.
Becomes(v, r) == /\ work' = [work EXCEPT ![v] = r] /\ used' = used /\ Open(v)
                 /\ r.state \in {"active", "waiting", "user_needed", "suspended"}
                 /\ r.interrupts = work[v].interrupts
SelfExplained(v, r) ==
    \/ r.by = 0 /\ (r.state = "suspended" <=> r.paused)
    \/ /\ r.state = "suspended" /\ work[v].state = "suspended"
       /\ r.by = work[v].by /\ r.paused = work[v].paused /\ r.att \in AttemptOver \cup {"suspended"}

\* An operation on one open Work that stays open.
LEMMA RowExplained ==
    ASSUME WorksExplained, NEW v \in Works, NEW r \in WorkRows, Becomes(v, r), SelfExplained(v, r),
           bnd' \subseteq Boundaries, deferred' = deferred
    PROVE  WorksExplained'
<1>1. WorksTyped /\ WorksNumbered /\ used \in 0 .. MaxWorks  BY DEF WorksExplained, WorksTyped
<1>2. /\ work'[v] = r /\ DOMAIN work' = Works /\ work' = [w \in Works |-> work'[w]]
      /\ \A w \in Works \ {v} : work'[w] = work[w]
  BY <1>1 DEF Becomes, WorksTyped
<1>3. used' = used /\ Open(v) /\ (Open(v))' /\ r.interrupts = work[v].interrupts /\ r.state # "none"
  BY <1>2 DEF Becomes, Open, Terminal
<1>4. WorksTyped'
  <2>1. WorkRows' = WorkRows /\ Boundaries' = Boundaries  BY <1>3 DEF WorkRows, Boundaries
  <2>2. \A w \in Works : work'[w] \in WorkRows  BY <1>1, <1>2 DEF WorksTyped
  <2>. QED  BY <2>1, <2>2, <1>1, <1>2, <1>3 DEF WorksTyped
<1>5. \A w \in Works : Open(w) => (Open(w))'  BY <1>2, <1>3 DEF Open
<1>6. \A w \in Works : w <= used => work'[w].interrupts = work[w].interrupts  BY <1>2, <1>3
<1>7. ASSUME NEW w \in Works
      PROVE  (work'[w].state = "none" <=> w > used') /\ Caused(w)' /\ Explained(w)' /\ Waits(w)'
  <2>1. CASE w # v
    <3>1. work'[w] = work[w]  BY <2>1, <1>2
    <3>2. Caused(w)' /\ Explained(w)' /\ Waits(w)'  BY <3>1, <1>5, <1>6, StaysExplained
    <3>. QED  BY <3>1, <3>2, <1>1, <1>3 DEF WorksNumbered
  <2>2. CASE w = v
    <3>1. v <= used  BY <1>1, <1>3, OpenIsCreated
    <3>2. Caused(v) /\ Explained(v) /\ work[v] \in WorkRows  BY <1>1, OfWork, RowOf
    <3>3. work[v].by # 0 => work[v].by \in Works /\ work[v].by <= used  BY <3>2, <1>1, Columns
    <3>4. Caused(v)' /\ Waits(v)'
      BY <3>2, <1>2 DEF SelfExplained, Caused, Waits
    <3>5. Explained(v)'
      BY <3>2, <3>3, <1>2, <1>5, <1>6 DEF SelfExplained, Explained, Open
    <3>. QED  BY <2>2, <3>1, <3>4, <3>5, <1>1, <1>2, <1>3 DEF Works
  <2>. QED  BY <2>1, <2>2
<1>. QED  BY <1>4, <1>7, WorkByWork


\* An operation that ends the Work d, whose row is then r, and leaves the target t to go on.
Closes(d, r) == r.state \in Terminal /\ ~r.paused /\ r.interrupts = work[d].interrupts /\ used' = used
GoesOn(t, r) == r.state = "active" /\ ~r.paused /\ r.by = 0 /\ r.interrupts = work[t].interrupts

\* A Work ends; the Work that it had interrupted (t, if it has one) goes on or is deferred.
LEMMA ClosingExplained ==
    ASSUME WorksExplained, NEW d \in Works, Open(d), NEW r \in WorkRows, Closes(d, r),
           NEW t \in {0} \cup Works, t # d, NEW z \in WorkRows,
           work' = [w \in Works |-> work'[w]], work'[d] = r,
           \A w \in Works \ {d, t} : work'[w] = work[w],
           t # 0 => \/ work'[t] = z /\ GoesOn(t, z)
                    \/ work'[t] = work[t] /\ t \in deferred',
           t # 0 => work[t].state = "suspended" /\ work[t].by # 0,
           \A w \in Works \ {d, t} : ~(work[w].state = "suspended" /\ work[w].by = d),
           bnd' \subseteq bnd, deferred' \subseteq Works, \A w \in deferred : w # d => w \in deferred'
    PROVE  WorksExplained'
<1>1. WorksTyped /\ WorksNumbered /\ used \in 0 .. MaxWorks /\ used' = used
  BY DEF WorksExplained, WorksTyped, Closes
<1>2. \A w \in Works : work'[w] \in WorkRows /\ work'[w].interrupts = work[w].interrupts
  <2> SUFFICES ASSUME NEW w \in Works
               PROVE  work'[w] \in WorkRows /\ work'[w].interrupts = work[w].interrupts
    OBVIOUS
  <2>1. work[w] \in WorkRows  BY <1>1, RowOf
  <2>2. CASE w = d  BY <2>2 DEF Closes
  <2>3. CASE w = t
    <3>1. t # 0  BY <2>3 DEF Works
    <3>2. CASE work'[t] = z /\ GoesOn(t, z)  BY <2>3, <3>2 DEF GoesOn
    <3>3. CASE work'[t] = work[t]  BY <2>1, <2>3, <3>3
    <3>. QED  BY <3>1, <3>2, <3>3
  <2>4. CASE w # d /\ w # t  BY <2>1, <2>4
  <2>. QED  BY <2>2, <2>3, <2>4
<1>3. WorksTyped'
  <2>1. WorkRows' = WorkRows /\ Boundaries' = Boundaries  BY <1>1 DEF WorkRows, Boundaries
  <2>. QED  BY <2>1, <1>1, <1>2 DEF WorksTyped
<1>4. \A v \in Works \ {d} : Open(v) => (Open(v))'
  <2> SUFFICES ASSUME NEW v \in Works \ {d}, Open(v) PROVE (Open(v))'
    OBVIOUS
  <2>1. CASE v # t  BY <2>1 DEF Open
  <2>2. CASE v = t
    <3>1. t # 0  BY <2>2 DEF Works
    <3>2. CASE work'[t] = z /\ GoesOn(t, z)  BY <2>2, <3>2 DEF GoesOn, Open, Terminal
    <3>3. CASE work'[t] = work[t]  BY <2>2, <3>3 DEF Open
    <3>. QED  BY <3>1, <3>2, <3>3
  <2>. QED  BY <2>1, <2>2
<1>5. work[d].state # "none" /\ d <= used  BY <1>1, OpenIsCreated DEF Open
<1>6. ASSUME NEW w \in Works
      PROVE  (work'[w].state = "none" <=> w > used') /\ Caused(w)' /\ Explained(w)' /\ Waits(w)'
  <2>0. /\ work[w].state = "none" <=> w > used
        /\ Caused(w) /\ Explained(w) /\ Waits(w) /\ work[w] \in WorkRows
    BY <1>1, OfWork, RowOf
  <2>1. CASE w = d
    BY <2>1, <1>1, <1>5 DEF Closes, Terminal, Caused, Explained, Waits, Open, Works
  <2>2. CASE w = t /\ work'[t] = z /\ GoesOn(t, z)
    <3>1. t # 0 /\ work[t].state = "suspended"  BY <2>2 DEF Works
    <3>. QED  BY <3>1, <2>0, <2>2, <1>1 DEF GoesOn, Caused, Explained, Waits, Works
  <2>3. CASE w # d /\ ~(w = t /\ work'[t] = z /\ GoesOn(t, z))
    <3>1. work'[w] = work[w]  BY <2>3 DEF Works
    <3>2. w = t => w \in deferred'  BY <2>3 DEF Works
    <3>3. work[w].by # 0 => work[w].by \in Works  BY <2>0, <1>1, Columns
    <3>4. Caused(w)' /\ Waits(w)'  BY <3>1, <2>0 DEF Caused, Waits, Open
    <3>5. Explained(w)'
      <4> SUFFICES ASSUME work[w].state = "suspended", work[w].by # 0
                   PROVE  /\ (Open(work[w].by))' \/ w \in deferred'
                          /\ work'[work[w].by].interrupts = w
                          /\ work[w].att \in AttemptOver \cup {"suspended"}
        BY <3>1 DEF Explained, Open
      <4>1. /\ Open(work[w].by) \/ w \in deferred
            /\ work[work[w].by].interrupts = w
            /\ work[w].att \in AttemptOver \cup {"suspended"}
        BY <2>0 DEF Explained
      <4>2. work'[work[w].by].interrupts = w  BY <3>3, <4>1, <1>2
      <4>3. w # t => work[w].by # d  BY <2>3
      <4>4. w # t /\ Open(work[w].by) => (Open(work[w].by))'
        <5>1. w # t => work[w].by \in Works \ {d}  BY <3>3, <4>3
        <5>2. work'[w].by = work[w].by  BY <3>1
        <5>. QED  BY <5>1, <5>2, <1>4
      <4>. QED  BY <4>1, <4>2, <4>4, <3>2, <2>3
    <3>. QED  BY <3>1, <3>4, <3>5, <2>0, <1>1
  <2>. QED  BY <2>1, <2>2, <2>3
<1>. QED  BY <1>3, <1>6, WorkByWork

\* The Work that an ending one leaves to go on: the one that was waiting for it.
LEMMA TargetWaits ==
    ASSUME WorksExplained, NEW d \in Works, NEW ws, NEW t, t = InterruptTarget(ws, d),
           ws[d].interrupts = work[d].interrupts, ws[d].state \in Terminal,
           \A w \in Works \ {d} : ws[w] = work[w]
    PROVE  /\ t \in {0} \cup Works /\ t # d
           /\ t # 0 => work[t].state = "suspended" /\ work[t].by = d
           /\ \A w \in Works \ {d, t} : ~(work[w].state = "suspended" /\ work[w].by = d)
<1>1. work[d] \in WorkRows /\ used \in 0 .. MaxWorks  BY RowOf DEF WorksExplained
<1>2. work[d].interrupts \in {0} \cup Works  BY <1>1, Columns
<1>3. d # 0 /\ "suspended" \notin Terminal  BY DEF Works, Terminal
<1>4. t \in {0} \cup Works /\ t # d /\ (t # 0 => work[t].state = "suspended" /\ work[t].by = d)
  BY <1>2, <1>3 DEF InterruptTarget
<1>5. ASSUME NEW w \in Works \ {d, t}, work[w].state = "suspended", work[w].by = d PROVE FALSE
  <2>1. work[d].interrupts = w  BY <1>3, <1>5, OfWork DEF Explained
  <2>2. w # 0  BY DEF Works
  <2>. QED  BY <2>1, <2>2, <1>5 DEF InterruptTarget
<1>. QED  BY <1>4, <1>5

\* A Work is completed or canceled.
LEMMA EndedExplained ==
    ASSUME WorksExplained, NEW d \in Works, Open(d), NEW to \in Terminal, NEW admitted \in BOOLEAN,
           Ended(d, to, admitted), used' = used
    PROVE  WorksExplained'
<1> DEFINE Att == IF to = "canceled" THEN "canceled" ELSE "completed"
<1>1. WorksTyped /\ used \in 0 .. MaxWorks /\ work[d] \in WorkRows  BY RowOf DEF WorksExplained
<1>2. PICK ws : ws = [work EXCEPT ![d].state = to, ![d].owner = "none", ![d].gen = @ + 1,
                                  ![d].paused = FALSE, ![d].att = Att]
  OBVIOUS
<1>3. /\ ws = [w \in Works |-> ws[w]] /\ ws[d].state = to /\ ws[d].paused = FALSE
      /\ ws[d].interrupts = work[d].interrupts /\ ws[d] \in WorkRows
      /\ \A w \in Works \ {d} : ws[w] = work[w]
  <2>1. work[d].gen + 1 \in Nat  BY <1>1, Columns
  <2>2. Att \in AttemptOver /\ "none" \in {"none", "worker", "cao", "user"}  BY DEF AttemptOver
  <2>. QED  BY <2>1, <2>2, <1>1, <1>2 DEF WorksTyped, WorkRows
<1>4. PICK t : t = InterruptTarget(ws, d)  OBVIOUS
<1>5. /\ t \in {0} \cup Works /\ t # d
      /\ t # 0 => work[t].state = "suspended" /\ work[t].by = d
      /\ \A w \in Works \ {d, t} : ~(work[w].state = "suspended" /\ work[w].by = d)
  BY <1>3, <1>4, TargetWaits
<1>6. /\ work' = IF t = 0 \/ ~admitted THEN ws
                 ELSE [ws EXCEPT ![t].state = "active", ![t].owner = "worker", ![t].by = 0,
                                 ![t].gen = @ + 1, ![t].att = IF @ = "suspended" THEN "working" ELSE @]
      /\ deferred' = (deferred \cup (IF t # 0 /\ ~admitted THEN {t} ELSE {})) \ {d}
      /\ bnd' = {b \in bnd : b.w # d}
  <2>1. /\ work' = Resumed(ws, d, admitted)
        /\ deferred' = (deferred \cup Deferred(ws, d, admitted)) \ {d}
        /\ bnd' = {b \in bnd : b.w # d}
    BY <1>2 DEF Ended
  <2>. HIDE <1>2
  <2>. QED  BY <2>1, <1>4 DEF Resumed, Deferred
<1>. HIDE <1>2, <1>4
<1>7. t # 0 => work[t] \in WorkRows /\ work[t].by # 0 /\ ~work[t].paused
  BY <1>5, <1>1, RowOf, OfWork DEF Caused, Works
<1>8. PICK z \in WorkRows : t # 0 /\ admitted => work'[t] = z /\ GoesOn(t, z)
  <2>1. CASE t = 0 \/ ~admitted  BY <2>1, <1>1
  <2>2. CASE t # 0 /\ admitted
    <3>1. work[t].gen + 1 \in Nat /\ 0 \in 0 .. used  BY <2>2, <1>1, <1>7, Columns
    <3>2. work[t].att \in {"assigned", "working", "suspended"} \cup AttemptOver  BY <2>2, <1>7 DEF WorkRows
    <3>3. ws[t] = work[t] /\ t \in Works  BY <2>2, <1>3, <1>5
    <3>4. work'[t] = [work[t] EXCEPT !.state = "active", !.owner = "worker", !.by = 0, !.gen = @ + 1,
                                     !.att = IF @ = "suspended" THEN "working" ELSE @]
      BY <3>3, <2>2, <1>3, <1>6
    <3>5. work'[t] \in WorkRows /\ GoesOn(t, work'[t])  BY <3>1, <3>2, <3>4, <2>2, <1>7 DEF WorkRows, GoesOn
    <3>. QED  BY <3>5
  <2>. QED  BY <2>1, <2>2
<1>9. /\ work' = [w \in Works |-> work'[w]] /\ work'[d] = ws[d]
      /\ \A w \in Works \ {d, t} : work'[w] = work[w]
      /\ t # 0 /\ ~admitted => work'[t] = work[t] /\ t \in deferred'
  BY <1>3, <1>5, <1>6
<1>10. /\ bnd' \subseteq bnd /\ deferred' \subseteq Works
       /\ \A w \in deferred : w # d => w \in deferred'
  BY <1>1, <1>5, <1>6 DEF WorksTyped
<1>11. Closes(d, ws[d])  BY <1>3 DEF Closes
<1>12. /\ t # 0 => \/ work'[t] = z /\ GoesOn(t, z)
                   \/ work'[t] = work[t] /\ t \in deferred'
       /\ t # 0 => work[t].state = "suspended" /\ work[t].by # 0
  BY <1>5, <1>7, <1>8, <1>9
<1>. HIDE <1>6
<1>. QED  BY <1>3, <1>5, <1>9, <1>10, <1>11, <1>12, ClosingExplained

------------------------------------------------------------------------------
(* IntentLog: every operation keeps the Works explained.                     *)

\* What an open Work is, in terms of its row.
LEMMA OpenRow ==
    ASSUME WorksExplained, NEW w \in Works, Open(w)
    PROVE  /\ work[w] \in WorkRows /\ work[w].gen + 1 \in Nat /\ work[w].goal + 1 \in Nat
           /\ w \in 1 .. used /\ 0 \in 0 .. used
           /\ work[w].state # "suspended" => work[w].by = 0 /\ ~work[w].paused
           /\ work[w].state = "suspended" => (work[w].paused <=> work[w].by = 0)
           /\ work[w].state = "suspended" /\ work[w].by # 0 =>
                 work[w].att \in AttemptOver \cup {"suspended"}
           /\ work[w].state \in {"active", "waiting", "user_needed", "suspended"}
<1>1. WorksTyped /\ WorksNumbered /\ work[w] \in WorkRows /\ used \in 0 .. MaxWorks
  BY RowOf DEF WorksExplained
<1>2. w <= used  BY <1>1, OpenIsCreated
<1>3. Caused(w) /\ Explained(w) /\ Waits(w)  BY OfWork
<1>4. work[w].gen \in Nat /\ work[w].goal \in Nat /\ work[w].paused \in BOOLEAN  BY <1>1, Columns
<1>5. work[w].state \in {"active", "waiting", "user_needed", "suspended"}
  BY <1>1 DEF WorkRows, Open, Terminal
<1>. QED  BY <1>1, <1>2, <1>3, <1>4, <1>5 DEF Caused, Explained, Waits, Works

\* What no operation changes, nothing has to explain.
LEMMA SameWorks ==
    ASSUME WorksExplained, UNCHANGED <<work, used, bnd, deferred>> PROVE WorksExplained'
BY DEF WorksExplained, WorksTyped, WorksNumbered, OneCause, SuspensionExplained, InterruptedWaits,
       WorkRows, Boundaries, Open

\* _create_work_tx: a new Work, which may interrupt an open one.
LEMMA TaskExplained ==
    ASSUME WorksExplained, NEW s \in Sources, NEW q \in Requests, ClassifyTask(s, q)
    PROVE  WorksExplained'
<1>1. q.target \in 0 .. MaxWorks  BY DEF Requests
<1>2. CASE q.rel = "interrupt"
  <2>1. q.target \in Works  BY <1>1, <1>2 DEF ClassifyTask, Works
  <2>2. OpensOver(q.target)  BY <1>2 DEF ClassifyTask, OpensOver
  <2>. QED  BY <2>1, <2>2, InterruptedExplained
<1>3. CASE q.rel # "interrupt"
  <2>1. Opens  BY <1>3 DEF ClassifyTask, Opens
  <2>. QED  BY <2>1, CreatedExplained
<1>. QED  BY <1>2, <1>3

\* _replace_goal_tx: a suspended Work stays suspended by the same one.
LEMMA ReplacedExplained ==
    ASSUME WorksExplained, NEW w \in Works, Recordable(w), work' = Replaced(work, w),
           bnd' \subseteq bnd, used' = used, deferred' = deferred
    PROVE  WorksExplained'
<1> DEFINE suspended == work[w].state = "suspended"
           r == [work[w] EXCEPT !.goal = @ + 1, !.gen = @ + 1,
                                !.state = IF suspended THEN "suspended" ELSE "active",
                                !.owner = IF suspended THEN "none" ELSE "worker",
                                !.by = IF suspended THEN @ ELSE 0,
                                !.att = IF suspended THEN "suspended" ELSE "assigned"]
<1>1. Open(w) /\ ~work[w].paused /\ WorksTyped  BY DEF Recordable, WorksExplained
<1>2. work[w] \in WorkRows /\ work[w].gen + 1 \in Nat /\ work[w].goal + 1 \in Nat /\ 0 \in 0 .. used
  BY <1>1, OpenRow
<1>3. work' = [work EXCEPT ![w] = r]  BY <1>1 DEF Replaced, WorksTyped
<1>4. r \in WorkRows /\ r.interrupts = work[w].interrupts
  BY <1>2 DEF WorkRows
<1>5. Becomes(w, r)  BY <1>1, <1>3, <1>2 DEF Becomes, WorkRows
<1>6. SelfExplained(w, r)  BY <1>1, <1>2 DEF SelfExplained, WorkRows
<1>7. bnd' \subseteq Boundaries  BY <1>1 DEF WorksTyped
<1>. HIDE DEF r
<1>. QED  BY <1>4, <1>5, <1>6, <1>7, RowExplained

\* An augment Directive leaves the state of its Work alone.
LEMMA AugmentExplained ==
    ASSUME WorksExplained, NEW s \in Sources, NEW q \in Requests, ClassifyAugment(s, q)
    PROVE  WorksExplained'
<1> DEFINE w == q.target
           r == [work[w] EXCEPT !.owner = "cao"]
<1>1. w \in Works  BY DEF Requests, ClassifyAugment, Works
<1>2. Open(w) /\ ~work[w].paused /\ WorksTyped  BY DEF Recordable, WorksExplained, ClassifyAugment
<1>3. /\ work[w] \in WorkRows /\ w \in 1 .. used
      /\ work[w].state # "suspended" => work[w].by = 0
      /\ work[w].state = "suspended" => work[w].by # 0 /\ work[w].att \in AttemptOver \cup {"suspended"}
      /\ work[w].state \in {"active", "waiting", "user_needed", "suspended"}
  BY <1>1, <1>2, OpenRow
<1>4. work' = [work EXCEPT ![w] = r] /\ used' = used /\ deferred' = deferred
  BY DEF ClassifyAugment
<1>5. r \in WorkRows  BY <1>3 DEF WorkRows
<1>6. Becomes(w, r)  BY <1>2, <1>3, <1>4 DEF Becomes, WorkRows
<1>7. SelfExplained(w, r)  BY <1>2, <1>3 DEF SelfExplained, WorkRows
<1>8. bnd' \subseteq Boundaries
  <2>1. work[w].gen \in Nat /\ work[w].goal \in Nat  BY <1>3 DEF WorkRows
  <2>. QED  BY <1>2, <1>3, <2>1 DEF WorksTyped, ClassifyAugment, Boundaries
<1>. HIDE DEF w, r
<1>. QED  BY <1>1, <1>4, <1>5, <1>6, <1>7, <1>8, RowExplained

\* A Worker's report.
LEMMA ReportExplained ==
    ASSUME WorksExplained, NEW w \in Works, Report(w) PROVE WorksExplained'
<1> DEFINE r == [work[w] EXCEPT !.state = "waiting", !.owner = "cao"]
<1>1. Open(w) /\ WorksTyped  BY DEF Report, Open, Terminal, WorksExplained
<1>2. work[w] \in WorkRows /\ w \in 1 .. used /\ work[w].by = 0 /\ ~work[w].paused
  BY <1>1, OpenRow DEF Report
<1>3. work' = [work EXCEPT ![w] = r] /\ used' = used /\ deferred' = deferred  BY DEF Report
<1>4. r \in WorkRows  BY <1>2 DEF WorkRows
<1>5. Becomes(w, r)  BY <1>1, <1>2, <1>3 DEF Becomes, WorkRows
<1>6. SelfExplained(w, r)  BY <1>2 DEF SelfExplained, WorkRows
<1>7. bnd' \subseteq Boundaries
  <2>1. work[w].gen \in Nat /\ work[w].goal \in Nat  BY <1>2 DEF WorkRows
  <2>. QED  BY <1>1, <1>2, <2>1 DEF WorksTyped, Report, Boundaries
<1>. HIDE DEF r
<1>. QED  BY <1>3, <1>4, <1>5, <1>6, <1>7, RowExplained

\* dispose_boundary: a suspended Work is paused by its CAO.
LEMMA DecideExplained ==
    ASSUME WorksExplained, NEW b \in bnd, NEW to \in {"active", "user_needed", "suspended"}, Decide(b, to)
    PROVE  WorksExplained'
<1> DEFINE w == b.w
           r == [work[w] EXCEPT !.state = to,
                   !.owner = CASE to = "active" -> "worker" [] to = "user_needed" -> "user"
                               [] OTHER -> "none",
                   !.paused = (to = "suspended"),
                   !.gen = IF to = "suspended" THEN @ + 1 ELSE @,
                   !.att = IF to = "suspended" THEN "suspended" ELSE "working"]
<1>0. WorksTyped /\ used \in 0 .. MaxWorks  BY DEF WorksTyped, WorksExplained
<1>1. w \in Works /\ Open(w) /\ work[w].state # "suspended"
  BY <1>0 DEF Decide, Decidable, WorksTyped, Boundaries, Works
<1>2. /\ work[w] \in WorkRows /\ work[w].gen + 1 \in Nat /\ work[w].by = 0
  BY <1>1, OpenRow
<1>3. work' = [work EXCEPT ![w] = r] /\ used' = used /\ deferred' = deferred /\ bnd' \subseteq bnd
  BY DEF Decide
<1>4. r \in WorkRows
  <2>1. (CASE to = "active" -> "worker" [] to = "user_needed" -> "user" [] OTHER -> "none")
           \in {"none", "worker", "cao", "user"}
    OBVIOUS
  <2>. QED  BY <1>2, <2>1 DEF WorkRows
<1>5. Becomes(w, r)  BY <1>1, <1>2, <1>3 DEF Becomes, WorkRows
<1>6. SelfExplained(w, r)  BY <1>2 DEF SelfExplained, WorkRows
<1>7. bnd' \subseteq Boundaries  BY <1>0, <1>3 DEF WorksTyped
<1>. HIDE DEF w, r
<1>. QED  BY <1>1, <1>3, <1>4, <1>5, <1>6, <1>7, RowExplained

\* An answer, or the end of a pause.
LEMMA ContinueExplained ==
    ASSUME WorksExplained, NEW w \in Works, Continue(w) PROVE WorksExplained'
<1> DEFINE r == [work[w] EXCEPT !.state = "active", !.owner = "worker", !.gen = @ + 1,
                                !.paused = FALSE, !.att = "assigned"]
<1>0. WorksTyped /\ Caused(w)  BY OfWork DEF WorksExplained
<1>1. Open(w)  BY <1>0 DEF Continue, Open, Terminal, Caused
<1>2. work[w] \in WorkRows /\ work[w].gen + 1 \in Nat /\ work[w].by = 0
  BY <1>1, <1>0, OpenRow DEF Continue, Caused
<1>3. work' = [work EXCEPT ![w] = r] /\ used' = used /\ deferred' = deferred /\ bnd' = bnd
  BY DEF Continue
<1>4. r \in WorkRows  BY <1>2 DEF WorkRows
<1>5. Becomes(w, r)  BY <1>1, <1>2, <1>3 DEF Becomes, WorkRows
<1>6. SelfExplained(w, r)  BY <1>2 DEF SelfExplained, WorkRows
<1>7. bnd' \subseteq Boundaries  BY <1>0, <1>3 DEF WorksTyped
<1>. HIDE DEF r
<1>. QED  BY <1>3, <1>4, <1>5, <1>6, <1>7, RowExplained

------------------------------------------------------------------------------
(* IntentLog: an intent is recorded and applied once.                        *)

\* One intent, one result.
Recording(s) == /\ applied[s] <= 1 /\ (intent[s].state # "done" => applied[s] = 0)
                /\ intent[s].via = "assign" => results[s] # NoResult

\* An operation that writes the row of one intent, its history and its stored result.
LEMMA IntentWritten ==
    ASSUME IntentsRecorded, NEW s \in Sources, NEW i \in Intents, NEW a \in Nat, NEW r \in Results,
           intent' = [intent EXCEPT ![s] = i], applied' = [applied EXCEPT ![s] = a],
           results' = [results EXCEPT ![s] = r],
           sent' \subseteq Sources, dirs' \subseteq Sources, wakes' \in [Sources -> SUBSET Caos],
           a <= 1, i.state # "done" => a = 0, i.via = "assign" => r # NoResult
    PROVE  IntentsRecorded'
<1>1. /\ intent' \in [Sources -> Intents] /\ applied' \in [Sources -> Nat]
      /\ results' \in [Sources -> Results]
  BY DEF IntentsRecorded
<1>2. AppliedWhenDone'
  <2> SUFFICES ASSUME NEW x \in Sources PROVE Recording(x)'
    BY DEF AppliedWhenDone, Recording
  <2>1. CASE x = s  BY <2>1 DEF IntentsRecorded, Recording
  <2>2. CASE x # s
    <3>1. Recording(x)  BY DEF IntentsRecorded, AppliedWhenDone, Recording
    <3>. QED  BY <2>2, <3>1 DEF IntentsRecorded, Recording
  <2>. QED  BY <2>1, <2>2
<1>. QED  BY <1>1, <1>2 DEF IntentsRecorded

\* What a step leaves of the records.
LEMMA SameRecords ==
    ASSUME IntentsRecorded, UNCHANGED <<intent, results, applied>>,
           sent' \subseteq Sources, dirs' \subseteq Sources, wakes' \in [Sources -> SUBSET Caos]
    PROVE  IntentsRecorded'
BY DEF IntentsRecorded, AppliedWhenDone

\* An intent that a CAO classifies is still open, so nothing was applied for it.
LEMMA ClassifyRecords ==
    ASSUME IntentsRecorded, NEW s \in Sources, NEW q \in Requests, NEW w \in 0 .. MaxWorks,
           intent[s].via = "compat", Unclassified(s), Store(s, q, w), SettleWakes(s),
           UNCHANGED <<sent, results>>, dirs' \subseteq Sources
    PROVE  IntentsRecorded'
<1> DEFINE i == [intent[s] EXCEPT !.state = "done", !.req = q, !.result = w]
           a == applied[s] + (IF q.rel = "noop" THEN 0 ELSE 1)
<1>1. /\ intent[s] \in Intents /\ applied[s] = 0 /\ results[s] \in Results /\ sent \subseteq Sources
      /\ wakes \in [Sources -> SUBSET Caos]
  BY DEF IntentsRecorded, AppliedWhenDone, Unclassified
<1>2. i \in Intents /\ i.via = "compat" /\ i.state = "done"
  BY <1>1 DEF Intents, Requests
<1>3. a \in Nat /\ a <= 1  BY <1>1
<1>4. /\ intent' = [intent EXCEPT ![s] = i] /\ applied' = [applied EXCEPT ![s] = a]
      /\ results' = [results EXCEPT ![s] = results[s]]
  BY DEF Store, IntentsRecorded
<1>5. wakes' \in [Sources -> SUBSET Caos] /\ sent' \subseteq Sources  BY <1>1 DEF SettleWakes
<1>. HIDE DEF i, a
<1>. QED  BY <1>1, <1>2, <1>3, <1>4, <1>5, IntentWritten

\* _classify_canonical_intent_for_compat, in each of its classifications.
LEMMA ClassifyPreserves ==
    ASSUME IntentInv, NEW s \in Sources, NEW q \in Requests, Classify(s, q)
    PROVE  IntentInv'
<1>1. WorksExplained /\ IntentsRecorded /\ dirs \subseteq Sources /\ q.target \in 0 .. MaxWorks
      /\ used \in 0 .. MaxWorks /\ WorksTyped
  BY DEF IntentInv, IntentsRecorded, Requests, WorksExplained, WorksTyped
<1>2. /\ intent[s].via = "compat" /\ Unclassified(s) /\ SettleWakes(s) /\ UNCHANGED <<sent, results>>
  BY DEF Classify
<1>3. CASE ClassifyTask(s, q)
  <2>1. WorksExplained'  BY <1>1, <1>3, TaskExplained
  <2>2. Store(s, q, used + 1) /\ used + 1 \in 0 .. MaxWorks /\ dirs' \subseteq Sources
    BY <1>1, <1>3 DEF ClassifyTask
  <2>3. IntentsRecorded'  BY <1>1, <1>2, <2>2, ClassifyRecords
  <2>. QED  BY <2>1, <2>3 DEF IntentInv
<1>4. CASE ClassifyReplace(s, q)
  <2>1. q.target \in Works /\ Recordable(q.target) /\ work' = Replaced(work, q.target)
        /\ bnd' \subseteq bnd /\ used' = used /\ deferred' = deferred
        /\ Store(s, q, q.target) /\ dirs' \subseteq Sources
    BY <1>1, <1>4 DEF ClassifyReplace, Works
  <2>2. WorksExplained'  BY <1>1, <2>1, ReplacedExplained
  <2>3. IntentsRecorded'  BY <1>1, <1>2, <2>1, ClassifyRecords
  <2>. QED  BY <2>2, <2>3 DEF IntentInv
<1>5. CASE ClassifyCancel(s, q)
  <2>1. q.target \in Works /\ Open(q.target) /\ used' = used /\ Store(s, q, q.target)
        /\ dirs' \subseteq Sources /\ "canceled" \in Terminal
    BY <1>1, <1>5 DEF ClassifyCancel, Works, Terminal
  <2>2. PICK admitted \in BOOLEAN : Ended(q.target, "canceled", admitted)
    BY <1>5 DEF ClassifyCancel
  <2>3. WorksExplained'  BY <1>1, <2>1, <2>2, EndedExplained
  <2>4. IntentsRecorded'  BY <1>1, <1>2, <2>1, ClassifyRecords
  <2>. QED  BY <2>3, <2>4 DEF IntentInv
<1>6. CASE ClassifyAugment(s, q)
  <2>1. WorksExplained'  BY <1>1, <1>6, AugmentExplained
  <2>2. Store(s, q, q.target) /\ dirs' \subseteq Sources  BY <1>1, <1>6 DEF ClassifyAugment
  <2>3. IntentsRecorded'  BY <1>1, <1>2, <2>2, ClassifyRecords
  <2>. QED  BY <2>1, <2>3 DEF IntentInv
<1>7. CASE ClassifyNoop(s, q)
  <2>1. Store(s, q, 0) /\ 0 \in 0 .. MaxWorks /\ dirs' \subseteq Sources
        /\ UNCHANGED <<work, used, bnd, deferred>>
    BY <1>1, <1>7 DEF ClassifyNoop
  <2>2. WorksExplained'  BY <1>1, <2>1, SameWorks
  <2>3. IntentsRecorded'  BY <1>1, <1>2, <2>1, ClassifyRecords
  <2>. QED  BY <2>2, <2>3 DEF IntentInv
<1>. QED  BY <1>3, <1>4, <1>5, <1>6, <1>7 DEF Classify

\* _receive_canonical_intent_for_compat: at most the open row of a new intent.
LEMMA SubmitPreserves ==
    ASSUME IntentInv, NEW s \in Sources, NEW p \in Payloads, Submit(s, p)
    PROVE  IntentInv'
<1> DEFINE i == IF intent[s].state = "none"
                THEN [NoIntent EXCEPT !.state = "open", !.payload = p, !.via = "compat"]
                ELSE intent[s]
<1>1. /\ intent[s] \in Intents /\ applied[s] \in Nat /\ results[s] \in Results /\ Recording(s)
      /\ IntentsRecorded /\ WorksExplained
  BY DEF IntentInv, IntentsRecorded, AppliedWhenDone, Recording
<1>2. NoIntent \in Intents  BY DEF NoIntent, Intents
<1>3. /\ i \in Intents
      /\ applied[s] <= 1 /\ (i.state # "done" => applied[s] = 0)
      /\ i.via = "assign" => results[s] # NoResult
  <2>1. CASE intent[s].state = "none"  BY <1>1, <1>2, <2>1 DEF Intents, Recording
  <2>2. CASE intent[s].state # "none"  BY <1>1, <2>2 DEF Recording
  <2>. QED  BY <2>1, <2>2
<1>4. /\ intent' = [intent EXCEPT ![s] = i] /\ applied' = [applied EXCEPT ![s] = applied[s]]
      /\ results' = [results EXCEPT ![s] = results[s]]
      /\ sent' \subseteq Sources /\ dirs' \subseteq Sources /\ wakes' \in [Sources -> SUBSET Caos]
  BY <1>1 DEF Submit, IntentsRecorded
<1>5. WorksExplained'  BY <1>1, SameWorks DEF Submit
<1>. HIDE DEF i
<1>6. IntentsRecorded'  BY <1>1, <1>3, <1>4, IntentWritten
<1>. QED  BY <1>5, <1>6 DEF IntentInv

\* assign_work: the key of a stored result, or of another facade, assigns nothing.
LEMMA AssignPreserves ==
    ASSUME IntentInv, NEW s \in Sources, NEW p \in Payloads, AssignWork(s, p)
    PROVE  IntentInv'
<1> DEFINE i == [state |-> "done", payload |-> p, via |-> "assign",
                 req |-> [rel |-> "independent", target |-> 0], result |-> used + 1]
           r == [req |-> <<p>>, w |-> used + 1]
<1>1. /\ intent[s] \in Intents /\ Recording(s) /\ IntentsRecorded /\ WorksExplained
      /\ used \in 0 .. MaxWorks
  BY DEF IntentInv, IntentsRecorded, AppliedWhenDone, Recording, WorksExplained, WorksTyped
<1>2. applied[s] = 0  BY <1>1 DEF AssignWork, Recorded, Recording
<1>3. used + 1 \in 0 .. MaxWorks /\ 0 \in 0 .. MaxWorks  BY <1>1 DEF AssignWork
<1>4. i \in Intents  BY <1>3 DEF Intents
<1>5. r \in Results /\ r # NoResult
  <2>1. <<p>> # <<>>  OBVIOUS
  <2>. QED  BY <1>3, <2>1 DEF Results, NoResult
<1>6. /\ intent' = [intent EXCEPT ![s] = i] /\ applied' = [applied EXCEPT ![s] = 1]
      /\ results' = [results EXCEPT ![s] = r]
      /\ sent' \subseteq Sources /\ dirs' \subseteq Sources /\ wakes' \in [Sources -> SUBSET Caos]
  BY <1>1, <1>2 DEF AssignWork, IntentsRecorded
<1>7. i.state = "done"  OBVIOUS
<1>8. WorksExplained'
  <2>1. Opens  BY DEF AssignWork, Opens
  <2>. QED  BY <1>1, <2>1, CreatedExplained
<1>. HIDE DEF i, r
<1>9. 1 \in Nat /\ 1 <= 1  OBVIOUS
<1>10. IntentsRecorded'  BY <1>1, <1>4, <1>5, <1>6, <1>7, <1>9, IntentWritten
<1>. QED  BY <1>8, <1>10 DEF IntentInv

\* revise_goal: an intent of its own, applied to an open Work.
LEMMA RevisePreserves ==
    ASSUME IntentInv, NEW s \in Sources, NEW w \in Works, NEW v \in 1 .. MaxGen, ReviseGoal(s, w, v)
    PROVE  IntentInv'
<1> DEFINE i == [state |-> "done", payload |-> "none", via |-> "revise",
                 req |-> [rel |-> "replace", target |-> w], result |-> w]
           r == [req |-> <<w, v>>, w |-> w]
<1>1. /\ Recording(s) /\ IntentsRecorded /\ WorksExplained
  BY DEF IntentInv, IntentsRecorded, AppliedWhenDone, Recording
<1>2. applied[s] = 0 /\ w \in 0 .. MaxWorks  BY <1>1 DEF ReviseGoal, Recording, Works
<1>3. i \in Intents /\ i.state = "done" /\ i.via # "assign"  BY <1>2 DEF Intents
<1>4. r \in Results
  <2>1. <<w, v>> \in Works \X (1 .. MaxGen)  OBVIOUS
  <2>2. <<w, v>> \in {<<x[1], x[2]>> : x \in Works \X (1 .. MaxGen)}  BY <2>1
  <2>. QED  BY <1>2, <2>2 DEF Results
<1>5. /\ intent' = [intent EXCEPT ![s] = i] /\ applied' = [applied EXCEPT ![s] = 1]
      /\ results' = [results EXCEPT ![s] = r]
      /\ sent' \subseteq Sources /\ dirs' \subseteq Sources /\ wakes' \in [Sources -> SUBSET Caos]
  BY <1>1, <1>2 DEF ReviseGoal, IntentsRecorded
<1>6. WorksExplained'
  <2>1. /\ Recordable(w) /\ work' = Replaced(work, w) /\ bnd' \subseteq bnd
        /\ used' = used /\ deferred' = deferred
    BY DEF ReviseGoal
  <2>. QED  BY <1>1, <2>1, ReplacedExplained
<1>. HIDE DEF i, r
<1>7. 1 \in Nat /\ 1 <= 1  OBVIOUS
<1>8. IntentsRecorded'  BY <1>1, <1>3, <1>4, <1>5, <1>7, IntentWritten
<1>. QED  BY <1>6, <1>8 DEF IntentInv

\* What the Workers and the requester do beside the intents.
LEMMA BesidePreserves ==
    ASSUME IntentInv,
           \/ \E w \in Works : Report(w) \/ Continue(w) \/ Complete(w)
           \/ \E b \in bnd, to \in {"active", "user_needed", "suspended"} : Decide(b, to)
    PROVE  IntentInv'
<1>1. WorksExplained /\ IntentsRecorded  BY DEF IntentInv
<1>2. WorksExplained'
  <2>1. CASE \E w \in Works : Report(w) \/ Continue(w)  BY <1>1, <2>1, ReportExplained, ContinueExplained
  <2>2. CASE \E w \in Works : Complete(w)
    <3>1. PICK w \in Works : Complete(w)  BY <2>2
    <3>2. Open(w) /\ used' = used /\ "completed" \in Terminal  BY <3>1 DEF Complete, Open, Terminal
    <3>3. PICK admitted \in BOOLEAN : Ended(w, "completed", admitted)  BY <3>1 DEF Complete
    <3>. QED  BY <1>1, <3>2, <3>3, EndedExplained
  <2>3. CASE \E b \in bnd, to \in {"active", "user_needed", "suspended"} : Decide(b, to)
    BY <1>1, <2>3, DecideExplained
  <2>. QED  BY <2>1, <2>2, <2>3
<1>3. IntentsRecorded'
  <2>1. UNCHANGED <<intent, results, applied, sent, wakes>> /\ dirs' \subseteq dirs
    <3>1. CASE \E w \in Works : Report(w) \/ Continue(w)  BY <3>1 DEF Report, Continue
    <3>2. CASE \E w \in Works : Complete(w)  BY <3>2 DEF Complete
    <3>3. CASE \E b \in bnd, to \in {"active", "user_needed", "suspended"} : Decide(b, to)
      <4>1. PICK b \in bnd, to \in {"active", "user_needed", "suspended"} : Decide(b, to)  BY <3>3
      <4>. QED  BY <4>1 DEF Decide
    <3>. QED  BY <3>1, <3>2, <3>3
  <2>. QED  BY <1>1, <2>1, SameRecords DEF IntentsRecorded
<1>. QED  BY <1>2, <1>3 DEF IntentInv

\* A lost answer asked for again, and retention.
LEMMA SettledPreserves ==
    ASSUME IntentInv, NEW s \in Sources,
           PruneWake(s) \/ \E q \in Requests : ClassifyAgain(s, q)
    PROVE  IntentInv'
<1>1. WorksExplained /\ IntentsRecorded  BY DEF IntentInv
<1>2. UNCHANGED <<work, used, bnd, deferred, intent, results, applied, dirs>>
  BY DEF PruneWake, ClassifyAgain
<1>3. sent' \subseteq Sources /\ wakes' \in [Sources -> SUBSET Caos]
  BY <1>1 DEF PruneWake, ClassifyAgain, SettleWakes, IntentsRecorded
<1>4. WorksExplained'  BY <1>1, <1>2, SameWorks
<1>5. IntentsRecorded'  BY <1>1, <1>2, <1>3, SameRecords DEF IntentsRecorded
<1>. QED  BY <1>4, <1>5 DEF IntentInv

\* No Work, and no intent.
LEMMA IntentStart == IntentInit => IntentInv
<1> SUFFICES ASSUME IntentInit PROVE IntentInv
  OBVIOUS
<1>1. used = 0 /\ used \in 0 .. MaxWorks /\ 0 \in 0 .. used  BY DEF IntentInit
<1>2. NoWork \in WorkRows  BY <1>1 DEF NoWork, WorkRows, AttemptOver
<1>3. \A w \in Works : work[w] = NoWork /\ w > 0  BY DEF IntentInit, Works
<1>4. NoWork.state = "none" /\ ~NoWork.paused /\ NoWork.by = 0  BY DEF NoWork
<1>5. WorksTyped  BY <1>1, <1>2 DEF IntentInit, WorksTyped
<1>6. WorksExplained
  BY <1>1, <1>3, <1>4, <1>5 DEF WorksExplained, WorksNumbered, OneCause, SuspensionExplained, InterruptedWaits
<1>7. NoIntent \in Intents /\ NoResult \in Results  BY DEF NoIntent, NoResult, Intents, Results
<1>8. NoIntent.state = "none" /\ NoIntent.via = "none"  BY DEF NoIntent
<1>9. AppliedWhenDone  BY <1>8 DEF IntentInit, AppliedWhenDone
<1>10. IntentsRecorded  BY <1>7, <1>9 DEF IntentInit, IntentsRecorded
<1>. QED  BY <1>6, <1>10 DEF IntentInv

\* IntentInv is inductive.
THEOREM IntentInvariant == IntentSpec => []IntentInv
<1>1. ASSUME IntentInv, [IntentNext]_intents PROVE IntentInv'
  <2>1. CASE UNCHANGED intents
    <3>1. WorksExplained' /\ IntentsRecorded'
      BY <1>1, <2>1, SameWorks, SameRecords DEF intents, IntentInv, IntentsRecorded
    <3>. QED  BY <3>1 DEF IntentInv
  <2>2. CASE IntentNext
    BY <1>1, <2>2, SubmitPreserves, AssignPreserves, ClassifyPreserves, RevisePreserves,
       BesidePreserves, SettledPreserves DEF IntentNext
  <2>. QED  BY <1>1, <2>1, <2>2
<1>. QED  BY IntentStart, <1>1, PTL DEF IntentSpec

\* However often a source submits, an answer is lost, or two CAOs classify the same intent, it is
\* applied once; a Work suspended by another one waits for exactly that Work, and does not run
\* before it ends.
THEOREM IntentsAppliedOnce == IntentSpec => []IntentsApplied
<1>1. IntentInv => IntentsApplied
  <2> SUFFICES ASSUME IntentInv PROVE IntentsApplied
    OBVIOUS
  <2>1. IntentTypeOK
    BY DEF IntentInv, IntentTypeOK, IntentsRecorded, WorksExplained, WorksTyped, WorksNumbered, OneCause
  <2>2. OneTransition /\ SuspensionExplained /\ InterruptedWaits
    BY DEF IntentInv, IntentsRecorded, AppliedWhenDone, WorksExplained, OneTransition
  <2>. QED  BY <2>1, <2>2 DEF IntentsApplied
<1>. QED  BY <1>1, IntentInvariant, PTL

------------------------------------------------------------------------------
(* CaoSession: the inductive invariant.                                      *)

HIDE IntentAssumption

\* A row that was not inserted yet is blank, and rows are inserted from the first on.
ConnsNumbered ==
    /\ \A n \in 1 .. MaxConns : conns[n].st = "none" => conns[n] = NoConn
    /\ \E m \in 0 .. MaxConns : \A n \in 1 .. MaxConns : conns[n].st = "none" <=> m < n
TicketsNumbered ==
    /\ \A t \in 1 .. MaxWakes : tickets[t].ticket = "none" => tickets[t] = NoTicket
    /\ \E m \in 0 .. MaxWakes : \A t \in 1 .. MaxWakes : tickets[t].ticket = "none" <=> m < t

\* A credential is active only with its connection, and a connection only with the attachment and
\* under the catalog that its bridge loaded.
ConnectionsCurrent ==
    /\ \A n \in 1 .. MaxConns : conns[n].st = "active" => conns[n].cat = catalog /\ att.st = "active"
    /\ \A c \in 1 .. MaxCscs :
          cscs[c].st = "active" => cscs[c].conn \in 1 .. MaxConns /\ conns[cscs[c].conn].st = "active"

\* The ticket of the wake under way: pending, or consumed by the credential that is active.
Holds(t) == tickets[t].ticket = "pending" \/ tickets[t].crc = "active"

\* A wake has the runtime of the present generation, and no later one was issued.
WakeHoldsRuntime ==
    \A t \in 1 .. MaxWakes :
       /\ tickets[t].ticket = "pending" => tickets[t].crc = "none"
       /\ tickets[t].crc = "active" => tickets[t].ticket = "consumed"
       /\ Holds(t) => /\ att.st = "active" /\ att.rt = "busy" /\ tickets[t].gen = att.gen
                      /\ \A u \in 1 .. MaxWakes : tickets[u].ticket # "none" => u <= t

\* The Work of a closed conversation is over; the generation of a closed attachment is older than
\* its close, and a capability that still opens it is not.
WorkOver == ownWork.st # "open" /\ ownWork.bd # "open" /\ ownWork.dl \notin {"queued", "dispatched", "prestart"}
ClosedInItsEra ==
    att.st = "revoked" =>
        /\ WorkOver /\ att.gen < closes
        /\ \A b \in 1 .. MaxCabs : cabs[b].st = "active" /\ cabs[b].seen = att.gen => cabs[b].era = closes

\* Before the first attachment, and before the first Work, there is nothing of either.
NothingBefore == (att.st = "none" => att.gen = 0) /\ (ownWork.st = "none" => ownWork.dl = "none")

SessionInv ==
    /\ SessionTypeOK /\ ConnsNumbered /\ TicketsNumbered /\ ConnectionsCurrent /\ WakeHoldsRuntime
    /\ ClosedInItsEra /\ NothingBefore

------------------------------------------------------------------------------
(* CaoSession: rows.                                                         *)

\* The generation is a number, and so is the count of closes.
LEMMA Numbers ==
    ASSUME SessionTypeOK
    PROVE  /\ att \in Attachments /\ att.gen \in Nat /\ closes \in Nat /\ att.gen <= closes
           /\ MaxConns \in Nat /\ MaxWakes \in Nat /\ MaxCabs \in Nat /\ MaxCscs \in Nat
<1>1. att \in Attachments /\ closes \in 0 .. MaxCabs  BY DEF SessionTypeOK
<1>2. att.gen \in 0 .. closes  BY <1>1 DEF Attachments
<1>3. MaxConns \in Nat /\ MaxWakes \in Nat /\ MaxCabs \in Nat /\ MaxCscs \in Nat
  BY SessionAssumption
<1>. QED  BY <1>1, <1>2, <1>3

\* A row stays one when the attachment's generation or the count of closes goes up.
LEMMA Grow ==
    ASSUME SessionTypeOK, att'.gen \in Nat, att.gen <= att'.gen, closes' \in Nat, closes <= closes'
    PROVE  /\ Cabs \subseteq Cabs' /\ Conns \subseteq Conns' /\ Cscs \subseteq Cscs'
           /\ Tickets \subseteq Tickets' /\ OwnWorks \subseteq OwnWorks'
<1>1. att.gen \in Nat /\ closes \in Nat  BY Numbers
<1>2. 0 .. att.gen \subseteq 0 .. att'.gen /\ -1 .. att.gen \subseteq -1 .. att'.gen
      /\ 0 .. closes \subseteq 0 .. closes'
  BY <1>1
<1>. QED  BY <1>2 DEF Cabs, Conns, Cscs, Tickets, OwnWorks

\* Tables that no operation touches keep their connections current.
LEMMA SameConnections ==
    ASSUME ConnectionsCurrent, UNCHANGED <<catalog, conns, cscs>>, att.st = "active" => att'.st = "active"
    PROVE  ConnectionsCurrent'
BY DEF ConnectionsCurrent

\* A table stays in order when no row becomes blank or ceases to be.
LEMMA ConnsStay ==
    ASSUME ConnsNumbered,
           \A n \in 1 .. MaxConns : \/ conns'[n] = conns[n]
                                    \/ conns[n].st # "none" /\ conns'[n].st # "none"
    PROVE  ConnsNumbered'
BY DEF ConnsNumbered

\* And so the rows of wakes.
LEMMA TicketsStay ==
    ASSUME TicketsNumbered,
           \A t \in 1 .. MaxWakes : \/ tickets'[t] = tickets[t]
                                    \/ tickets[t].ticket # "none" /\ tickets'[t].ticket # "none"
    PROVE  TicketsNumbered'
BY DEF TicketsNumbered

\* The next row of a table in order: the first blank one.
LEMMA NextConn ==
    ASSUME SessionTypeOK, ConnsNumbered, Fresh(conns, NoConn) # {}
    PROVE  \E n \in 1 .. MaxConns : /\ NextRow(conns, NoConn) = n /\ conns[n].st = "none"
                                    /\ \A i \in 1 .. MaxConns : conns[i].st = "none" <=> n <= i
<1>1. PICK m \in 0 .. MaxConns : \A n \in 1 .. MaxConns : conns[n].st = "none" <=> m < n
  BY DEF ConnsNumbered
<1>2. \A n \in 1 .. MaxConns : conns[n] = NoConn <=> m < n
  <2>1. NoConn.st = "none"  BY DEF NoConn
  <2>. QED  BY <2>1, <1>1 DEF ConnsNumbered
<1>3. Fresh(conns, NoConn) = {n \in 1 .. MaxConns : m < n}  BY <1>2 DEF Fresh, SessionTypeOK
<1>4. MaxConns \in Nat /\ m + 1 \in 1 .. MaxConns  BY <1>3, Numbers
<1>5. /\ m + 1 \in Fresh(conns, NoConn)
      /\ \A n \in Fresh(conns, NoConn) : m + 1 <= n /\ (n <= m + 1 => n = m + 1)
  BY <1>3, <1>4
<1>6. NextRow(conns, NoConn) = m + 1  BY <1>5 DEF NextRow
<1>. QED  BY <1>1, <1>4, <1>6

\* And so the first blank row of the wakes.
LEMMA NextTicket ==
    ASSUME SessionTypeOK, TicketsNumbered, Fresh(tickets, NoTicket) # {}
    PROVE  \E n \in 1 .. MaxWakes : /\ NextRow(tickets, NoTicket) = n /\ tickets[n].ticket = "none"
                                    /\ \A i \in 1 .. MaxWakes : tickets[i].ticket = "none" <=> n <= i
<1>1. PICK m \in 0 .. MaxWakes : \A n \in 1 .. MaxWakes : tickets[n].ticket = "none" <=> m < n
  BY DEF TicketsNumbered
<1>2. \A n \in 1 .. MaxWakes : tickets[n] = NoTicket <=> m < n  BY <1>1 DEF TicketsNumbered, NoTicket
<1>3. Fresh(tickets, NoTicket) = {n \in 1 .. MaxWakes : m < n}  BY <1>2 DEF Fresh, SessionTypeOK
<1>4. MaxWakes \in Nat /\ m + 1 \in 1 .. MaxWakes  BY <1>3, Numbers
<1>5. /\ m + 1 \in Fresh(tickets, NoTicket)
      /\ \A n \in Fresh(tickets, NoTicket) : m + 1 <= n /\ (n <= m + 1 => n = m + 1)
  BY <1>3, <1>4
<1>6. NextRow(tickets, NoTicket) = m + 1  BY <1>5 DEF NextRow
<1>. QED  BY <1>1, <1>4, <1>6

------------------------------------------------------------------------------
(* CaoSession: the wake under way.                                           *)

\* At most one wake has the runtime.
LEMMA OneHolder ==
    ASSUME WakeHoldsRuntime, NEW t \in 1 .. MaxWakes, NEW u \in 1 .. MaxWakes, Holds(t), Holds(u)
    PROVE  t = u
<1>1. tickets[t].ticket # "none" /\ tickets[u].ticket # "none"  BY DEF WakeHoldsRuntime, Holds
<1>2. t <= u /\ u <= t  BY <1>1 DEF WakeHoldsRuntime
<1>3. t \in Int /\ u \in Int  OBVIOUS
<1>. QED  BY <1>2, <1>3

\* When no wake is under way, the runtime is free.
LEMMA WakesOver ==
    ASSUME \A t \in 1 .. MaxWakes : tickets'[t].ticket # "pending" /\ tickets'[t].crc # "active"
    PROVE  WakeHoldsRuntime'
BY DEF WakeHoldsRuntime, Holds

\* A wake under way stays one while the attachment and its runtime do.
LEMMA SameWakes ==
    ASSUME WakeHoldsRuntime, UNCHANGED tickets, att'.st = att.st, att'.rt = att.rt, att'.gen = att.gen
    PROVE  WakeHoldsRuntime'
BY DEF WakeHoldsRuntime, Holds

\* Operations that leave every table of the authority alone.
LEMMA SameTables ==
    ASSUME SessionInv, UNCHANGED <<catalog, conns, cscs, tickets, closes>>,
           att'.st = att.st, att'.rt = att.rt, att'.gen = att.gen
    PROVE  ConnsNumbered' /\ TicketsNumbered' /\ ConnectionsCurrent' /\ WakeHoldsRuntime'
<1>1. ConnsNumbered' /\ TicketsNumbered'  BY ConnsStay, TicketsStay DEF SessionInv
<1>2. ConnectionsCurrent' /\ WakeHoldsRuntime'  BY SameConnections, SameWakes DEF SessionInv
<1>. QED  BY <1>1, <1>2

\* _stop_runtime_tx: the tickets and credentials of every wake are revoked, and no row goes blank.
LEMMA Stopped ==
    ASSUME SessionTypeOK, TicketsNumbered, tickets' = WakesStopped
    PROVE  /\ tickets' \in [1 .. MaxWakes -> Tickets] /\ TicketsNumbered' /\ WakeHoldsRuntime'
<1>1. \A t \in 1 .. MaxWakes :
         /\ tickets[t] \in Tickets /\ tickets'[t] \in Tickets
         /\ tickets'[t].ticket # "pending" /\ tickets'[t].crc # "active"
         /\ tickets[t].ticket # "none" => tickets'[t].ticket # "none"
         /\ tickets[t] = NoTicket => tickets'[t] = NoTicket
  <2> SUFFICES ASSUME NEW t \in 1 .. MaxWakes
               PROVE  /\ tickets[t] \in Tickets /\ tickets'[t] \in Tickets
                      /\ tickets'[t].ticket # "pending" /\ tickets'[t].crc # "active"
                      /\ tickets[t].ticket # "none" => tickets'[t].ticket # "none"
                      /\ tickets[t] = NoTicket => tickets'[t] = NoTicket
    OBVIOUS
  <2>1. tickets[t] \in Tickets  BY DEF SessionTypeOK
  <2>2. tickets'[t] = [tickets[t] EXCEPT !.crc = IF @ = "active" THEN "revoked" ELSE @,
                                         !.ticket = IF @ = "pending" THEN "revoked" ELSE @]
    BY DEF WakesStopped
  <2>3. /\ tickets'[t] \in Tickets
        /\ tickets'[t].ticket # "pending" /\ tickets'[t].crc # "active"
        /\ tickets[t].ticket # "none" => tickets'[t].ticket # "none"
    BY <2>1, <2>2 DEF Tickets
  <2>4. tickets[t] = NoTicket => tickets'[t] = NoTicket
    <3>1. NoTicket.crc = "none" /\ NoTicket.ticket = "none"  BY DEF NoTicket
    <3>2. \A r \in Tickets : /\ r.crc = "none" /\ r.ticket = "none"
                             => [r EXCEPT !.crc = "none", !.ticket = "none"] = r
      BY DEF Tickets
    <3>. QED  BY <2>1, <2>2, <3>1, <3>2
  <2>. QED  BY <2>1, <2>3, <2>4
<1>2. tickets' \in [1 .. MaxWakes -> Tickets]  BY <1>1 DEF WakesStopped
<1>3. TicketsNumbered'
  <2>1. \A t \in 1 .. MaxWakes : \/ tickets'[t] = tickets[t]
                                 \/ tickets[t].ticket # "none" /\ tickets'[t].ticket # "none"
    BY <1>1 DEF TicketsNumbered
  <2>. QED  BY <2>1, TicketsStay
<1>. QED  BY <1>1, <1>2, <1>3, WakesOver

------------------------------------------------------------------------------
(* CaoSession: requests, bootstraps and the Work.                            *)

\* Whoever acts in a transaction, acts for an active attachment.
LEMMA ActorActive ==
    ASSUME NEW k \in Callers, CurrentActor(k) PROVE att.st = "active"
BY DEF CurrentActor, CscUsable, CrcUsable

\* authenticate, and the end of a request, write nothing of the conversation.
LEMMA RequestPreserves ==
    ASSUME SessionInv, NEW k \in Callers,
           \/ \E c \in 1 .. MaxCscs : AuthenticateCsc(k, c)
           \/ \E t \in 1 .. MaxWakes : AuthenticateCrc(k, t)
           \/ RequestEnds(k)
    PROVE  SessionInv'
<1>1. UNCHANGED <<catalog, peers, att, cabs, conns, cscs, tickets, ownWork, closes>>
  BY DEF AuthenticateCsc, AuthenticateCrc, RequestEnds
<1>2. caller' \in [Callers -> Bearers]
  <2>1. caller \in [Callers -> Bearers]  BY DEF SessionInv, SessionTypeOK
  <2>2. PICK x \in Bearers : caller' = [caller EXCEPT ![k] = x]
    <3>1. \A c \in 1 .. MaxCscs : [kind |-> "csc", id |-> c] \in Bearers  BY DEF Bearers
    <3>2. \A t \in 1 .. MaxWakes : [kind |-> "crc", id |-> t] \in Bearers  BY DEF Bearers
    <3>3. Idle \in Bearers  BY DEF Bearers, Idle
    <3>. QED  BY <3>1, <3>2, <3>3 DEF AuthenticateCsc, AuthenticateCrc, RequestEnds
  <2>. QED  BY <2>1, <2>2
<1>3. SessionTypeOK'
  BY <1>1, <1>2, Grow, Numbers DEF SessionInv, SessionTypeOK, Attachments
<1>4. ConnsNumbered' /\ TicketsNumbered' /\ ConnectionsCurrent' /\ WakeHoldsRuntime'  BY <1>1, SameTables
<1>5. ClosedInItsEra' /\ NothingBefore'
  BY <1>1 DEF SessionInv, ClosedInItsEra, NothingBefore, WorkOver
<1>. QED  BY <1>3, <1>4, <1>5 DEF SessionInv

\* issue_owner_local_attachment_bootstrap: a capability is of the present era.
LEMMA IssuePreserves ==
    ASSUME SessionInv, NEW p \in Peers, IssueBootstrap(p) \/ PeerExits(p) PROVE SessionInv'
<1>1. UNCHANGED <<catalog, att, conns, cscs, tickets, caller, ownWork, closes>> /\ peers' \subseteq Peers
  BY DEF IssueBootstrap, PeerExits, SessionInv, SessionTypeOK
<1>2. SessionTypeOK  BY DEF SessionInv
<1>3. \A b \in 1 .. MaxCabs :
         \/ cabs'[b] = cabs[b]
         \/ /\ cabs'[b] \in Cabs /\ cabs'[b].era = closes
            /\ cabs' = [cabs EXCEPT ![b] = cabs'[b]]
  <2>1. CASE PeerExits(p)  BY <2>1 DEF PeerExits
  <2>2. CASE IssueBootstrap(p)
    <3> DEFINE r == [st |-> "active", peer |-> p, cat |-> catalog, era |-> closes,
                     seen |-> IF att.st = "none" THEN -1 ELSE att.gen]
    <3>1. cabs' = [cabs EXCEPT ![NextRow(cabs, NoCab)] = r]  BY <2>2 DEF IssueBootstrap
    <3>2. r \in Cabs
      <4>1. catalog \in 0 .. MaxCatalog  BY <1>2, SessionAssumption DEF SessionTypeOK
      <4>2. -1 \in -1 .. att.gen /\ att.gen \in -1 .. att.gen /\ closes \in 0 .. closes  BY <1>2, Numbers
      <4>. QED  BY <4>1, <4>2 DEF Cabs, Peer, Catalogs
    <3>3. r.era = closes  OBVIOUS
    <3>. HIDE DEF r
    <3>. QED  BY <3>1, <3>2, <3>3, <1>2 DEF SessionTypeOK
  <2>. QED  BY <2>1, <2>2
<1>4. cabs' \in [1 .. MaxCabs -> Cabs]
  <2>1. DOMAIN cabs' = 1 .. MaxCabs /\ cabs' = [b \in 1 .. MaxCabs |-> cabs'[b]]
    BY <1>2 DEF SessionTypeOK, IssueBootstrap, PeerExits
  <2>. QED  BY <2>1, <1>2, <1>3 DEF SessionTypeOK
<1>5. SessionTypeOK'
  BY <1>1, <1>2, <1>4, Grow, Numbers DEF SessionTypeOK, Attachments
<1>6. ConnsNumbered' /\ TicketsNumbered' /\ ConnectionsCurrent' /\ WakeHoldsRuntime'  BY <1>1, SameTables
<1>7. ClosedInItsEra' /\ NothingBefore'
  BY <1>1, <1>3 DEF SessionInv, ClosedInItsEra, NothingBefore, WorkOver
<1>. QED  BY <1>5, <1>6, <1>7 DEF SessionInv

\* bind_verified_project_identity.
LEMMA BindPreserves == ASSUME SessionInv, BindProject PROVE SessionInv'
<1>1. /\ UNCHANGED <<catalog, peers, cabs, conns, cscs, tickets, caller, ownWork, closes>>
      /\ att' \in Attachments /\ att'.st = att.st /\ att'.rt = att.rt /\ att'.gen = att.gen
  BY DEF BindProject, SessionInv, SessionTypeOK, Attachments
<1>2. SessionTypeOK'
  BY <1>1, Grow, Numbers DEF SessionInv, SessionTypeOK, Attachments
<1>3. ConnsNumbered' /\ TicketsNumbered' /\ ConnectionsCurrent' /\ WakeHoldsRuntime'  BY <1>1, SameTables
<1>4. ClosedInItsEra' /\ NothingBefore'
  BY <1>1 DEF SessionInv, ClosedInItsEra, NothingBefore, WorkOver
<1>. QED  BY <1>2, <1>3, <1>4 DEF SessionInv

\* The Assignment, the Boundary or the result of an open Work moves on, and nothing else.
LEMMA OwnWorkStep ==
    ASSUME OwnWorkMoves
    PROVE  /\ UNCHANGED <<catalog, peers, att, cabs, conns, cscs, tickets, caller, closes>>
           /\ ownWork.st = "open"
           /\ ownWork \in OwnWorks => ownWork' \in OwnWorks /\ ownWork'.st \in {"open", "completed"}
<1>1. CASE OwnAssignmentSubmitted
  BY <1>1 DEF OwnAssignmentSubmitted, OwnWorkBecomes, OwnWorks
<1>2. CASE OwnAssignmentHandled
  BY <1>2 DEF OwnAssignmentHandled, OwnWorkBecomes, OwnWorks
<1>3. CASE OwnWorkReported
  BY <1>3 DEF OwnWorkReported, OwnWorkBecomes, OwnWorks
<1>4. CASE OwnBoundaryDisposed
  BY <1>4 DEF OwnBoundaryDisposed, OwnWorkBecomes, OwnWorks
<1>5. CASE OwnWorkCompleted
  BY <1>5 DEF OwnWorkCompleted, OwnWorkBecomes, OwnWorks
<1>. QED  BY <1>1, <1>2, <1>3, <1>4, <1>5 DEF OwnWorkMoves

\* The Work of the conversation: opened by a current actor, moved on, completed and cleaned up.
LEMMA WorkPreserves ==
    ASSUME SessionInv, (\E k \in Callers : AssignOwnWork(k)) \/ OwnWorkMoves \/ ReceiptWritten
    PROVE  SessionInv'
<1>1. UNCHANGED <<catalog, peers, att, cabs, conns, cscs, tickets, closes>> /\ SessionTypeOK
  BY OwnWorkStep DEF AssignOwnWork, ReceiptWritten, SessionInv
<1>2. caller' \in [Callers -> Bearers]
  <2>1. Idle \in Bearers  BY DEF Bearers, Idle
  <2>. QED  BY <1>1, <2>1, OwnWorkStep DEF AssignOwnWork, ReceiptWritten, SessionTypeOK
<1>3. ownWork' \in OwnWorks /\ (att.st = "revoked" => WorkOver') /\ (ownWork'.st = "none" => ownWork'.dl = "none")
  <2>1. ownWork \in OwnWorks /\ (att.st = "revoked" => WorkOver) /\ (ownWork.st = "none" => ownWork.dl = "none")
    BY <1>1 DEF SessionTypeOK, SessionInv, ClosedInItsEra, NothingBefore
  <2>2. CASE \E k \in Callers : AssignOwnWork(k)
    <3>1. att.st = "active" /\ ownWork' = [st |-> "open", dl |-> "queued", bd |-> "none", gen |-> att.gen]
      BY <2>2, ActorActive DEF AssignOwnWork
    <3>2. att.gen \in 0 .. att.gen  BY <1>1, Numbers
    <3>. QED  BY <3>1, <3>2 DEF OwnWorks
  <2>3. CASE OwnWorkMoves
    <3>1. ownWork' \in OwnWorks  BY <2>1, <2>3, OwnWorkStep
    <3>. QED  BY <1>1, <2>1, <2>3, <3>1, OwnWorkStep DEF WorkOver
  <2>4. CASE ReceiptWritten  BY <2>1, <2>4 DEF ReceiptWritten, OwnWorks, WorkOver
  <2>. QED  BY <2>2, <2>3, <2>4
<1>4. SessionTypeOK'
  BY <1>1, <1>2, <1>3, Grow, Numbers DEF SessionTypeOK, Attachments
<1>5. ConnsNumbered' /\ TicketsNumbered' /\ ConnectionsCurrent' /\ WakeHoldsRuntime'  BY <1>1, SameTables
<1>6. ClosedInItsEra' /\ NothingBefore'
  BY <1>1, <1>3 DEF SessionInv, ClosedInItsEra, NothingBefore
<1>. QED  BY <1>4, <1>5, <1>6 DEF SessionInv

------------------------------------------------------------------------------
(* CaoSession: wakes and leases.                                             *)

\* An operation on the tickets and the runtime of an attachment that is and stays active.
LEMMA WakeStep ==
    ASSUME SessionInv, UNCHANGED <<catalog, peers, cabs, conns, cscs, caller, ownWork, closes>>,
           att.st = "active", att' \in Attachments, att'.st = "active", att'.gen = att.gen,
           tickets' \in [1 .. MaxWakes -> Tickets], TicketsNumbered', WakeHoldsRuntime'
    PROVE  SessionInv'
<1>1. SessionTypeOK'
  BY Grow, Numbers DEF SessionInv, SessionTypeOK, Attachments
<1>2. ConnsNumbered' /\ ConnectionsCurrent'  BY ConnsStay, SameConnections DEF SessionInv
<1>3. ClosedInItsEra' /\ NothingBefore'  BY DEF SessionInv, ClosedInItsEra, NothingBefore
<1>. QED  BY <1>1, <1>2, <1>3 DEF SessionInv

\* issue_cao_runtime_launch_ticket: the runtime is free, so no earlier wake holds it.
LEMMA TicketPreserves == ASSUME SessionInv, IssueTicket PROVE SessionInv'
<1>0. SessionTypeOK /\ TicketsNumbered /\ WakeHoldsRuntime  BY DEF SessionInv
<1> DEFINE r == [ticket |-> "pending", crc |-> "none", gen |-> att.gen, lease |-> TRUE]
<1>1. PICK n \in 1 .. MaxWakes : /\ NextRow(tickets, NoTicket) = n /\ tickets[n].ticket = "none"
                                 /\ \A i \in 1 .. MaxWakes : tickets[i].ticket = "none" <=> n <= i
  BY <1>0, NextTicket DEF IssueTicket
<1>2. /\ att.st = "active" /\ att' = [att EXCEPT !.rt = "busy"] /\ att.rt \in {"ready", "waiting"}
      /\ tickets' = [tickets EXCEPT ![n] = r]
  BY <1>1 DEF IssueTicket
<1>3. att' \in Attachments /\ att'.st = "active" /\ att'.gen = att.gen /\ att'.rt = "busy"
  BY <1>0, <1>2 DEF SessionTypeOK, Attachments
<1>4. r \in Tickets /\ r.ticket = "pending" /\ r.crc = "none" /\ r.gen = att.gen
  <2>1. att.gen \in 0 .. att.gen  BY <1>0, Numbers
  <2>. QED  BY <2>1 DEF Tickets
<1>. HIDE DEF r
<1>5. tickets' \in [1 .. MaxWakes -> Tickets]  BY <1>0, <1>2, <1>4 DEF SessionTypeOK
<1>6. tickets'[n] = r /\ \A t \in 1 .. MaxWakes : t # n => tickets'[t] = tickets[t]
  BY <1>0, <1>2 DEF SessionTypeOK
<1>7. n \in Int /\ \A i \in 1 .. MaxWakes : i \in Int  OBVIOUS
<1>8. \A t \in 1 .. MaxWakes : tickets'[t].ticket = "none" <=> n < t
  BY <1>1, <1>4, <1>6, <1>7
<1>9. TicketsNumbered'
  <2>1. n \in 0 .. MaxWakes  OBVIOUS
  <2>2. \A t \in 1 .. MaxWakes : tickets'[t].ticket = "none" => tickets'[t] = NoTicket
    BY <1>0, <1>4, <1>6 DEF TicketsNumbered
  <2>. QED  BY <2>1, <2>2, <1>8 DEF TicketsNumbered
<1>10. \A t \in 1 .. MaxWakes : ~Holds(t)  BY <1>0, <1>2 DEF WakeHoldsRuntime
<1>11. \A u \in 1 .. MaxWakes : tickets'[u].ticket # "none" => u <= n  BY <1>7, <1>8
<1>12. WakeHoldsRuntime'
  <2> SUFFICES ASSUME NEW t \in 1 .. MaxWakes
      PROVE /\ tickets'[t].ticket = "pending" => tickets'[t].crc = "none"
            /\ tickets'[t].crc = "active" => tickets'[t].ticket = "consumed"
            /\ Holds(t)' => /\ att'.st = "active" /\ att'.rt = "busy" /\ tickets'[t].gen = att'.gen
                            /\ \A u \in 1 .. MaxWakes : tickets'[u].ticket # "none" => u <= t
    BY DEF WakeHoldsRuntime
  <2>1. CASE t = n  BY <2>1, <1>3, <1>4, <1>6, <1>11 DEF Holds
  <2>2. CASE t # n  BY <2>2, <1>6, <1>10 DEF Holds
  <2>. QED  BY <2>1, <2>2
<1>. QED  BY <1>2, <1>3, <1>5, <1>9, <1>12, WakeStep DEF IssueTicket

\* A step that changes one or more inserted rows, and leaves no wake under way.
LEMMA WakeEnds ==
    ASSUME SessionInv, UNCHANGED <<catalog, peers, cabs, conns, cscs, caller, ownWork, closes>>,
           att.st = "active", att' \in Attachments, att'.st = "active", att'.gen = att.gen,
           tickets' \in [1 .. MaxWakes -> Tickets],
           \A t \in 1 .. MaxWakes : \/ tickets'[t] = tickets[t]
                                    \/ tickets[t].ticket # "none" /\ tickets'[t].ticket # "none",
           \A t \in 1 .. MaxWakes : tickets'[t].ticket # "pending" /\ tickets'[t].crc # "active"
    PROVE  SessionInv'
BY TicketsStay, WakesOver, WakeStep DEF SessionInv

\* revoke_cao_runtime_launch_ticket: the runtime goes back with the only wake that holds it.
LEMMA RevokePreserves ==
    ASSUME SessionInv, NEW t \in 1 .. MaxWakes, RevokeTicket(t) PROVE SessionInv'
<1>0. SessionTypeOK /\ WakeHoldsRuntime  BY DEF SessionInv
<1>1. /\ tickets[t].ticket = "pending" /\ tickets[t].crc = "none" /\ Holds(t) /\ att.st = "active"
      /\ tickets[t] \in Tickets
  BY <1>0 DEF RevokeTicket, Pending, Holds, WakeHoldsRuntime, SessionTypeOK
<1>2. att' \in Attachments /\ att'.st = "active" /\ att'.gen = att.gen
  BY <1>0, <1>1 DEF SessionTypeOK, Attachments, RevokeTicket
<1>3. /\ tickets'[t].ticket = "revoked" /\ tickets'[t].crc = "none" /\ tickets'[t] \in Tickets
      /\ \A u \in 1 .. MaxWakes : u # t => tickets'[u] = tickets[u]
      /\ tickets' = [u \in 1 .. MaxWakes |-> tickets'[u]]
  BY <1>0, <1>1 DEF RevokeTicket, SessionTypeOK, Tickets
<1>4. tickets' \in [1 .. MaxWakes -> Tickets]  BY <1>0, <1>3 DEF SessionTypeOK
<1>5. \A u \in 1 .. MaxWakes : u # t => ~Holds(u)  BY <1>0, <1>1, OneHolder
<1>6. \A u \in 1 .. MaxWakes : tickets'[u].ticket # "pending" /\ tickets'[u].crc # "active"
  BY <1>3, <1>5 DEF Holds
<1>7. \A u \in 1 .. MaxWakes : \/ tickets'[u] = tickets[u]
                               \/ tickets[u].ticket # "none" /\ tickets'[u].ticket # "none"
  BY <1>1, <1>3
<1>. QED  BY <1>1, <1>2, <1>4, <1>6, <1>7, WakeEnds DEF RevokeTicket

\* exchange_cao_runtime_launch_ticket: the wake goes on as its credential.
LEMMA ExchangePreserves ==
    ASSUME SessionInv, NEW t \in 1 .. MaxWakes, ExchangeTicket(t) PROVE SessionInv'
<1>0. SessionTypeOK /\ WakeHoldsRuntime /\ TicketsNumbered /\ att' = att
  BY DEF SessionInv, ExchangeTicket
<1>1. tickets[t].ticket = "pending" /\ Holds(t) /\ tickets[t] \in Tickets
  BY <1>0 DEF ExchangeTicket, Pending, Holds, SessionTypeOK
<1>2. \A u \in 1 .. MaxWakes : u # t => ~Holds(u)  BY <1>0, <1>1, OneHolder
<1>3. /\ tickets'[t].ticket = "consumed" /\ tickets'[t].crc = "active" /\ tickets'[t].gen = tickets[t].gen
      /\ tickets'[t] \in Tickets
      /\ \A u \in 1 .. MaxWakes : u # t => tickets'[u] = tickets[u]
      /\ tickets' = [u \in 1 .. MaxWakes |-> tickets'[u]]
  BY <1>1, <1>2 DEF ExchangeTicket, Tickets, Holds
<1>4. tickets' \in [1 .. MaxWakes -> Tickets]  BY <1>0, <1>3 DEF SessionTypeOK
<1>5. TicketsNumbered'
  <2>1. \A u \in 1 .. MaxWakes : \/ tickets'[u] = tickets[u]
                                 \/ tickets[u].ticket # "none" /\ tickets'[u].ticket # "none"
    BY <1>1, <1>3
  <2>. QED  BY <2>1, <1>0, TicketsStay
<1>6. /\ att.st = "active" /\ att.rt = "busy" /\ tickets[t].gen = att.gen
      /\ \A u \in 1 .. MaxWakes : tickets'[u].ticket # "none" => u <= t
  BY <1>0, <1>1, <1>3 DEF WakeHoldsRuntime
<1>7. WakeHoldsRuntime'
  <2> SUFFICES ASSUME NEW x \in 1 .. MaxWakes
      PROVE /\ tickets'[x].ticket = "pending" => tickets'[x].crc = "none"
            /\ tickets'[x].crc = "active" => tickets'[x].ticket = "consumed"
            /\ Holds(x)' => /\ att'.st = "active" /\ att'.rt = "busy" /\ tickets'[x].gen = att'.gen
                            /\ \A u \in 1 .. MaxWakes : tickets'[u].ticket # "none" => u <= x
    BY DEF WakeHoldsRuntime
  <2>1. CASE x = t  BY <2>1, <1>0, <1>3, <1>6
  <2>2. CASE x # t  BY <2>2, <1>2, <1>3 DEF Holds
  <2>. QED  BY <2>1, <2>2
<1>8. att' \in Attachments  BY <1>0 DEF SessionTypeOK
<1>. QED  BY <1>0, <1>4, <1>5, <1>6, <1>7, <1>8, WakeStep DEF ExchangeTicket

\* The turn is recorded: the wake that could still act has lost its credential.
LEMMA SucceedPreserves == ASSUME SessionInv, WakeSucceeds PROVE SessionInv'
<1>0. SessionTypeOK /\ WakeHoldsRuntime  BY DEF SessionInv
<1>1. PICK t \in 1 .. MaxWakes : CrcUsable(t)  BY DEF WakeSucceeds
<1>2. Holds(t) /\ tickets[t].crc = "active" /\ tickets[t].gen = att.gen /\ att.st = "active"
  BY <1>1 DEF CrcUsable, Holds
<1>3. \A u \in 1 .. MaxWakes : u # t => ~Holds(u)  BY <1>0, <1>2, OneHolder
<1>4. att' \in Attachments /\ att'.st = "active" /\ att'.gen = att.gen
  BY <1>0, <1>2 DEF SessionTypeOK, Attachments, WakeSucceeds
<1>5. ASSUME NEW u \in 1 .. MaxWakes
      PROVE  /\ tickets'[u] \in Tickets
             /\ tickets'[u].ticket # "pending" /\ tickets'[u].crc # "active"
             /\ \/ tickets'[u] = tickets[u]
                \/ tickets[u].ticket # "none" /\ tickets'[u].ticket # "none"
  <2>1. tickets[u] \in Tickets  BY <1>0 DEF SessionTypeOK
  <2>2. CASE u = t
    <3>1. tickets[t].ticket = "consumed"  BY <1>0, <1>2 DEF WakeHoldsRuntime
    <3>. QED  BY <2>1, <2>2, <3>1, <1>2 DEF WakeSucceeds, Tickets
  <2>3. CASE u # t
    <3>1. tickets[u].ticket # "pending" /\ tickets[u].crc # "active"  BY <2>3, <1>3 DEF Holds
    <3>. QED  BY <2>1, <3>1 DEF WakeSucceeds
  <2>. QED  BY <2>2, <2>3
<1>6. tickets' \in [1 .. MaxWakes -> Tickets]  BY <1>5 DEF WakeSucceeds
<1>. QED  BY <1>2, <1>4, <1>5, <1>6, WakeEnds DEF WakeSucceeds

\* fail_cao_session_attachment.
LEMMA FailPreserves == ASSUME SessionInv, WakeFails PROVE SessionInv'
<1>0. SessionTypeOK /\ TicketsNumbered /\ att.st = "active"  BY DEF SessionInv, WakeFails
<1>1. att' \in Attachments /\ att'.st = "active" /\ att'.gen = att.gen
  BY <1>0 DEF SessionTypeOK, Attachments, WakeFails
<1>2. tickets' \in [1 .. MaxWakes -> Tickets] /\ TicketsNumbered' /\ WakeHoldsRuntime'
  BY <1>0, Stopped DEF WakeFails
<1>. QED  BY <1>0, <1>1, <1>2, WakeStep DEF WakeFails

\* A lease that runs out changes no state by itself.
LEMMA LapsePreserves == ASSUME SessionInv, LeaseLapses PROVE SessionInv'
<1>0. /\ SessionTypeOK /\ TicketsNumbered /\ ConnsNumbered /\ WakeHoldsRuntime /\ ConnectionsCurrent
      /\ UNCHANGED <<catalog, peers, cabs, cscs, caller, ownWork, closes>>
  BY DEF SessionInv, LeaseLapses
<1>1. att' \in Attachments /\ att'.st = att.st /\ att'.gen = att.gen /\ att'.rt = att.rt
  BY <1>0 DEF LeaseLapses, SessionTypeOK, Attachments
<1>2. /\ conns' \in [1 .. MaxConns -> Conns]
      /\ \A n \in 1 .. MaxConns : /\ conns'[n].st = conns[n].st /\ conns'[n].cat = conns[n].cat
                                  /\ conns[n].st = "none" => conns'[n] = conns[n]
  <2>1. CASE UNCHANGED conns  BY <2>1, <1>0 DEF SessionTypeOK
  <2>2. CASE \E n \in 1 .. MaxConns : LiveConn(n) /\ conns' = [conns EXCEPT ![n].lease = FALSE]
    <3>1. PICK n \in 1 .. MaxConns : LiveConn(n) /\ conns' = [conns EXCEPT ![n].lease = FALSE]  BY <2>2
    <3>2. conns[n] \in Conns /\ conns[n].st = "active"  BY <1>0, <3>1 DEF SessionTypeOK, LiveConn
    <3>. QED  BY <1>0, <3>1, <3>2 DEF SessionTypeOK, Conns
  <2>. QED  BY <2>1, <2>2 DEF LeaseLapses
<1>3. /\ tickets' \in [1 .. MaxWakes -> Tickets]
      /\ \A t \in 1 .. MaxWakes :
            /\ tickets'[t].ticket = tickets[t].ticket /\ tickets'[t].crc = tickets[t].crc
            /\ tickets'[t].gen = tickets[t].gen
            /\ tickets[t].ticket = "none" => tickets'[t] = tickets[t]
  <2>1. CASE UNCHANGED tickets  BY <2>1, <1>0 DEF SessionTypeOK
  <2>2. CASE \E t \in Pending : tickets' = [tickets EXCEPT ![t].lease = FALSE]
    <3>1. PICK t \in 1 .. MaxWakes : tickets[t].ticket = "pending" /\ tickets' = [tickets EXCEPT ![t].lease = FALSE]
      BY <2>2 DEF Pending
    <3>2. tickets[t] \in Tickets  BY <1>0, <3>1 DEF SessionTypeOK
    <3>. QED  BY <1>0, <3>1, <3>2 DEF SessionTypeOK, Tickets
  <2>. QED  BY <2>1, <2>2 DEF LeaseLapses
<1>4. SessionTypeOK'
  BY <1>0, <1>1, <1>2, <1>3, Grow, Numbers DEF SessionTypeOK, Attachments
<1>5. ConnsNumbered' /\ TicketsNumbered'
  <2>1. \A n \in 1 .. MaxConns : \/ conns'[n] = conns[n]
                                 \/ conns[n].st # "none" /\ conns'[n].st # "none"
    BY <1>2
  <2>2. \A t \in 1 .. MaxWakes : \/ tickets'[t] = tickets[t]
                                 \/ tickets[t].ticket # "none" /\ tickets'[t].ticket # "none"
    BY <1>3
  <2>. QED  BY <2>1, <2>2, <1>0, ConnsStay, TicketsStay
<1>6. ConnectionsCurrent'  BY <1>0, <1>1, <1>2 DEF ConnectionsCurrent
<1>7. WakeHoldsRuntime'  BY <1>0, <1>1, <1>3 DEF WakeHoldsRuntime, Holds
<1>8. ClosedInItsEra' /\ NothingBefore'
  BY <1>0, <1>1 DEF SessionInv, ClosedInItsEra, NothingBefore, WorkOver
<1>. QED  BY <1>4, <1>5, <1>6, <1>7, <1>8 DEF SessionInv

------------------------------------------------------------------------------
(* CaoSession: connections.                                                  *)

\* Connections K that go, with their credentials.
LEMMA Dropped ==
    ASSUME SessionTypeOK, ConnsNumbered, ConnectionsCurrent,
           NEW K, K \subseteq {n \in 1 .. MaxConns : conns[n].st = "active"},
           NEW s \in {"stale", "revoked", "expired"}, NEW r \in {"revoked", "expired"},
           conns' = [n \in 1 .. MaxConns |-> IF n \in K THEN [conns[n] EXCEPT !.st = s] ELSE conns[n]],
           cscs' = [c \in 1 .. MaxCscs |-> IF LiveCsc(c) /\ cscs[c].conn \in K
                                           THEN [cscs[c] EXCEPT !.st = r] ELSE cscs[c]]
    PROVE  /\ conns' \in [1 .. MaxConns -> Conns] /\ cscs' \in [1 .. MaxCscs -> Cscs] /\ ConnsNumbered'
           /\ \A n \in 1 .. MaxConns : conns'[n].st = "active" => n \notin K /\ conns'[n] = conns[n]
           /\ \A c \in 1 .. MaxCscs : cscs'[c].st = "active" =>
                 cscs'[c].conn \in 1 .. MaxConns /\ conns'[cscs'[c].conn].st = "active"
<1>1. \A n \in 1 .. MaxConns : conns[n] \in Conns  BY DEF SessionTypeOK
<1>2. \A c \in 1 .. MaxCscs : cscs[c] \in Cscs  BY DEF SessionTypeOK
<1>3. \A n \in 1 .. MaxConns :
         IF n \in K THEN conns'[n] \in Conns /\ conns'[n].st = s ELSE conns'[n] = conns[n]
  BY <1>1 DEF Conns
<1>4. \A c \in 1 .. MaxCscs :
         IF LiveCsc(c) /\ cscs[c].conn \in K THEN cscs'[c] \in Cscs /\ cscs'[c].st = r ELSE cscs'[c] = cscs[c]
  BY <1>2 DEF Cscs
<1>5. conns' \in [1 .. MaxConns -> Conns]  BY <1>1, <1>3
<1>6. cscs' \in [1 .. MaxCscs -> Cscs]  BY <1>2, <1>4
<1>7. ConnsNumbered'
  <2>1. \A n \in 1 .. MaxConns : \/ conns'[n] = conns[n]
                                 \/ conns[n].st # "none" /\ conns'[n].st # "none"
    BY <1>3
  <2>. QED  BY <2>1, ConnsStay
<1>8. \A n \in 1 .. MaxConns : conns'[n].st = "active" => n \notin K /\ conns'[n] = conns[n]  BY <1>3
<1>9. ASSUME NEW c \in 1 .. MaxCscs, cscs'[c].st = "active"
      PROVE  cscs'[c].conn \in 1 .. MaxConns /\ conns'[cscs'[c].conn].st = "active"
  <2>1. cscs'[c] = cscs[c] /\ LiveCsc(c) /\ cscs[c].conn \notin K  BY <1>4, <1>9 DEF LiveCsc
  <2>2. cscs[c].conn \in 1 .. MaxConns /\ conns[cscs[c].conn].st = "active"
    BY <2>1 DEF LiveCsc, ConnectionsCurrent
  <2>. QED  BY <2>1, <2>2, <1>3
<1>. QED  BY <1>5, <1>6, <1>7, <1>8, <1>9

\* reconcile_conversation_tool_catalog: what stays active loaded the new catalog.
LEMMA RolloverPreserves == ASSUME SessionInv, Rollover PROVE SessionInv'
<1>0. SessionTypeOK /\ ConnsNumbered /\ ConnectionsCurrent  BY DEF SessionInv
<1>1. PICK new \in (1 .. MaxCatalog) \ {catalog}, K \in SUBSET (1 .. MaxConns) :
         /\ K = {n \in 1 .. MaxConns : conns[n].st = "active" /\ conns[n].cat # new} /\ catalog' = new
         /\ conns' = [n \in 1 .. MaxConns |-> IF n \in K THEN [conns[n] EXCEPT !.st = "stale"] ELSE conns[n]]
         /\ cscs' = [c \in 1 .. MaxCscs |-> IF LiveCsc(c) /\ cscs[c].conn \in K
                                            THEN [cscs[c] EXCEPT !.st = "revoked"] ELSE cscs[c]]
         /\ UNCHANGED <<peers, att, cabs, tickets, caller, ownWork, closes>>
  BY DEF Rollover
<1>2. /\ conns' \in [1 .. MaxConns -> Conns] /\ cscs' \in [1 .. MaxCscs -> Cscs] /\ ConnsNumbered'
      /\ \A n \in 1 .. MaxConns : conns'[n].st = "active" => n \notin K /\ conns'[n] = conns[n]
      /\ \A c \in 1 .. MaxCscs : cscs'[c].st = "active" =>
            cscs'[c].conn \in 1 .. MaxConns /\ conns'[cscs'[c].conn].st = "active"
  BY <1>0, <1>1, Dropped
<1>3. ConnectionsCurrent'  BY <1>0, <1>1, <1>2 DEF ConnectionsCurrent
<1>4. SessionTypeOK'
  BY <1>0, <1>1, <1>2, Grow, Numbers DEF SessionTypeOK, Attachments
<1>5. TicketsNumbered' /\ WakeHoldsRuntime'  BY <1>1, TicketsStay, SameWakes DEF SessionInv
<1>6. ClosedInItsEra' /\ NothingBefore'
  BY <1>1 DEF SessionInv, ClosedInItsEra, NothingBefore, WorkOver
<1>. QED  BY <1>2, <1>3, <1>4, <1>5, <1>6 DEF SessionInv

\* expire_runtime_leases: a lapsed runtime goes with its wake.
LEMMA ExpirePreserves == ASSUME SessionInv, ExpireLeases PROVE SessionInv'
<1>0. /\ SessionTypeOK /\ ConnsNumbered /\ ConnectionsCurrent /\ TicketsNumbered /\ WakeHoldsRuntime
      /\ UNCHANGED <<catalog, peers, cabs, caller, ownWork, closes>>
  BY DEF SessionInv, ExpireLeases
<1>1. /\ conns' \in [1 .. MaxConns -> Conns] /\ cscs' \in [1 .. MaxCscs -> Cscs] /\ ConnsNumbered'
      /\ \A n \in 1 .. MaxConns : conns'[n].st = "active" => n \notin LapsedConns /\ conns'[n] = conns[n]
      /\ \A c \in 1 .. MaxCscs : cscs'[c].st = "active" =>
            cscs'[c].conn \in 1 .. MaxConns /\ conns'[cscs'[c].conn].st = "active"
  <2>1. LapsedConns \subseteq {n \in 1 .. MaxConns : conns[n].st = "active"}  BY DEF LapsedConns
  <2>2. /\ conns' = [n \in 1 .. MaxConns |-> IF n \in LapsedConns THEN [conns[n] EXCEPT !.st = "expired"]
                                             ELSE conns[n]]
        /\ cscs' = [c \in 1 .. MaxCscs |-> IF LiveCsc(c) /\ cscs[c].conn \in LapsedConns
                                           THEN [cscs[c] EXCEPT !.st = "expired"] ELSE cscs[c]]
    BY DEF ExpireLeases
  <2>. QED  BY <2>1, <2>2, <1>0, Dropped
<1>2. att' \in Attachments /\ att'.st = att.st /\ att'.gen = att.gen
  BY <1>0 DEF ExpireLeases, SessionTypeOK, Attachments
<1>3. tickets' \in [1 .. MaxWakes -> Tickets] /\ TicketsNumbered' /\ WakeHoldsRuntime'
  <2>1. CASE ~RuntimeLapsed
    <3>1. tickets' = tickets /\ att' = att  BY <2>1 DEF ExpireLeases
    <3>. QED  BY <3>1, <1>0, TicketsStay, SameWakes DEF SessionTypeOK
  <2>2. CASE RuntimeLapsed
    <3>1. ASSUME NEW t \in 1 .. MaxWakes
          PROVE  /\ tickets'[t] \in Tickets /\ tickets'[t].ticket # "pending" /\ tickets'[t].crc # "active"
                 /\ \/ tickets'[t] = tickets[t]
                    \/ tickets[t].ticket # "none" /\ tickets'[t].ticket # "none"
      <4>1. tickets[t] \in Tickets  BY <1>0 DEF SessionTypeOK
      <4>2. tickets'[t] = [tickets[t] EXCEPT !.crc = IF @ = "active" THEN "expired" ELSE @,
                                             !.ticket = IF @ = "pending" THEN "expired" ELSE @]
        BY <2>2 DEF ExpireLeases
      <4>3. /\ tickets'[t] \in Tickets /\ tickets'[t].ticket # "pending" /\ tickets'[t].crc # "active"
            /\ tickets[t].ticket # "none" => tickets'[t].ticket # "none"
        BY <4>1, <4>2 DEF Tickets
      <4>4. CASE tickets[t].ticket = "none"
        <5>1. tickets[t].crc = "none"
          <6>1. tickets[t] = NoTicket  BY <4>4, <1>0 DEF TicketsNumbered
          <6>. QED  BY <6>1 DEF NoTicket
        <5>2. tickets'[t] = tickets[t]
          <6>1. \A r \in Tickets : [r EXCEPT !.crc = r.crc, !.ticket = r.ticket] = r  BY DEF Tickets
          <6>. QED  BY <4>1, <4>2, <4>4, <5>1, <6>1
        <5>. QED  BY <4>3, <5>2
      <4>. QED  BY <4>3, <4>4
    <3>2. tickets' \in [1 .. MaxWakes -> Tickets]  BY <2>2, <3>1 DEF ExpireLeases
    <3>3. TicketsNumbered' /\ WakeHoldsRuntime'  BY <3>1, <1>0, TicketsStay, WakesOver
    <3>. QED  BY <3>2, <3>3
  <2>. QED  BY <2>1, <2>2
<1>4. SessionTypeOK'
  BY <1>0, <1>1, <1>2, <1>3, Grow, Numbers DEF SessionTypeOK, Attachments
<1>5. ConnectionsCurrent'  BY <1>0, <1>1, <1>2 DEF ConnectionsCurrent
<1>6. ClosedInItsEra' /\ NothingBefore'
  BY <1>0, <1>2 DEF SessionInv, ClosedInItsEra, NothingBefore, WorkOver
<1>. QED  BY <1>1, <1>3, <1>4, <1>5, <1>6 DEF SessionInv

\* close_cao_conversation: the Work is over, and what was issued before the close is older than it.
LEMMA ClosePreserves ==
    ASSUME SessionInv, NEW k \in Callers, CloseConversation(k) PROVE SessionInv'
<1>0. /\ SessionTypeOK /\ ConnsNumbered /\ ConnectionsCurrent /\ TicketsNumbered
      /\ UNCHANGED <<catalog, peers>> /\ closes' = closes + 1 /\ closes < MaxCabs
  BY DEF SessionInv, CloseConversation
<1>1. /\ closes \in Nat /\ att.gen \in Nat /\ att.gen < closes' /\ closes' \in 0 .. MaxCabs
      /\ closes <= closes' /\ MaxCabs \in Nat
  BY <1>0, Numbers
<1>2. att' \in Attachments' /\ att'.st = "revoked" /\ att'.gen = att.gen
  <2>1. att \in Attachments /\ att' = [att EXCEPT !.st = "revoked", !.rt = "stopped"]
    BY <1>0 DEF SessionTypeOK, CloseConversation
  <2>2. 0 .. closes \subseteq 0 .. closes'  BY <1>1
  <2>. QED  BY <2>1, <2>2 DEF Attachments
<1>3. tickets' \in [1 .. MaxWakes -> Tickets] /\ TicketsNumbered' /\ WakeHoldsRuntime'
  BY <1>0, Stopped DEF CloseConversation
<1>4. /\ conns' \in [1 .. MaxConns -> Conns] /\ ConnsNumbered'
      /\ \A n \in 1 .. MaxConns : conns'[n].st # "active"
  <2>1. \A n \in 1 .. MaxConns : conns[n] \in Conns  BY <1>0 DEF SessionTypeOK
  <2>2. \A n \in 1 .. MaxConns :
           conns'[n] = IF conns[n].st = "active" THEN [conns[n] EXCEPT !.st = "revoked"] ELSE conns[n]
    BY DEF CloseConversation
  <2>3. \A n \in 1 .. MaxConns :
           /\ conns'[n] \in Conns /\ conns'[n].st # "active"
           /\ conns'[n] = conns[n] \/ (conns[n].st # "none" /\ conns'[n].st # "none")
    BY <2>1, <2>2 DEF Conns
  <2>4. conns' \in [1 .. MaxConns -> Conns]  BY <2>3 DEF CloseConversation
  <2>. QED  BY <2>3, <2>4, <1>0, ConnsStay
<1>5. cscs' \in [1 .. MaxCscs -> Cscs] /\ \A c \in 1 .. MaxCscs : cscs'[c].st # "active"
  <2>1. \A c \in 1 .. MaxCscs : cscs[c] \in Cscs  BY <1>0 DEF SessionTypeOK
  <2>2. \A c \in 1 .. MaxCscs :
           cscs'[c] = IF cscs[c].st = "active" THEN [cscs[c] EXCEPT !.st = "revoked"] ELSE cscs[c]
    BY DEF CloseConversation, LiveCsc
  <2>3. \A c \in 1 .. MaxCscs : cscs'[c] \in Cscs /\ cscs'[c].st # "active"  BY <2>1, <2>2 DEF Cscs
  <2>. QED  BY <2>3 DEF CloseConversation
<1>6. /\ cabs' \in [1 .. MaxCabs -> Cabs]
      /\ \A b \in 1 .. MaxCabs : ~(cabs'[b].st = "active" /\ cabs'[b].seen = att.gen)
  <2>1. \A b \in 1 .. MaxCabs : cabs[b] \in Cabs  BY <1>0 DEF SessionTypeOK
  <2>2. \A b \in 1 .. MaxCabs :
           cabs'[b] = IF cabs[b].st = "active" /\ cabs[b].seen = att.gen
                      THEN [cabs[b] EXCEPT !.st = "revoked"] ELSE cabs[b]
    BY DEF CloseConversation, CabsClosed
  <2>3. \A b \in 1 .. MaxCabs : /\ cabs'[b] \in Cabs
                                /\ ~(cabs'[b].st = "active" /\ cabs'[b].seen = att.gen)
    BY <2>1, <2>2 DEF Cabs
  <2>. QED  BY <2>3 DEF CloseConversation, CabsClosed
<1>7. ownWork' \in OwnWorks /\ WorkOver' /\ (ownWork'.st = "none" => ownWork'.dl = "none")
  <2>1. ownWork \in OwnWorks /\ (ownWork.st = "none" => ownWork.dl = "none")
    BY <1>0 DEF SessionTypeOK, SessionInv, NothingBefore
  <2>2. ownWork' = OwnWorkCanceled /\ ~(ownWork.dl = "dispatched" /\ ownWork.st # "none")
    BY DEF CloseConversation, CloseBlocked, UncertainOutcome
  <2>. QED  BY <2>1, <2>2 DEF OwnWorkCanceled, OwnWorks, WorkOver
<1>8. caller' \in [Callers -> Bearers]
  <2>1. Idle \in Bearers  BY DEF Bearers, Idle
  <2>. QED  BY <2>1, <1>0 DEF CloseConversation, SessionTypeOK
<1>9. SessionTypeOK'
  <2>1. /\ Cabs \subseteq Cabs' /\ Conns \subseteq Conns' /\ Cscs \subseteq Cscs'
        /\ Tickets \subseteq Tickets' /\ OwnWorks \subseteq OwnWorks'
    BY <1>0, <1>1, <1>2, Grow
  <2>. QED  BY <2>1, <1>0, <1>1, <1>2, <1>3, <1>4, <1>5, <1>6, <1>7, <1>8 DEF SessionTypeOK
<1>10. ConnectionsCurrent'  BY <1>4, <1>5 DEF ConnectionsCurrent
<1>11. ClosedInItsEra' /\ NothingBefore'  BY <1>1, <1>2, <1>6, <1>7 DEF ClosedInItsEra, NothingBefore
<1>. QED  BY <1>3, <1>4, <1>9, <1>10, <1>11 DEF SessionInv

\* The attachment after an attach: active, of the same generation or of the next one.
LEMMA AttachedRow ==
    ASSUME SessionInv
    PROVE  /\ Attached \in Attachments /\ Attached.st = "active"
           /\ Attached.gen \in Nat /\ att.gen <= Attached.gen
<1>0. SessionTypeOK /\ att \in Attachments /\ att.gen \in Nat /\ closes \in Nat /\ att.gen <= closes
  BY Numbers DEF SessionInv
<1>1. CASE att.st = "none"
  <2>1. att.gen = 0 /\ 0 \in 0 .. closes  BY <1>0, <1>1 DEF SessionInv, NothingBefore
  <2>2. Attached = [st |-> "active", gen |-> 0, rt |-> "ready", lease |-> TRUE, bound |-> TRUE]
    BY <1>1 DEF Attached
  <2>. QED  BY <2>1, <2>2 DEF Attachments
<1>2. CASE att.st = "revoked"
  <2>1. att.gen < closes /\ att.gen + 1 \in 0 .. closes
    BY <1>0, <1>2 DEF SessionInv, ClosedInItsEra
  <2>2. Attached = [att EXCEPT !.st = "active", !.gen = @ + 1, !.rt = "ready", !.lease = TRUE]
    BY <1>2 DEF Attached
  <2>3. Attached \in Attachments /\ Attached.st = "active" /\ Attached.gen = att.gen + 1
    BY <2>1, <2>2, <1>0 DEF Attachments
  <2>. QED  BY <2>3, <1>0
<1>3. CASE att.st = "active"
  <2>1. Attached = IF RouteLost THEN [att EXCEPT !.rt = "ready", !.lease = TRUE] ELSE att
    BY <1>3 DEF Attached
  <2>2. Attached \in Attachments /\ Attached.st = "active" /\ Attached.gen = att.gen
    <3>1. CASE RouteLost  BY <3>1, <2>1, <1>0, <1>3 DEF Attachments
    <3>2. CASE ~RouteLost  BY <3>2, <2>1, <1>0, <1>3
    <3>. QED  BY <3>1, <3>2
  <2>. QED  BY <2>2, <1>0
<1>. QED  BY <1>0, <1>1, <1>2, <1>3 DEF Attachments

\* The connection n that an attach renews or opens with the row r, and the credential for it.
Connects(n, r) ==
    /\ conns' = [conns EXCEPT ![n] = r] /\ IssueCsc(n)
    /\ r.st = "active" /\ r.cat = catalog /\ (conns[n].st = "none" \/ conns[n].st = "active")
    /\ \A i \in 1 .. MaxConns : conns[n].st = "none" => (conns[i].st = "none" <=> n <= i)

\* An attach renews a connection of its bridge, or opens the next one (Attach).
LEMMA AttachConnects ==
    ASSUME SessionInv, NEW b \in 1 .. MaxCabs, Attach(b)
    PROVE  \E n \in 1 .. MaxConns : \E r \in Conns' : Connects(n, r)
<1>0. /\ SessionTypeOK /\ ConnsNumbered /\ ConnectionsCurrent /\ cabs[b].cat = catalog
      /\ cabs[b] \in Cabs /\ att' = Attached /\ UNCHANGED <<catalog, closes>>
  BY DEF SessionInv, Attach, BootstrapAdmitted, SessionTypeOK
<1>1. Attached.gen \in Nat /\ att.gen <= Attached.gen /\ att'.gen = Attached.gen /\ Conns \subseteq Conns'
  <2>1. Attached.gen \in Nat /\ att.gen <= Attached.gen /\ closes \in Nat  BY <1>0, AttachedRow, Numbers
  <2>. QED  BY <2>1, <1>0, Grow
<1>2. CASE \E n \in Renewable(b) : conns[n].cat = cabs[b].cat
                                   /\ conns' = [conns EXCEPT ![n].lease = TRUE] /\ IssueCsc(n)
  <2>1. PICK n \in Renewable(b) : conns' = [conns EXCEPT ![n].lease = TRUE] /\ IssueCsc(n)  BY <1>2
  <2>2. n \in 1 .. MaxConns /\ conns[n].st = "active" /\ conns[n] \in Conns
    BY <1>0, <2>1 DEF Renewable, SessionTypeOK
  <2> DEFINE r == [conns[n] EXCEPT !.lease = TRUE]
  <2>3. r \in Conns /\ r.st = "active" /\ r.cat = conns[n].cat  BY <2>2 DEF Conns
  <2>4. conns[n].cat = catalog  BY <1>0, <2>2 DEF ConnectionsCurrent
  <2>5. conns' = [conns EXCEPT ![n] = r]  BY <2>1
  <2>. HIDE DEF r
  <2>6. Connects(n, r)  BY <2>1, <2>2, <2>3, <2>4, <2>5 DEF Connects
  <2>. QED  BY <1>1, <2>2, <2>3, <2>6
<1>3. CASE /\ Fresh(conns, NoConn) # {}
           /\ conns' = [conns EXCEPT ![NextRow(conns, NoConn)] =
                         [st |-> "active", peer |-> cabs[b].peer, gen |-> Attached.gen,
                          cat |-> cabs[b].cat, lease |-> TRUE]]
           /\ IssueCsc(NextRow(conns, NoConn))
  <2> DEFINE r == [st |-> "active", peer |-> cabs[b].peer, gen |-> Attached.gen,
                   cat |-> cabs[b].cat, lease |-> TRUE]
  <2>1. PICK n \in 1 .. MaxConns : /\ NextRow(conns, NoConn) = n /\ conns[n].st = "none"
                                   /\ \A i \in 1 .. MaxConns : conns[i].st = "none" <=> n <= i
    BY <1>0, <1>3, NextConn
  <2>2. r \in Conns'
    <3>1. cabs[b].peer \in Peer /\ cabs[b].cat \in Catalogs  BY <1>0 DEF Cabs
    <3>2. Attached.gen \in 0 .. att'.gen  BY <1>1
    <3>. QED  BY <3>1, <3>2 DEF Conns
  <2>3. r.st = "active" /\ r.cat = catalog  BY <1>0
  <2>. HIDE DEF r
  <2>4. conns' = [conns EXCEPT ![n] = r] /\ IssueCsc(n)  BY <1>3, <2>1 DEF r
  <2>5. Connects(n, r)  BY <2>1, <2>3, <2>4 DEF Connects
  <2>. QED  BY <2>2, <2>5
<1>. QED  BY <1>2, <1>3 DEF Attach

\* _attach_cao_session_from_bootstrap.
LEMMA AttachPreserves ==
    ASSUME SessionInv, NEW b \in 1 .. MaxCabs, Attach(b) PROVE SessionInv'
<1>0. /\ SessionTypeOK /\ ConnsNumbered /\ ConnectionsCurrent /\ TicketsNumbered /\ WakeHoldsRuntime
      /\ UNCHANGED <<catalog, peers, caller, ownWork, closes>> /\ att' = Attached
  BY DEF SessionInv, Attach
<1>1. /\ att' \in Attachments /\ att'.st = "active" /\ att'.gen \in Nat /\ att.gen <= att'.gen
      /\ closes' = closes /\ closes \in Nat
  BY <1>0, AttachedRow, Numbers
<1>2. /\ Cabs \subseteq Cabs' /\ Conns \subseteq Conns' /\ Cscs \subseteq Cscs'
      /\ Tickets \subseteq Tickets' /\ OwnWorks \subseteq OwnWorks'
  BY <1>0, <1>1, Grow
<1>3. PICK n \in 1 .. MaxConns, r \in Conns' : Connects(n, r)  BY AttachConnects
<1>4. /\ conns' \in [1 .. MaxConns -> Conns'] /\ conns'[n] = r /\ r.st = "active" /\ r.cat = catalog
      /\ \A i \in 1 .. MaxConns : i # n => conns'[i] = conns[i]
  BY <1>0, <1>2, <1>3 DEF Connects, SessionTypeOK
<1>5. ConnsNumbered'
  <2>1. CASE conns[n].st = "active"
    <3>1. \A i \in 1 .. MaxConns : \/ conns'[i] = conns[i]
                                   \/ conns[i].st # "none" /\ conns'[i].st # "none"
      BY <2>1, <1>4
    <3>. QED  BY <3>1, <1>0, ConnsStay
  <2>2. CASE conns[n].st = "none"
    <3>1. \A i \in 1 .. MaxConns : conns[i].st = "none" <=> n <= i  BY <2>2, <1>3 DEF Connects
    <3>2. \A i \in 1 .. MaxConns : conns'[i].st = "none" <=> n < i  BY <3>1, <1>4
    <3>3. n \in 0 .. MaxConns  OBVIOUS
    <3>4. \A i \in 1 .. MaxConns : conns'[i].st = "none" => conns'[i] = NoConn
      BY <1>0, <1>4 DEF ConnsNumbered
    <3>. QED  BY <3>2, <3>3, <3>4 DEF ConnsNumbered
  <2>. QED  BY <2>1, <2>2, <1>3 DEF Connects
<1>6. /\ cscs' \in [1 .. MaxCscs -> Cscs']
      /\ \A c \in 1 .. MaxCscs : cscs'[c].st = "active" =>
            \/ cscs'[c].conn = n
            \/ cscs'[c] = cscs[c]
  <2>1. IssueCsc(n) /\ \A c \in 1 .. MaxCscs : cscs[c] \in Cscs /\ cscs[c] \in Cscs'
    BY <1>0, <1>2, <1>3 DEF Connects, SessionTypeOK
  <2>2. PICK x : x = [st |-> "active", conn |-> n, gen |-> Attached.gen]  OBVIOUS
  <2>3. x \in Cscs' /\ x.conn = n
    <3>1. Attached.gen \in 0 .. att'.gen /\ n \in 0 .. MaxConns  BY <1>0, <1>1
    <3>. QED  BY <3>1, <2>2 DEF Cscs
  <2>4. \A c \in 1 .. MaxCscs :
           cscs'[c] = IF c = NextRow(cscs, NoCsc) THEN x
                      ELSE IF cscs[c].st = "active" /\ cscs[c].conn = n THEN [cscs[c] EXCEPT !.st = "revoked"]
                      ELSE cscs[c]
    BY <2>1, <2>2 DEF IssueCsc, LiveCsc
  <2>5. \A c \in 1 .. MaxCscs : [cscs[c] EXCEPT !.st = "revoked"] \in Cscs'
                                /\ [cscs[c] EXCEPT !.st = "revoked"].st = "revoked"
    BY <2>1 DEF Cscs
  <2>6. \A c \in 1 .. MaxCscs : cscs'[c] \in Cscs'  BY <2>1, <2>3, <2>4, <2>5
  <2>7. cscs' \in [1 .. MaxCscs -> Cscs']  BY <2>1, <2>6 DEF IssueCsc
  <2>. QED  BY <2>3, <2>4, <2>5, <2>7
<1>7. ConnectionsCurrent'
  <2>1. \A i \in 1 .. MaxConns : conns'[i].st = "active" => conns'[i].cat = catalog'
    BY <1>0, <1>4 DEF ConnectionsCurrent
  <2>2. ASSUME NEW c \in 1 .. MaxCscs, cscs'[c].st = "active"
        PROVE  cscs'[c].conn \in 1 .. MaxConns /\ conns'[cscs'[c].conn].st = "active"
    <3>1. CASE cscs'[c].conn = n  BY <3>1, <1>4
    <3>2. CASE cscs'[c] = cscs[c]
      <4>1. cscs[c].conn \in 1 .. MaxConns /\ conns[cscs[c].conn].st = "active"
        BY <3>2, <2>2, <1>0 DEF ConnectionsCurrent
      <4>. QED  BY <4>1, <3>2, <1>4
    <3>. QED  BY <3>1, <3>2, <2>2, <1>6
  <2>. QED  BY <2>1, <2>2, <1>1 DEF ConnectionsCurrent
<1>8. cabs' \in [1 .. MaxCabs -> Cabs]
  <2>1. \A d \in 1 .. MaxCabs : cabs[d] \in Cabs  BY <1>0 DEF SessionTypeOK
  <2>2. \A d \in 1 .. MaxCabs : [cabs[d] EXCEPT !.st = "revoked"] \in Cabs  BY <2>1 DEF Cabs
  <2>. QED  BY <2>1, <2>2 DEF Attach, SpentCabs
<1>9. tickets' \in [1 .. MaxWakes -> Tickets] /\ TicketsNumbered' /\ WakeHoldsRuntime'
  <2>1. CASE RouteLost
    <3>1. tickets' = WakesStopped  BY <2>1 DEF Attach
    <3>. QED  BY <3>1, <1>0, Stopped
  <2>2. CASE ~RouteLost
    <3>1. tickets' = tickets /\ tickets \in [1 .. MaxWakes -> Tickets]
      BY <2>2, <1>0 DEF Attach, SessionTypeOK
    <3>2. TicketsNumbered'  BY <3>1, <1>0, TicketsStay
    <3>3. WakeHoldsRuntime'
      <4>1. CASE att.st = "active"
        <5>1. att' = att  BY <4>1, <2>2, <1>0 DEF Attached
        <5>. QED  BY <5>1, <3>1, <1>0, SameWakes
      <4>2. CASE att.st # "active"
        <5>1. \A t \in 1 .. MaxWakes : ~Holds(t)  BY <4>2, <1>0 DEF WakeHoldsRuntime
        <5>2. \A t \in 1 .. MaxWakes : tickets'[t].ticket # "pending" /\ tickets'[t].crc # "active"
          BY <5>1, <3>1 DEF Holds
        <5>. QED  BY <5>2, WakesOver
      <4>. QED  BY <4>1, <4>2
    <3>. QED  BY <3>1, <3>2, <3>3
  <2>. QED  BY <2>1, <2>2
<1>10. SessionTypeOK'
  <2>1. Attachments' = Attachments /\ tickets' \in [1 .. MaxWakes -> Tickets']
        /\ cabs' \in [1 .. MaxCabs -> Cabs'] /\ ownWork' \in OwnWorks'
    BY <1>0, <1>1, <1>2, <1>8, <1>9 DEF Attachments, SessionTypeOK
  <2>. QED  BY <2>1, <1>0, <1>1, <1>4, <1>6 DEF SessionTypeOK
<1>11. ClosedInItsEra' /\ NothingBefore'
  BY <1>0, <1>1 DEF SessionInv, ClosedInItsEra, NothingBefore
<1>. QED  BY <1>5, <1>7, <1>9, <1>10, <1>11 DEF SessionInv

------------------------------------------------------------------------------
(* CaoSession: the theorems.                                                 *)

\* No attachment, or one from before project scopes; no capability, connection or credential.
LEMMA SessionStart == SessionInit => SessionInv
<1> SUFFICES ASSUME SessionInit PROVE SessionInv
  OBVIOUS
<1>0. /\ MaxConns \in Nat /\ MaxWakes \in Nat /\ MaxCabs \in Nat /\ MaxCscs \in Nat
      /\ MaxCatalog \in Nat \ {0}
  BY SessionAssumption
<1>1. /\ catalog = 1 /\ peers = Peers /\ closes = 0 /\ att \in {NoAtt, Legacy} /\ ownWork = NoOwnWork
      /\ \A n \in 1 .. MaxConns : conns[n] = NoConn
      /\ \A c \in 1 .. MaxCscs : cscs[c] = NoCsc
      /\ \A t \in 1 .. MaxWakes : tickets[t] = NoTicket
  BY DEF SessionInit
<1>2. /\ att.gen = 0 /\ att.st # "revoked" /\ 0 \in 0 .. closes /\ 0 \in 0 .. att.gen /\ -1 \in -1 .. att.gen
      /\ 1 \in 1 .. MaxCatalog /\ 0 \in 0 .. MaxCabs /\ 0 \in 0 .. MaxConns /\ 0 \in Catalogs
  BY <1>0, <1>1 DEF NoAtt, Legacy, Catalogs
<1>3. SessionTypeOK
  <2>1. att \in Attachments /\ ownWork \in OwnWorks
    <3>1. NoAtt \in Attachments  BY <1>2 DEF Attachments, NoAtt
    <3>2. Legacy \in Attachments  BY <1>2 DEF Attachments, Legacy
    <3>3. NoOwnWork \in OwnWorks  BY <1>2 DEF OwnWorks, NoOwnWork
    <3>. QED  BY <3>1, <3>2, <3>3, <1>1
  <2>2. NoCab \in Cabs /\ NoConn \in Conns /\ NoCsc \in Cscs /\ NoTicket \in Tickets
    BY <1>2 DEF NoCab, Cabs, NoConn, Conns, NoCsc, Cscs, NoTicket, Tickets, Peer
  <2>3. Idle \in Bearers  BY DEF Bearers, Idle
  <2>. QED  BY <2>1, <2>2, <2>3, <1>1, <1>2 DEF SessionTypeOK, SessionInit
<1>4. ConnsNumbered
  <2>1. \A n \in 1 .. MaxConns : conns[n].st = "none" /\ 0 < n  BY <1>1 DEF NoConn
  <2>. QED  BY <2>1, <1>1, <1>2 DEF ConnsNumbered
<1>5. TicketsNumbered
  <2>1. \A t \in 1 .. MaxWakes : tickets[t].ticket = "none" /\ 0 < t  BY <1>1 DEF NoTicket
  <2>2. 0 \in 0 .. MaxWakes  BY <1>0
  <2>. QED  BY <2>1, <2>2, <1>1 DEF TicketsNumbered
<1>6. ConnectionsCurrent  BY <1>1 DEF ConnectionsCurrent, NoConn, NoCsc
<1>7. WakeHoldsRuntime  BY <1>1 DEF WakeHoldsRuntime, Holds, NoTicket
<1>8. ClosedInItsEra /\ NothingBefore
  BY <1>1, <1>2 DEF ClosedInItsEra, NothingBefore, NoOwnWork
<1>. QED  BY <1>3, <1>4, <1>5, <1>6, <1>7, <1>8 DEF SessionInv

\* SessionInv is inductive.
LEMMA SessionStep == SessionInv /\ [SessionNext]_session => SessionInv'
<1> SUFFICES ASSUME SessionInv, [SessionNext]_session PROVE SessionInv'
  OBVIOUS
<1>1. CASE UNCHANGED session
  <2>1. SessionTypeOK'
    BY <1>1, Grow, Numbers DEF session, SessionInv, SessionTypeOK, Attachments
  <2>2. ConnsNumbered' /\ TicketsNumbered' /\ ConnectionsCurrent' /\ WakeHoldsRuntime'
    BY <1>1, SameTables DEF session
  <2>3. ClosedInItsEra' /\ NothingBefore'
    BY <1>1 DEF session, SessionInv, ClosedInItsEra, NothingBefore, WorkOver
  <2>. QED  BY <2>1, <2>2, <2>3 DEF SessionInv
<1>2. CASE \E p \in Peers : IssueBootstrap(p) \/ PeerExits(p)  BY <1>2, IssuePreserves
<1>3. CASE \E b \in 1 .. MaxCabs : Attach(b)  BY <1>3, AttachPreserves
<1>4. CASE \E k \in Callers : \/ \E c \in 1 .. MaxCscs : AuthenticateCsc(k, c)
                              \/ \E t \in 1 .. MaxWakes : AuthenticateCrc(k, t)
                              \/ RequestEnds(k)
  BY <1>4, RequestPreserves
<1>5. CASE \E k \in Callers : CloseConversation(k)  BY <1>5, ClosePreserves
<1>6. CASE (\E k \in Callers : AssignOwnWork(k)) \/ OwnWorkMoves \/ ReceiptWritten  BY <1>6, WorkPreserves
<1>7. CASE Rollover \/ BindProject \/ IssueTicket
  BY <1>7, RolloverPreserves, BindPreserves, TicketPreserves
<1>8. CASE \E t \in 1 .. MaxWakes : RevokeTicket(t) \/ ExchangeTicket(t)
  BY <1>8, RevokePreserves, ExchangePreserves
<1>9. CASE WakeSucceeds \/ WakeFails \/ LeaseLapses \/ ExpireLeases
  BY <1>9, SucceedPreserves, FailPreserves, LapsePreserves, ExpirePreserves
<1>. QED  BY <1>1, <1>2, <1>3, <1>4, <1>5, <1>6, <1>7, <1>8, <1>9 DEF SessionNext

\* Wakes, connections and credentials are of the attachment as it stands, however requests, closes,
\* reopens, rollovers, expiries and wakes interleave.
THEOREM SessionInvariant == SessionSpec => []SessionInv
BY SessionStart, SessionStep, PTL DEF SessionSpec

\* Only the wake under way acts, a bridge that loaded an older catalog does not, and after
\* cao_close_conversation nothing of the conversation runs on.
THEOREM AuthorityFenced == SessionSpec => []SessionFenced
<1>1. SessionInv => SessionFenced
  <2> SUFFICES ASSUME SessionInv PROVE SessionFenced
    OBVIOUS
  <2>1. OnlyThisWakeActs  BY DEF SessionInv, WakeHoldsRuntime, Holds, OnlyThisWakeActs, CrcUsable
  <2>2. StaleCatalogFenced
    BY DEF SessionInv, ConnectionsCurrent, StaleCatalogFenced, CscUsable, LiveCsc
  <2>3. ClosedIsQuiet
    <3> SUFFICES ASSUME att.st = "revoked"
                 PROVE  /\ WorkOver /\ \A n \in 1 .. MaxConns : conns[n].st # "active"
                        /\ Pending = {} /\ \A t \in 1 .. MaxWakes : tickets[t].crc # "active"
      BY DEF ClosedIsQuiet, WorkOver
    <3>1. WorkOver  BY DEF SessionInv, ClosedInItsEra
    <3>2. \A n \in 1 .. MaxConns : conns[n].st # "active"  BY DEF SessionInv, ConnectionsCurrent
    <3>3. \A t \in 1 .. MaxWakes : ~Holds(t)  BY DEF SessionInv, WakeHoldsRuntime
    <3>. QED  BY <3>1, <3>2, <3>3 DEF Holds, Pending
  <2>. QED  BY <2>1, <2>2, <2>3 DEF SessionInv, SessionFenced
<1>. QED  BY <1>1, SessionInvariant, PTL

\* A request that was authenticated earlier writes only under authority that is current in the
\* transaction of the write, and a closed conversation is reopened only by a capability issued
\* after its close.
THEOREM AuthorityStaysCurrent == SessionSpec => AuthorityCurrent
<1>1. SessionInv /\ [SessionNext]_session => [WritesUnderCurrentAuthority /\ NoReopenByOldCapability]_session
  <2> SUFFICES ASSUME SessionInv, SessionNext
               PROVE  WritesUnderCurrentAuthority /\ NoReopenByOldCapability
    OBVIOUS
  <2>1. ASSUME NEW k \in Callers, AssignOwnWork(k) \/ CloseConversation(k)
        PROVE  \/ caller[k].kind = "crc" /\ att.rt = "busy" /\ tickets[caller[k].id].gen = att.gen
               \/ /\ caller[k].kind = "csc" /\ cscs[caller[k].id].st = "active"
                  /\ conns[cscs[caller[k].id].conn].cat = catalog
    <3>1. CurrentActor(k) /\ caller[k] \in Bearers
      BY <2>1 DEF AssignOwnWork, CloseConversation, CloseActor, SessionInv, SessionTypeOK
    <3>2. CASE caller[k].kind = "csc"
      <4>1. CscUsable(caller[k].id) /\ caller[k].id \in 1 .. MaxCscs  BY <3>1, <3>2 DEF CurrentActor, Bearers
      <4>. QED  BY <3>2, <4>1 DEF CscUsable, LiveCsc, SessionInv, ConnectionsCurrent
    <3>3. CASE caller[k].kind # "csc"  BY <3>1, <3>3 DEF CurrentActor, CrcUsable
    <3>. QED  BY <3>2, <3>3
  <2>2. ASSUME att.st = "revoked", att'.st = "active"
        PROVE  \E b \in 1 .. MaxCabs : cabs[b].st = "active" /\ cabs'[b].st = "revoked" /\ cabs[b].era = closes
    <3>1. PICK b \in 1 .. MaxCabs : Attach(b)
      <4>1. ~\E p \in Peers : IssueBootstrap(p) \/ PeerExits(p)  BY <2>2 DEF IssueBootstrap, PeerExits
      <4>2. \A k \in Callers : ~AssignOwnWork(k) /\ ~CloseConversation(k) /\ ~RequestEnds(k)
        BY <2>2, ActorActive DEF AssignOwnWork, CloseConversation, CloseActor, RequestEnds
      <4>3. \A k \in Callers : /\ ~\E c \in 1 .. MaxCscs : AuthenticateCsc(k, c)
                               /\ ~\E t \in 1 .. MaxWakes : AuthenticateCrc(k, t)
        BY <2>2 DEF AuthenticateCsc, AuthenticateCrc
      <4>4. ~Rollover /\ ~IssueTicket  BY <2>2 DEF Rollover, IssueTicket
      <4>5. ~BindProject /\ ~LeaseLapses /\ ~ExpireLeases
        <5>1. att \in Attachments  BY DEF SessionInv, SessionTypeOK
        <5>. QED  BY <5>1, <2>2 DEF BindProject, LeaseLapses, ExpireLeases, Attachments
      <4>6. \A t \in 1 .. MaxWakes : ~RevokeTicket(t) /\ ~ExchangeTicket(t)
        BY <2>2 DEF RevokeTicket, ExchangeTicket, Pending, SessionInv, WakeHoldsRuntime, Holds
      <4>7. ~WakeSucceeds /\ ~WakeFails  BY <2>2 DEF WakeSucceeds, WakeFails, CrcUsable
      <4>8. ~OwnWorkMoves /\ ~ReceiptWritten  BY <2>2, OwnWorkStep DEF ReceiptWritten
      <4>. QED  BY <4>1, <4>2, <4>3, <4>4, <4>5, <4>6, <4>7, <4>8 DEF SessionNext
    <3>2. cabs[b].st = "active" /\ cabs[b].seen = att.gen
      BY <2>2, <3>1 DEF Attach, BootstrapAdmitted, ObservationCurrent
    <3>3. cabs[b].era = closes  BY <2>2, <3>2 DEF SessionInv, ClosedInItsEra
    <3>4. cabs'[b].st = "revoked"
      <4>1. cabs[b] \in Cabs  BY DEF SessionInv, SessionTypeOK
      <4>2. cabs'[b] = [cabs[b] EXCEPT !.st = "revoked"]  BY <3>1 DEF Attach, SpentCabs
      <4>. QED  BY <4>1, <4>2 DEF Cabs
    <3>. QED  BY <3>2, <3>3, <3>4
  <2>. QED  BY <2>1, <2>2 DEF WritesUnderCurrentAuthority, NoReopenByOldCapability
<1>. QED  BY <1>1, SessionInvariant, PTL DEF SessionSpec, AuthorityCurrent

=============================================================================
