----------------------- MODULE ConversationBridgeProofs -----------------------
(***************************************************************************)
(* Proofs about the stdio bridge, for any number of request ids, however   *)
(* it is started: what it forwards is under a proven credential, every     *)
(* response is paid by a request, and a read loop without tasks owes       *)
(* nothing and keeps its attachment.  BridgeInv is the inductive           *)
(* invariant; its parts are about the read loop, the proofs of             *)
(* credentials, the responses, the heartbeats, and the read loop alone.    *)
(***************************************************************************)
EXTENDS ConversationBridge, TLAPS

\* The read loop has a request while it awaits something, and only then; only a pending bridge
\* awaits an attachment, and a credential it is offered is the one issued last.
Idle == pc \in {"read"} \cup Ended => main = NoMain
Taken == pc \in {"issue", "renew", "probe", "call"} => main.id \in Ids
OnlyPendingAttaches == pc \in {"issue", "renew"} => Pending
Newest == pc \in {"issue", "renew"} /\ main.ph = "ok" => main.tok = issued /\ issued > 0
LoopInv == Idle /\ Taken /\ OnlyPendingAttaches /\ Newest
ShapeInv == TypeOK /\ OneConnection /\ LoopInv

\* A pending bridge is attached under a proven credential, and what it has yet to put in use was not
\* proven before; only proven credentials were refused; a marker is of a proven connection.
AttachedUnderProof ==
    Pending => /\ att # 0 => att \in verified
               /\ pc = "probe" => main.tok \in verified
               /\ pc \in {"issue", "renew"} /\ main.ph = "ok" => main.tok \notin verified
RefusedWereProven == Pending => rejected \subseteq verified
MarkProven == mark # 0 => mark \in verified
ProofInv ==
    /\ ForwardedUnderProof /\ RejectedGivenUp /\ DegradedWasProven
    /\ AttachedUnderProof /\ RefusedWereProven /\ MarkProven

\* Every response given, and every one the read loop or a task may still give, is paid by a request;
\* nobody works on a request whose cancellation was handled.
ByLoop(i) == IF main.id = i THEN 1 ELSE 0
ByTask(i) == IF task[i] # NoRequest THEN 1 ELSE 0
AnswerBudget == \A i \in Ids : answered[i] + ByLoop(i) + ByTask(i) <= sent[i]
CancelledIsOver == \A i \in cut : sent[i] > 0 /\ task[i] = NoRequest /\ main.id # i
AnswerInv == AnswerBudget /\ CancelledIsOver
Answers == AnswerInv' /\ AnsweredOnce

\* A Worker's bridge has no attachment, and only it has heartbeats.
WorkerInv ==
    /\ Worker => att = 0
    /\ hb.st # "none" => Worker

\* A read loop without tasks: only the request it works on waits for a response, its attachment
\* holds while it awaits the daemon, and a credential that was refused or closed is invalid.
TasksQuiet == \A i \in Ids : task[i] = NoRequest
OwesOnlyMain == \A i \in Ids : sent[i] > 0 => answered[i] > 0 \/ main.id = i
AttachmentHeld ==
    /\ pc = "probe" => att # 0
    /\ pc \in {"issue", "renew"} => att = 0
    /\ pc = "call" /\ Pending => att # 0
    /\ pc \in {"probe", "call"} => main.tok = bearer
RefusedIsInvalid ==
    /\ pc \in {"probe", "call"}
    /\ main.ph = "401" \/ (main.op = "close" /\ main.ph = "ok")
    => main.tok \notin valid
Reachable == "lost" \notin Faults => main.ph # "lost"
AloneInv ==
    Alone => /\ TasksQuiet /\ OwesOnlyMain /\ AttachmentHeld /\ RefusedIsInvalid /\ Reachable
             /\ SurvivesExpiry

Held == ReadyHolds /\ BeatFailsClosed

BridgeInv == ShapeInv /\ ProofInv /\ AnswerInv /\ WorkerInv /\ AloneInv

----------------------------------------------------------------------------
(* Types, and where the read loop is.                                        *)

\* The bound on issued credentials is a positive natural, and what was issued is a natural.
LEMMA Bounds == TypeOK => MaxIssue \in Nat \ {0} /\ issued \in Nat
BY BridgeAssumption DEF TypeOK, MaxIssue, CredentialType

\* A request for the daemon (serve_stdio_proxy) is refused at once, starts a task, or occupies
\* the read loop; it carries the credential in use.
LEMMA ForwardCases ==
  ASSUME NEW i \in Ids, NEW o \in AllOps, Forward(i, o)
  PROVE  /\ \/ pc' = pc /\ main' = main
            \/ pc' = "call" /\ main' = [id |-> i, op |-> o, tok |-> bearer, ph |-> "sent"]
         /\ \/ task' = task
            \/ /\ task[i] = NoRequest
               /\ task' = [task EXCEPT ![i] = [op |-> o, tok |-> bearer, ph |-> "sent"]]
         /\ answered' = answered \/ answered' = [answered EXCEPT ![i] = @ + 1]
         /\ UNCHANGED <<cut, bearer, att, mark, valid, issued>>
         /\ UNCHANGED <<verified, rejected, degraded, hb, srv>>
BY DEF Forward, AnswerLocally, Write, Await, local, daemon, seen, beat

\* The read loop's place and request keep their types through every step.
LEMMA LoopTypeStep == TypeOK /\ [Next]_vars => LoopType'
<1> SUFFICES ASSUME TypeOK, [Next]_vars PROVE LoopType'
  OBVIOUS
<1>st. CASE UNCHANGED vars
  BY <1>st DEF vars, daemon, TypeOK, LoopType, CredentialType
<1>su. CASE Step /\ UNCHANGED setup
  <2>1. ASSUME Issued PROVE LoopType'
    BY <1>su, <2>1 DEF Issued, ToRead, NoMain, daemon, TypeOK, LoopType, CredentialType, Phases
  <2>2. ASSUME ProbeOk PROVE LoopType'
    BY <1>su, <2>2 DEF ProbeOk, ToRead, NoMain, daemon, TypeOK, LoopType, CredentialType, Phases
  <2>3. ASSUME ProbeFailed PROVE LoopType'
    BY <1>su, <2>3
    DEF ProbeFailed, Leave, ToRead, NoMain, daemon, TypeOK, LoopType, CredentialType, Ended,
         Phases
  <2>4. ASSUME ProbeExpired PROVE LoopType'
    BY <1>su, <2>4
    DEF ProbeExpired, Leave, ToRead, NoMain, daemon, TypeOK, LoopType, CredentialType, Ended,
         Phases
  <2>5. ASSUME Renewed PROVE LoopType'
    BY <1>su, <2>5 DEF Renewed, ToRead, NoMain, daemon, TypeOK, LoopType, CredentialType, Phases
  <2>6. ASSUME CallExpired PROVE LoopType'
    BY <1>su, <2>6
    DEF CallExpired, ToRead, Leave, NoMain, daemon, TypeOK, LoopType, CredentialType, Ended,
         Phases
  <2>7. ASSUME CallFailed PROVE LoopType'
    BY <1>su, <2>7
    DEF CallFailed, Leave, NoMain, daemon, TypeOK, LoopType, CredentialType, Ended, Phases
  <2>8. ASSUME Answer PROVE LoopType'
    BY <1>su, <2>8
    DEF Answer, Leave, ToRead, NoMain, daemon, TypeOK, LoopType, CredentialType, Ended, Phases
  <2>9. ASSUME HandshakeBeat PROVE LoopType'
    BY <1>su, <2>9
    DEF HandshakeBeat, ToRead, Leave, NoMain, daemon, TypeOK, LoopType, CredentialType, Ended,
         Phases
  <2>10. ASSUME BeatLost PROVE LoopType'
    BY <1>su, <2>10
    DEF BeatLost, Leave, NoMain, daemon, TypeOK, LoopType, CredentialType, Ended, Phases
  <2>11. ASSUME EndOfInput PROVE LoopType'
    BY <1>su, <2>11
    DEF EndOfInput, Leave, NoMain, daemon, TypeOK, LoopType, CredentialType, Ended, Phases
  <2>12. ASSUME NEW i \in Ids, Local(i) PROVE LoopType'
    BY <1>su, <2>12 DEF Local, AnswerLocally, daemon, TypeOK, LoopType
  <2>13. ASSUME NEW i \in Ids, Again(i) PROVE LoopType'
    BY <1>su, <2>13 DEF Again, Await, daemon, TypeOK, LoopType, CredentialType, Phases, AllOps
  <2>14. ASSUME NEW i \in Ids, Cancel(i) PROVE LoopType'
    BY <1>su, <2>14 DEF Cancel, daemon, TypeOK, LoopType
  <2>15. ASSUME NEW i \in Ids, NEW o \in AllOps, Unattached(i, o) PROVE LoopType'
    BY <1>su, <2>15
    DEF Unattached, AnswerLocally, Await, daemon, TypeOK, LoopType, CredentialType, Phases
  <2>16. ASSUME NEW i \in Ids, NEW o \in AllOps, Forward(i, o) PROVE LoopType'
    BY <2>16, ForwardCases DEF TypeOK, LoopType, CredentialType, Phases
  <2>17. ASSUME DaemonMain PROVE LoopType'
    BY <1>su, <2>17 DEF DaemonMain, Replies, Verdicts, TypeOK, LoopType, Phases
  <2>18. ASSUME DaemonIssue PROVE LoopType'
    <3>1. issued \in Nat /\ issued' \in Nat /\ issued <= issued'
      BY <2>18, Bounds DEF DaemonIssue, daemon
    <3>2. \/ issued' = issued + 1
             /\ \E r \in {"ok", "stopped"} : main' = [main EXCEPT !.ph = r, !.tok = issued + 1]
          \/ main' = [main EXCEPT !.ph = "stopped"]
      BY <2>18 DEF DaemonIssue
    <3>3. main \in [id : Ids \cup {"none"}, op : AllOps \cup {"none"},
                   tok : 0 .. issued, ph : Phases]
      BY DEF TypeOK, LoopType
    <3>a. main'.tok = main.tok \/ (issued' = issued + 1 /\ main'.tok = issued + 1)
      BY <3>2, <3>3
    <3>4. main'.tok \in 0 .. issued'
      BY <3>1, <3>3, <3>a
    <3>5. /\ main'.ph \in {"ok", "stopped"}
          /\ main' = [id |-> main.id, op |-> main.op, tok |-> main'.tok, ph |-> main'.ph]
      BY <3>2, <3>3
    <3> QED
      BY <2>18, <3>3, <3>4, <3>5 DEF DaemonIssue, TypeOK, LoopType, Phases
  <2>19. ASSUME PeriodicBeat PROVE LoopType'
    BY <1>su, <2>19 DEF PeriodicBeat, daemon, TypeOK, LoopType
  <2>20. ASSUME OtherBeat PROVE LoopType'
    BY <1>su, <2>20 DEF OtherBeat, daemon, TypeOK, LoopType
  <2>21. ASSUME NEW i \in Ids, DaemonTask(i) PROVE LoopType'
    BY <1>su, <2>21 DEF DaemonTask, TypeOK, LoopType
  <2>22. ASSUME NEW i \in Ids, RelayExpired(i) PROVE LoopType'
    BY <1>su, <2>22 DEF RelayExpired, daemon, TypeOK, LoopType
  <2>23. ASSUME NEW i \in Ids, Relayed(i) PROVE LoopType'
    BY <1>su, <2>23 DEF Relayed, daemon, TypeOK, LoopType
  <2>24. ASSUME NEW i \in Ids, Listened(i) PROVE LoopType'
    BY <1>su, <2>24 DEF Listened, daemon, TypeOK, LoopType
  <2>25. ASSUME NEW g \in 1 .. MaxIssue, Expire(g) PROVE LoopType'
    BY <1>su, <2>25 DEF Expire, TypeOK, LoopType
  <2> QED BY <1>su, <2>1, <2>2, <2>3, <2>4, <2>5, <2>6, <2>7, <2>8, <2>9, <2>10, <2>11, <2>12,
    <2>13, <2>14, <2>15, <2>16, <2>17, <2>18, <2>19, <2>20, <2>21, <2>22, <2>23, <2>24, <2>25
    DEF Step, Loop, Input
<1> QED BY <1>st, <1>su DEF Next

\* The tasks and the counts of requests and answers keep their types through every step.
LEMMA TaskTypeStep == TypeOK /\ Taken /\ [Next]_vars => TaskType'
<1> SUFFICES ASSUME TypeOK, Taken, [Next]_vars PROVE TaskType'
  OBVIOUS
<1>st. CASE UNCHANGED vars
  BY <1>st DEF vars, client, daemon, TypeOK, TaskType
<1>su. CASE Step /\ UNCHANGED setup
  <2>1. ASSUME Issued PROVE TaskType'
    BY <1>su, <2>1 DEF Issued, Write, client, daemon, TypeOK, TaskType, Taken
  <2>2. ASSUME ProbeOk PROVE TaskType'
    BY <1>su, <2>2 DEF ProbeOk, Write, client, daemon, TypeOK, TaskType
  <2>3. ASSUME ProbeFailed PROVE TaskType'
    BY <1>su, <2>3
    DEF ProbeFailed, Write, Leave, NoRequest, client, daemon, TypeOK, TaskType, CredentialType,
         Taken, Phases
  <2>4. ASSUME ProbeExpired PROVE TaskType'
    BY <1>su, <2>4
    DEF ProbeExpired, Write, Leave, NoRequest, client, daemon, TypeOK, TaskType, CredentialType,
         Phases
  <2>5. ASSUME Renewed PROVE TaskType'
    BY <1>su, <2>5 DEF Renewed, Write, client, daemon, TypeOK, TaskType, Taken
  <2>6. ASSUME CallExpired PROVE TaskType'
    BY <1>su, <2>6
    DEF CallExpired, Write, Leave, NoRequest, client, daemon, TypeOK, TaskType, CredentialType,
         Taken, Phases
  <2>7. ASSUME CallFailed PROVE TaskType'
    BY <1>su, <2>7
    DEF CallFailed, Write, Leave, NoRequest, client, daemon, TypeOK, TaskType, CredentialType,
         Taken, Phases
  <2>8. ASSUME Answer PROVE TaskType'
    BY <1>su, <2>8
    DEF Answer, Write, Leave, NoRequest, client, daemon, TypeOK, TaskType, CredentialType, Taken,
         Phases
  <2>9. ASSUME HandshakeBeat PROVE TaskType'
    BY <1>su, <2>9
    DEF HandshakeBeat, Write, Leave, NoRequest, client, daemon, TypeOK, TaskType, CredentialType,
         Taken, Phases
  <2>10. ASSUME BeatLost PROVE TaskType'
    BY <1>su, <2>10
    DEF BeatLost, Leave, NoRequest, client, daemon, TypeOK, TaskType, CredentialType, Phases
  <2>11. ASSUME EndOfInput PROVE TaskType'
    BY <1>su, <2>11
    DEF EndOfInput, Leave, NoRequest, client, daemon, TypeOK, TaskType, CredentialType, Phases
  <2>12. ASSUME NEW i \in Ids, Local(i) PROVE TaskType'
    BY <1>su, <2>12 DEF Local, Receive, AnswerLocally, Write, daemon, TypeOK, TaskType
  <2>13. ASSUME NEW i \in Ids, Again(i) PROVE TaskType'
    BY <1>su, <2>13 DEF Again, Receive, daemon, TypeOK, TaskType
  <2>14. ASSUME NEW i \in Ids, Cancel(i) PROVE TaskType'
    BY <1>su, <2>14 DEF Cancel, NoRequest, daemon, TypeOK, TaskType, CredentialType, Phases
  <2>15. ASSUME NEW i \in Ids, NEW o \in AllOps, Unattached(i, o) PROVE TaskType'
    BY <1>su, <2>15 DEF Unattached, Receive, AnswerLocally, Write, daemon, TypeOK, TaskType, Taken
  <2>16. ASSUME NEW i \in Ids, NEW o \in AllOps, Forward(i, o) PROVE TaskType'
    <3>1. sent' = [sent EXCEPT ![i] = @ + 1]
      BY <2>16 DEF Forward, Receive
    <3> QED
      BY <2>16, <3>1, ForwardCases DEF TypeOK, TaskType, CredentialType, Phases
  <2>17. ASSUME DaemonMain PROVE TaskType'
    BY <1>su, <2>17 DEF DaemonMain, client, TypeOK, TaskType
  <2>18. ASSUME DaemonIssue PROVE TaskType'
    BY <1>su, <2>18 DEF DaemonIssue, daemon, client, TypeOK, TaskType, CredentialType
  <2>19. ASSUME PeriodicBeat PROVE TaskType'
    BY <1>su, <2>19 DEF PeriodicBeat, client, daemon, TypeOK, TaskType
  <2>20. ASSUME OtherBeat PROVE TaskType'
    BY <1>su, <2>20 DEF OtherBeat, client, daemon, TypeOK, TaskType
  <2>21. ASSUME NEW i \in Ids, DaemonTask(i) PROVE TaskType'
    <3>1. \E r \in Phases : task' = [task EXCEPT ![i] = [@ EXCEPT !.ph = r]]
      BY <2>21 DEF DaemonTask, Replies, Faults, Phases
    <3> QED
      BY <2>21, <3>1 DEF DaemonTask, client, TypeOK, TaskType
  <2>22. ASSUME NEW i \in Ids, RelayExpired(i) PROVE TaskType'
    BY <1>su, <2>22
    DEF RelayExpired, Done, Write, NoRequest, client, daemon, TypeOK, TaskType, CredentialType,
         Phases
  <2>23. ASSUME NEW i \in Ids, Relayed(i) PROVE TaskType'
    <3>1. NoRequest \in [op : AllOps \cup {"none"}, tok : 0 .. issued, ph : Phases]
      BY Bounds DEF NoRequest, Phases
    <3>2. /\ task' = [task EXCEPT ![i] = NoRequest] /\ answered' = [answered EXCEPT ![i] = @ + 1]
          /\ UNCHANGED <<sent, cut, issued>>
      BY <2>23 DEF Relayed, Done, Write, client, daemon
    <3> QED
      BY <3>1, <3>2 DEF TypeOK, TaskType
  <2>24. ASSUME NEW i \in Ids, Listened(i) PROVE TaskType'
    BY <1>su, <2>24
    DEF Listened, Done, Write, NoRequest, client, daemon, TypeOK, TaskType, CredentialType, Phases
  <2>25. ASSUME NEW g \in 1 .. MaxIssue, Expire(g) PROVE TaskType'
    BY <1>su, <2>25 DEF Expire, client, TypeOK, TaskType
  <2> QED BY <1>su, <2>1, <2>2, <2>3, <2>4, <2>5, <2>6, <2>7, <2>8, <2>9, <2>10, <2>11, <2>12,
    <2>13, <2>14, <2>15, <2>16, <2>17, <2>18, <2>19, <2>20, <2>21, <2>22, <2>23, <2>24, <2>25
    DEF Step, Loop, Input
<1> QED BY <1>st, <1>su DEF Next

\* Credentials stay among those issued: an attachment, a proof or a refusal names one.
LEMMA CredentialTypeStep == TypeOK /\ Newest /\ OneConnection /\ [Next]_vars => CredentialType'
<1> SUFFICES ASSUME TypeOK, Newest, OneConnection, [Next]_vars PROVE CredentialType'
  OBVIOUS
<1>st. CASE UNCHANGED vars
  BY <1>st DEF vars, local, daemon, seen, TypeOK, CredentialType, MaxIssue
<1>su. CASE Step /\ UNCHANGED setup
  <2>1. ASSUME Issued PROVE CredentialType'
    <3>1. issued \in Nat /\ MaxIssue \in Nat
      BY Bounds
    <3>2. UNCHANGED <<issued, valid, MaxIssue, rejected>>
      BY <1>su, <2>1 DEF Issued, daemon, MaxIssue
    <3>3. main.ph = "ok" => main.tok \in 1 .. issued
      BY <2>1, <3>1 DEF Issued, Newest
    <3>4. bearer' \in 0 .. issued /\ att' \in 0 .. issued /\ mark' \in 0 .. issued
      BY <2>1, <3>1, <3>3 DEF Issued, Forget, TypeOK, CredentialType
    <3>5. verified \subseteq 1 .. issued
      BY DEF TypeOK, CredentialType
    <3>6. verified' \subseteq 1 .. issued
      BY <2>1, <3>3, <3>5 DEF Issued
    <3> QED
      BY <3>1, <3>2, <3>4, <3>6 DEF TypeOK, CredentialType
  <2>2. ASSUME ProbeOk PROVE CredentialType'
    <3>1. issued \in Nat /\ MaxIssue \in Nat
      BY Bounds
    <3>2. UNCHANGED <<issued, valid, MaxIssue, rejected, bearer, att>>
      BY <1>su, <2>2 DEF ProbeOk, daemon, MaxIssue
    <3>3. att \in 0 .. issued /\ mark \in 0 .. issued /\ verified \subseteq 1 .. issued
      BY DEF TypeOK, CredentialType
    <3>a. \/ att # 0 /\ mark' = att /\ verified' = verified \cup {att}
          \/ mark' = mark /\ verified' = verified
      BY <2>2 DEF ProbeOk
    <3>b. att # 0 => att \in 1 .. issued
      BY <3>1, <3>3
    <3>4. mark' \in 0 .. issued /\ verified' \subseteq 1 .. issued
      BY <3>3, <3>a, <3>b
    <3> QED
      BY <3>1, <3>2, <3>4 DEF TypeOK, CredentialType
  <2>3. ASSUME ProbeFailed PROVE CredentialType'
    BY <1>su, <2>3 DEF ProbeFailed, Forget, local, daemon, TypeOK, CredentialType, MaxIssue
  <2>4. ASSUME ProbeExpired PROVE CredentialType'
    BY <1>su, <2>4 DEF ProbeExpired, Forget, daemon, TypeOK, CredentialType, MaxIssue, LoopType
  <2>5. ASSUME Renewed PROVE CredentialType'
    <3>1. issued \in Nat /\ MaxIssue \in Nat
      BY Bounds
    <3>2. UNCHANGED <<issued, valid, MaxIssue, rejected>>
      BY <1>su, <2>5 DEF Renewed, daemon, MaxIssue
    <3>3. main.ph = "ok" => main.tok \in 1 .. issued
      BY <2>5, <3>1 DEF Renewed, Newest
    <3>4. bearer' \in 0 .. issued /\ att' \in 0 .. issued /\ mark' \in 0 .. issued
      BY <2>5, <3>1, <3>3 DEF Renewed, local, TypeOK, CredentialType
    <3>5. verified \subseteq 1 .. issued
      BY DEF TypeOK, CredentialType
    <3>6. verified' \subseteq 1 .. issued
      BY <2>5, <3>3, <3>5 DEF Renewed
    <3> QED
      BY <3>1, <3>2, <3>4, <3>6 DEF TypeOK, CredentialType
  <2>6. ASSUME CallExpired PROVE CredentialType'
    <3>1. issued \in Nat /\ MaxIssue \in Nat
      BY Bounds
    <3>2. UNCHANGED <<issued, valid, MaxIssue, verified>>
      BY <1>su, <2>6 DEF CallExpired, daemon, MaxIssue
    <3>3. rejected' \subseteq 0 .. issued
      BY <2>6 DEF CallExpired, TypeOK, LoopType, CredentialType
    <3>4. Forget \/ UNCHANGED local
      BY <2>6 DEF CallExpired
    <3> QED
      BY <3>1, <3>2, <3>3, <3>4 DEF Forget, local, TypeOK, CredentialType
  <2>7. ASSUME CallFailed PROVE CredentialType'
    BY <1>su, <2>7 DEF CallFailed, local, daemon, seen, TypeOK, CredentialType, MaxIssue
  <2>8. ASSUME Answer PROVE CredentialType'
    BY <1>su, <2>8 DEF Answer, Forget, local, daemon, seen, TypeOK, CredentialType, MaxIssue
  <2>9. ASSUME HandshakeBeat PROVE CredentialType'
    BY <1>su, <2>9 DEF HandshakeBeat, local, daemon, seen, TypeOK, CredentialType, MaxIssue
  <2>10. ASSUME BeatLost PROVE CredentialType'
    BY <1>su, <2>10 DEF BeatLost, local, daemon, seen, TypeOK, CredentialType, MaxIssue
  <2>11. ASSUME EndOfInput PROVE CredentialType'
    BY <1>su, <2>11 DEF EndOfInput, local, daemon, seen, TypeOK, CredentialType, MaxIssue
  <2>12. ASSUME NEW i \in Ids, Local(i) PROVE CredentialType'
    BY <1>su, <2>12
    DEF Local, AnswerLocally, local, daemon, seen, TypeOK, CredentialType, MaxIssue
  <2>13. ASSUME NEW i \in Ids, Again(i) PROVE CredentialType'
    BY <1>su, <2>13 DEF Again, local, daemon, seen, TypeOK, CredentialType, MaxIssue
  <2>14. ASSUME NEW i \in Ids, Cancel(i) PROVE CredentialType'
    BY <1>su, <2>14 DEF Cancel, local, daemon, seen, TypeOK, CredentialType, MaxIssue
  <2>15. ASSUME NEW i \in Ids, NEW o \in AllOps, Unattached(i, o) PROVE CredentialType'
    BY <1>su, <2>15
    DEF Unattached, AnswerLocally, local, daemon, seen, TypeOK, CredentialType, MaxIssue
  <2>16. ASSUME NEW i \in Ids, NEW o \in AllOps, Forward(i, o) PROVE CredentialType'
    BY <1>su, <2>16
    DEF Forward, AnswerLocally, local, daemon, seen, TypeOK, CredentialType, MaxIssue
  <2>17. ASSUME DaemonMain PROVE CredentialType'
    BY <1>su, <2>17 DEF DaemonMain, Effect, local, seen, TypeOK, CredentialType, MaxIssue
  <2>18. ASSUME DaemonIssue PROVE CredentialType'
    <3>1. issued \in Nat /\ MaxIssue \in Nat
      BY Bounds
    <3>2. MaxIssue' = MaxIssue /\ issued <= issued' /\ issued' \in 0 .. MaxIssue
      BY <1>su, <2>18, <3>1 DEF DaemonIssue, MaxIssue, daemon, TypeOK, CredentialType
    <3>3. valid' \subseteq 1 .. issued' /\ UNCHANGED <<local, seen>>
      BY <2>18, <3>1 DEF DaemonIssue, daemon, TypeOK, CredentialType
    <3> QED
      BY <3>1, <3>2, <3>3 DEF local, seen, TypeOK, CredentialType
  <2>19. ASSUME PeriodicBeat PROVE CredentialType'
    BY <1>su, <2>19 DEF PeriodicBeat, local, daemon, seen, TypeOK, CredentialType, MaxIssue
  <2>20. ASSUME OtherBeat PROVE CredentialType'
    BY <1>su, <2>20 DEF OtherBeat, local, daemon, seen, TypeOK, CredentialType, MaxIssue
  <2>21. ASSUME NEW i \in Ids, DaemonTask(i) PROVE CredentialType'
    BY <1>su, <2>21 DEF DaemonTask, Effect, local, seen, TypeOK, CredentialType, MaxIssue
  <2>22. ASSUME NEW i \in Ids, RelayExpired(i) PROVE CredentialType'
    <3>1. issued \in Nat /\ MaxIssue \in Nat
      BY Bounds
    <3>2. UNCHANGED <<issued, valid, MaxIssue, verified>>
      BY <1>su, <2>22 DEF RelayExpired, daemon, MaxIssue
    <3>3. rejected' \subseteq 0 .. issued
      BY <2>22 DEF RelayExpired, TypeOK, TaskType, CredentialType
    <3>4. Forget \/ UNCHANGED local
      BY <2>22 DEF RelayExpired
    <3> QED
      BY <3>1, <3>2, <3>3, <3>4 DEF Forget, local, TypeOK, CredentialType
  <2>23. ASSUME NEW i \in Ids, Relayed(i) PROVE CredentialType'
    <3>1. issued \in Nat /\ MaxIssue \in Nat
      BY Bounds
    <3>2. UNCHANGED <<issued, valid, MaxIssue, verified, rejected>>
      BY <1>su, <2>23 DEF Relayed, daemon, MaxIssue, seen
    <3>3. Forget \/ UNCHANGED local
      BY <2>23 DEF Relayed
    <3> QED
      BY <3>1, <3>2, <3>3 DEF Forget, local, TypeOK, CredentialType
  <2>24. ASSUME NEW i \in Ids, Listened(i) PROVE CredentialType'
    BY <1>su, <2>24 DEF Listened, local, daemon, seen, TypeOK, CredentialType, MaxIssue
  <2>25. ASSUME NEW g \in 1 .. MaxIssue, Expire(g) PROVE CredentialType'
    BY <1>su, <2>25 DEF Expire, local, seen, TypeOK, CredentialType, MaxIssue
  <2> QED BY <1>su, <2>1, <2>2, <2>3, <2>4, <2>5, <2>6, <2>7, <2>8, <2>9, <2>10, <2>11, <2>12,
    <2>13, <2>14, <2>15, <2>16, <2>17, <2>18, <2>19, <2>20, <2>21, <2>22, <2>23, <2>24, <2>25
    DEF Step, Loop, Input
<1> QED BY <1>st, <1>su DEF Next

\* The heartbeat task and the durable sequence keep their types through every step.
LEMMA BeatTypeStep == TypeOK /\ [Next]_vars => BeatType'
<1> SUFFICES ASSUME TypeOK, [Next]_vars PROVE BeatType'
  OBVIOUS
<1>st. CASE UNCHANGED vars
  BY <1>st DEF vars, beat, TypeOK, BeatType
<1>su. CASE Step /\ UNCHANGED setup
  <2>1. ASSUME Issued PROVE BeatType'
    BY <1>su, <2>1 DEF Issued, beat, TypeOK, BeatType
  <2>2. ASSUME ProbeOk PROVE BeatType'
    BY <1>su, <2>2 DEF ProbeOk, beat, TypeOK, BeatType
  <2>3. ASSUME ProbeFailed PROVE BeatType'
    BY <1>su, <2>3 DEF ProbeFailed, beat, TypeOK, BeatType
  <2>4. ASSUME ProbeExpired PROVE BeatType'
    BY <1>su, <2>4 DEF ProbeExpired, beat, TypeOK, BeatType
  <2>5. ASSUME Renewed PROVE BeatType'
    BY <1>su, <2>5 DEF Renewed, beat, TypeOK, BeatType
  <2>6. ASSUME CallExpired PROVE BeatType'
    BY <1>su, <2>6 DEF CallExpired, beat, TypeOK, BeatType
  <2>7. ASSUME CallFailed PROVE BeatType'
    BY <1>su, <2>7 DEF CallFailed, beat, TypeOK, BeatType
  <2>8. ASSUME Answer PROVE BeatType'
    BY <1>su, <2>8 DEF Answer, FirstBeat, beat, TypeOK, BeatType
  <2>9. ASSUME HandshakeBeat PROVE BeatType'
    BY <1>su, <2>9 DEF HandshakeBeat, Beats, Sent, Sequence, TypeOK, BeatType
  <2>10. ASSUME BeatLost PROVE BeatType'
    BY <1>su, <2>10 DEF BeatLost, beat, TypeOK, BeatType
  <2>11. ASSUME EndOfInput PROVE BeatType'
    BY <1>su, <2>11 DEF EndOfInput, beat, TypeOK, BeatType
  <2>12. ASSUME NEW i \in Ids, Local(i) PROVE BeatType'
    BY <1>su, <2>12 DEF Local, AnswerLocally, beat, TypeOK, BeatType
  <2>13. ASSUME NEW i \in Ids, Again(i) PROVE BeatType'
    BY <1>su, <2>13 DEF Again, beat, TypeOK, BeatType
  <2>14. ASSUME NEW i \in Ids, Cancel(i) PROVE BeatType'
    BY <1>su, <2>14 DEF Cancel, beat, TypeOK, BeatType
  <2>15. ASSUME NEW i \in Ids, NEW o \in AllOps, Unattached(i, o) PROVE BeatType'
    BY <1>su, <2>15 DEF Unattached, AnswerLocally, beat, TypeOK, BeatType
  <2>16. ASSUME NEW i \in Ids, NEW o \in AllOps, Forward(i, o) PROVE BeatType'
    BY <1>su, <2>16 DEF Forward, AnswerLocally, beat, TypeOK, BeatType
  <2>17. ASSUME DaemonMain PROVE BeatType'
    BY <1>su, <2>17 DEF DaemonMain, beat, TypeOK, BeatType
  <2>18. ASSUME DaemonIssue PROVE BeatType'
    BY <1>su, <2>18 DEF DaemonIssue, beat, TypeOK, BeatType
  <2>19. ASSUME PeriodicBeat PROVE BeatType'
    BY <1>su, <2>19 DEF PeriodicBeat, Beats, Sent, Sequence, TypeOK, BeatType
  <2>20. ASSUME OtherBeat PROVE BeatType'
    BY <1>su, <2>20 DEF OtherBeat, TypeOK, BeatType
  <2>21. ASSUME NEW i \in Ids, DaemonTask(i) PROVE BeatType'
    BY <1>su, <2>21 DEF DaemonTask, beat, TypeOK, BeatType
  <2>22. ASSUME NEW i \in Ids, RelayExpired(i) PROVE BeatType'
    BY <1>su, <2>22 DEF RelayExpired, beat, TypeOK, BeatType
  <2>23. ASSUME NEW i \in Ids, Relayed(i) PROVE BeatType'
    BY <1>su, <2>23 DEF Relayed, beat, TypeOK, BeatType
  <2>24. ASSUME NEW i \in Ids, Listened(i) PROVE BeatType'
    BY <1>su, <2>24 DEF Listened, beat, TypeOK, BeatType
  <2>25. ASSUME NEW g \in 1 .. MaxIssue, Expire(g) PROVE BeatType'
    BY <1>su, <2>25 DEF Expire, beat, TypeOK, BeatType
  <2> QED BY <1>su, <2>1, <2>2, <2>3, <2>4, <2>5, <2>6, <2>7, <2>8, <2>9, <2>10, <2>11, <2>12,
    <2>13, <2>14, <2>15, <2>16, <2>17, <2>18, <2>19, <2>20, <2>21, <2>22, <2>23, <2>24, <2>25
    DEF Step, Loop, Input
<1> QED BY <1>st, <1>su DEF Next

\* Credential, attachment and marker change together: serve_stdio_proxy sets and clears them as one.
LEMMA ConnectionStep == OneConnection /\ [Next]_vars => OneConnection'
<1> SUFFICES ASSUME OneConnection, [Next]_vars PROVE OneConnection'
  OBVIOUS
<1>st. CASE UNCHANGED vars
  BY <1>st DEF vars, local, OneConnection, Worker
<1>su. CASE Step /\ UNCHANGED setup
  <2>1. ASSUME Issued PROVE OneConnection'
    BY <1>su, <2>1 DEF Issued, Forget, OneConnection, Worker
  <2>2. ASSUME ProbeOk PROVE OneConnection'
    BY <1>su, <2>2 DEF ProbeOk, OneConnection, Worker
  <2>3. ASSUME ProbeFailed PROVE OneConnection'
    BY <1>su, <2>3 DEF ProbeFailed, Forget, local, OneConnection, Worker
  <2>4. ASSUME ProbeExpired PROVE OneConnection'
    BY <1>su, <2>4 DEF ProbeExpired, Forget, OneConnection, Worker
  <2>5. ASSUME Renewed PROVE OneConnection'
    BY <1>su, <2>5 DEF Renewed, local, OneConnection, Worker
  <2>6. ASSUME CallExpired PROVE OneConnection'
    BY <1>su, <2>6 DEF CallExpired, Forget, local, OneConnection, Worker
  <2>7. ASSUME CallFailed PROVE OneConnection'
    BY <1>su, <2>7 DEF CallFailed, local, OneConnection, Worker
  <2>8. ASSUME Answer PROVE OneConnection'
    BY <1>su, <2>8 DEF Answer, Forget, local, OneConnection, Worker
  <2>9. ASSUME HandshakeBeat PROVE OneConnection'
    BY <1>su, <2>9 DEF HandshakeBeat, local, OneConnection, Worker
  <2>10. ASSUME BeatLost PROVE OneConnection'
    BY <1>su, <2>10 DEF BeatLost, local, OneConnection, Worker
  <2>11. ASSUME EndOfInput PROVE OneConnection'
    BY <1>su, <2>11 DEF EndOfInput, local, OneConnection, Worker
  <2>12. ASSUME NEW i \in Ids, Local(i) PROVE OneConnection'
    BY <1>su, <2>12 DEF Local, AnswerLocally, local, OneConnection, Worker
  <2>13. ASSUME NEW i \in Ids, Again(i) PROVE OneConnection'
    BY <1>su, <2>13 DEF Again, local, OneConnection, Worker
  <2>14. ASSUME NEW i \in Ids, Cancel(i) PROVE OneConnection'
    BY <1>su, <2>14 DEF Cancel, local, OneConnection, Worker
  <2>15. ASSUME NEW i \in Ids, NEW o \in AllOps, Unattached(i, o) PROVE OneConnection'
    BY <1>su, <2>15 DEF Unattached, AnswerLocally, local, OneConnection, Worker
  <2>16. ASSUME NEW i \in Ids, NEW o \in AllOps, Forward(i, o) PROVE OneConnection'
    BY <1>su, <2>16 DEF Forward, AnswerLocally, local, OneConnection, Worker
  <2>17. ASSUME DaemonMain PROVE OneConnection'
    BY <1>su, <2>17 DEF DaemonMain, local, OneConnection, Worker
  <2>18. ASSUME DaemonIssue PROVE OneConnection'
    BY <1>su, <2>18 DEF DaemonIssue, local, OneConnection, Worker
  <2>19. ASSUME PeriodicBeat PROVE OneConnection'
    BY <1>su, <2>19 DEF PeriodicBeat, local, OneConnection, Worker
  <2>20. ASSUME OtherBeat PROVE OneConnection'
    BY <1>su, <2>20 DEF OtherBeat, local, OneConnection, Worker
  <2>21. ASSUME NEW i \in Ids, DaemonTask(i) PROVE OneConnection'
    BY <1>su, <2>21 DEF DaemonTask, local, OneConnection, Worker
  <2>22. ASSUME NEW i \in Ids, RelayExpired(i) PROVE OneConnection'
    BY <1>su, <2>22 DEF RelayExpired, Forget, local, OneConnection, Worker
  <2>23. ASSUME NEW i \in Ids, Relayed(i) PROVE OneConnection'
    BY <1>su, <2>23 DEF Relayed, Forget, local, OneConnection, Worker
  <2>24. ASSUME NEW i \in Ids, Listened(i) PROVE OneConnection'
    BY <1>su, <2>24 DEF Listened, local, OneConnection, Worker
  <2>25. ASSUME NEW g \in 1 .. MaxIssue, Expire(g) PROVE OneConnection'
    BY <1>su, <2>25 DEF Expire, local, OneConnection, Worker
  <2> QED BY <1>su, <2>1, <2>2, <2>3, <2>4, <2>5, <2>6, <2>7, <2>8, <2>9, <2>10, <2>11, <2>12,
    <2>13, <2>14, <2>15, <2>16, <2>17, <2>18, <2>19, <2>20, <2>21, <2>22, <2>23, <2>24, <2>25
    DEF Step, Loop, Input
<1> QED BY <1>st, <1>su DEF Next

\* The read loop has a request exactly when it awaits something, only a pending bridge asks for an
\* attachment, and the credential that it is offered is the newest.
LEMMA LoopStep == TypeOK /\ LoopInv /\ [Next]_vars => LoopInv'
<1> SUFFICES ASSUME TypeOK, LoopInv, [Next]_vars PROVE LoopInv'
  OBVIOUS
<1>st. CASE UNCHANGED vars
  BY <1>st DEF vars, daemon, LoopInv, Idle, Taken, OnlyPendingAttaches, Newest, Pending
<1>su. CASE Step /\ UNCHANGED setup
  <2>1. ASSUME Issued PROVE LoopInv'
    BY <1>su, <2>1 DEF Issued, ToRead, LoopInv, Idle, Taken, OnlyPendingAttaches, Newest
  <2>2. ASSUME ProbeOk PROVE LoopInv'
    BY <1>su, <2>2 DEF ProbeOk, ToRead, LoopInv, Idle, Taken, OnlyPendingAttaches, Newest
  <2>3. ASSUME ProbeFailed PROVE LoopInv'
    BY <1>su, <2>3
    DEF ProbeFailed, Leave, ToRead, LoopInv, Idle, Taken, OnlyPendingAttaches, Newest
  <2>4. ASSUME ProbeExpired PROVE LoopInv'
    BY <1>su, <2>4
    DEF ProbeExpired, Leave, ToRead, LoopInv, Idle, Taken, OnlyPendingAttaches, Newest, Pending,
         Ended, TypeOK, LoopType
  <2>5. ASSUME Renewed PROVE LoopInv'
    BY <1>su, <2>5 DEF Renewed, ToRead, LoopInv, Idle, Taken, OnlyPendingAttaches, Newest
  <2>6. ASSUME CallExpired PROVE LoopInv'
    BY <1>su, <2>6
    DEF CallExpired, ToRead, Leave, LoopInv, Idle, Taken, OnlyPendingAttaches, Newest
  <2>7. ASSUME CallFailed PROVE LoopInv'
    BY <1>su, <2>7 DEF CallFailed, Leave, LoopInv, Idle, Taken, OnlyPendingAttaches, Newest
  <2>8. ASSUME Answer PROVE LoopInv'
    BY <1>su, <2>8 DEF Answer, Leave, ToRead, LoopInv, Idle, Taken, OnlyPendingAttaches, Newest
  <2>9. ASSUME HandshakeBeat PROVE LoopInv'
    BY <1>su, <2>9
    DEF HandshakeBeat, ToRead, Leave, LoopInv, Idle, Taken, OnlyPendingAttaches, Newest
  <2>10. ASSUME BeatLost PROVE LoopInv'
    BY <1>su, <2>10 DEF BeatLost, Leave, LoopInv, Idle, Taken, OnlyPendingAttaches, Newest
  <2>11. ASSUME EndOfInput PROVE LoopInv'
    BY <1>su, <2>11 DEF EndOfInput, Leave, LoopInv, Idle, Taken, OnlyPendingAttaches, Newest
  <2>12. ASSUME NEW i \in Ids, Local(i) PROVE LoopInv'
    BY <1>su, <2>12
    DEF Local, AnswerLocally, daemon, LoopInv, Idle, Taken, OnlyPendingAttaches, Newest, Pending
  <2>13. ASSUME NEW i \in Ids, Again(i) PROVE LoopInv'
    BY <1>su, <2>13 DEF Again, Await, LoopInv, Idle, Taken, OnlyPendingAttaches, Newest, Ended
  <2>14. ASSUME NEW i \in Ids, Cancel(i) PROVE LoopInv'
    BY <1>su, <2>14 DEF Cancel, LoopInv, Idle, Taken, OnlyPendingAttaches, Newest
  <2>15. ASSUME NEW i \in Ids, NEW o \in AllOps, Unattached(i, o) PROVE LoopInv'
    BY <1>su, <2>15
    DEF Unattached, AnswerLocally, Await, daemon, LoopInv, Idle, Taken, OnlyPendingAttaches,
         Newest, Pending, Ended
  <2>16. ASSUME NEW i \in Ids, NEW o \in AllOps, Forward(i, o) PROVE LoopInv'
    <3>1. pc = "read"
      BY <2>16 DEF Forward, Receive
    <3>2. UNCHANGED <<setup, issued>>
      BY <1>su, <2>16, ForwardCases
    <3> QED
      BY <2>16, <3>1, <3>2, ForwardCases
      DEF LoopInv, Idle, Taken, OnlyPendingAttaches, Newest, Ended
  <2>17. ASSUME DaemonMain PROVE LoopInv'
    BY <1>su, <2>17 DEF DaemonMain, LoopInv, Idle, Taken, OnlyPendingAttaches, Newest, NoMain
  <2>18. ASSUME DaemonIssue PROVE LoopInv'
    <3>1. \/ issued' = issued + 1 /\ main'.tok = issued + 1
          \/ main'.ph = "stopped"
      BY <2>18 DEF DaemonIssue, TypeOK, LoopType
    <3>2. main'.id = main.id /\ UNCHANGED <<setup, pc>> /\ issued \in Nat
      BY <1>su, <2>18, Bounds DEF DaemonIssue, TypeOK, LoopType
    <3> QED
      BY <2>18, <3>1, <3>2
      DEF DaemonIssue, LoopInv, Idle, Taken, OnlyPendingAttaches, Newest, Ended, Pending
  <2>19. ASSUME PeriodicBeat PROVE LoopInv'
    BY <1>su, <2>19
    DEF PeriodicBeat, daemon, LoopInv, Idle, Taken, OnlyPendingAttaches, Newest, Pending
  <2>20. ASSUME OtherBeat PROVE LoopInv'
    BY <1>su, <2>20
    DEF OtherBeat, daemon, LoopInv, Idle, Taken, OnlyPendingAttaches, Newest, Pending
  <2>21. ASSUME NEW i \in Ids, DaemonTask(i) PROVE LoopInv'
    BY <1>su, <2>21 DEF DaemonTask, LoopInv, Idle, Taken, OnlyPendingAttaches, Newest, Pending
  <2>22. ASSUME NEW i \in Ids, RelayExpired(i) PROVE LoopInv'
    BY <1>su, <2>22
    DEF RelayExpired, daemon, LoopInv, Idle, Taken, OnlyPendingAttaches, Newest, Pending
  <2>23. ASSUME NEW i \in Ids, Relayed(i) PROVE LoopInv'
    BY <1>su, <2>23
    DEF Relayed, daemon, LoopInv, Idle, Taken, OnlyPendingAttaches, Newest, Pending
  <2>24. ASSUME NEW i \in Ids, Listened(i) PROVE LoopInv'
    BY <1>su, <2>24
    DEF Listened, daemon, LoopInv, Idle, Taken, OnlyPendingAttaches, Newest, Pending
  <2>25. ASSUME NEW g \in 1 .. MaxIssue, Expire(g) PROVE LoopInv'
    BY <1>su, <2>25 DEF Expire, LoopInv, Idle, Taken, OnlyPendingAttaches, Newest, Pending
  <2> QED BY <1>su, <2>1, <2>2, <2>3, <2>4, <2>5, <2>6, <2>7, <2>8, <2>9, <2>10, <2>11, <2>12,
    <2>13, <2>14, <2>15, <2>16, <2>17, <2>18, <2>19, <2>20, <2>21, <2>22, <2>23, <2>24, <2>25
    DEF Step, Loop, Input
<1> QED BY <1>st, <1>su DEF Next

----------------------------------------------------------------------------
(* Credentials.                                                              *)

\* A step that proves nothing and forwards nothing, and at most gives the credential up, keeps
\* what is proven; a refusal must be of a proven credential that is no longer in use.
LEMMA ProofKept ==
  ASSUME ProofInv, UNCHANGED <<setup, verified>>, Forget \/ UNCHANGED local,
         pc' \in {"read"} \cup Ended \/ UNCHANGED <<pc, main>>,
         \A i \in Ids : task'[i] = task[i] \/ task'[i] = NoRequest,
         Pending => rejected' \subseteq verified /\ bearer' \notin rejected',
         degraded' \subseteq verified
  PROVE  ProofInv'
<1>1. /\ ForwardedUnderProof /\ AttachedUnderProof /\ MarkProven
      /\ Pending' = Pending /\ verified' = verified
  BY DEF ProofInv, Pending
<1>2. \/ att' = 0 /\ mark' = 0
      \/ att' = att /\ mark' = mark
  BY DEF Forget, local
<1>3. pc' \notin {"call", "probe", "issue", "renew"} \/ UNCHANGED <<pc, main>>
  BY DEF Ended
<1>4. ForwardedUnderProof' /\ AttachedUnderProof'
  BY <1>1, <1>2, <1>3 DEF ForwardedUnderProof, AttachedUnderProof
<1>5. RejectedGivenUp' /\ RefusedWereProven' /\ MarkProven' /\ DegradedWasProven'
  BY <1>1, <1>2 DEF RejectedGivenUp, RefusedWereProven, MarkProven, DegradedWasProven
<1> QED
  BY <1>4, <1>5 DEF ProofInv

\* Every step keeps the proofs: a credential is put in use only with its proof
\* (_issue_verified_cao_attachment), and given up by whoever learns of its refusal.
LEMMA ProofStep == TypeOK /\ OneConnection /\ LoopInv /\ ProofInv /\ [Next]_vars => ProofInv'
<1> SUFFICES ASSUME TypeOK, OneConnection, LoopInv, ProofInv, [Next]_vars PROVE ProofInv'
  OBVIOUS
<1>0. 0 \notin verified /\ (Pending => 0 \notin rejected)
  BY Bounds DEF TypeOK, CredentialType, ProofInv, RefusedWereProven
<1>st. CASE UNCHANGED vars
  BY <1>st
  DEF vars, local, seen, ProofInv, ForwardedUnderProof, RejectedGivenUp, DegradedWasProven,
       AttachedUnderProof, RefusedWereProven, MarkProven, Pending
<1>su. CASE Step /\ UNCHANGED setup
  <2>1. ASSUME Issued PROVE ProofInv'
    BY <1>su, <2>1
    DEF Issued, ToRead, Forget, ProofInv, ForwardedUnderProof, RejectedGivenUp, DegradedWasProven,
         AttachedUnderProof, RefusedWereProven, MarkProven, TypeOK, LoopInv, OnlyPendingAttaches,
         Newest, CredentialType
  <2>2. ASSUME ProbeOk PROVE ProofInv'
    BY <1>su, <2>2
    DEF ProbeOk, ToRead, ProofInv, ForwardedUnderProof, RejectedGivenUp, DegradedWasProven,
         AttachedUnderProof, RefusedWereProven, MarkProven, Pending
  <2>3. ASSUME ProbeFailed PROVE ProofInv'
    <3>1. \A j \in Ids : task'[j] = task[j] \/ task'[j] = NoRequest
      BY <2>3 DEF ProbeFailed, Leave, TypeOK, TaskType
    <3>2. /\ UNCHANGED <<setup, verified, rejected>> /\ (Forget \/ UNCHANGED local)
          /\ pc' \in {"read"} \cup Ended
      BY <1>su, <2>3 DEF ProbeFailed, Leave, ToRead, Ended
    <3>3. degraded' \subseteq verified
      BY <2>3 DEF ProbeFailed, Preservable, ProofInv, MarkProven, DegradedWasProven
    <3>4. Pending => rejected' \subseteq verified /\ bearer' \notin rejected'
      BY <3>2, <1>0 DEF Forget, local, ProofInv, RefusedWereProven, RejectedGivenUp
    <3> QED
      BY <3>1, <3>2, <3>3, <3>4, ProofKept
  <2>4. ASSUME ProbeExpired PROVE ProofInv'
    BY <1>su, <2>4
    DEF ProbeExpired, Forget, Leave, ProofInv, ForwardedUnderProof, RejectedGivenUp,
         DegradedWasProven, AttachedUnderProof, RefusedWereProven, MarkProven, Pending, TypeOK,
         LoopType, CredentialType
  <2>5. ASSUME Renewed PROVE ProofInv'
    BY <1>su, <2>5
    DEF Renewed, ToRead, local, ProofInv, ForwardedUnderProof, RejectedGivenUp, DegradedWasProven,
         AttachedUnderProof, RefusedWereProven, MarkProven, LoopInv, OnlyPendingAttaches
  <2>6. ASSUME CallExpired PROVE ProofInv'
    <3>1. \A j \in Ids : task'[j] = task[j] \/ task'[j] = NoRequest
      BY <2>6 DEF CallExpired, Leave, ToRead, TypeOK, TaskType
    <3>2. /\ UNCHANGED <<setup, verified, degraded>> /\ (Forget \/ UNCHANGED local)
          /\ pc' \in {"read"} \cup Ended /\ rejected' = rejected \cup {main.tok}
      BY <1>su, <2>6 DEF CallExpired, Leave, ToRead, Ended
    <3>3. Pending => main.tok \in verified
      BY <2>6 DEF CallExpired, ProofInv, ForwardedUnderProof
    <3>4. Pending => bearer' = 0
      BY <2>6 DEF CallExpired, Forget, OneConnection, Worker, Pending, local
    <3>5. Pending => rejected' \subseteq verified /\ bearer' \notin rejected'
      BY <3>2, <3>3, <3>4, <1>0 DEF ProofInv, RefusedWereProven
    <3> QED
      BY <3>1, <3>2, <3>5, ProofKept DEF ProofInv, DegradedWasProven
  <2>7. ASSUME CallFailed PROVE ProofInv'
    BY <1>su, <2>7
    DEF CallFailed, Leave, local, seen, ProofInv, ForwardedUnderProof, RejectedGivenUp,
         DegradedWasProven, AttachedUnderProof, RefusedWereProven, MarkProven, Pending
  <2>8. ASSUME Answer PROVE ProofInv'
    BY <1>su, <2>8
    DEF Answer, Leave, ToRead, Forget, local, seen, ProofInv, ForwardedUnderProof,
         RejectedGivenUp, DegradedWasProven, AttachedUnderProof, RefusedWereProven, MarkProven,
         Pending, TypeOK, CredentialType
  <2>9. ASSUME HandshakeBeat PROVE ProofInv'
    BY <1>su, <2>9
    DEF HandshakeBeat, ToRead, Leave, local, seen, ProofInv, ForwardedUnderProof, RejectedGivenUp,
         DegradedWasProven, AttachedUnderProof, RefusedWereProven, MarkProven, Pending
  <2>10. ASSUME BeatLost PROVE ProofInv'
    BY <1>su, <2>10
    DEF BeatLost, Leave, local, seen, ProofInv, ForwardedUnderProof, RejectedGivenUp,
         DegradedWasProven, AttachedUnderProof, RefusedWereProven, MarkProven, Pending
  <2>11. ASSUME EndOfInput PROVE ProofInv'
    BY <1>su, <2>11
    DEF EndOfInput, Leave, local, seen, ProofInv, ForwardedUnderProof, RejectedGivenUp,
         DegradedWasProven, AttachedUnderProof, RefusedWereProven, MarkProven, Pending
  <2>12. ASSUME NEW i \in Ids, Local(i) PROVE ProofInv'
    BY <1>su, <2>12
    DEF Local, AnswerLocally, local, seen, ProofInv, ForwardedUnderProof, RejectedGivenUp,
         DegradedWasProven, AttachedUnderProof, RefusedWereProven, MarkProven, Pending
  <2>13. ASSUME NEW i \in Ids, Again(i) PROVE ProofInv'
    BY <1>su, <2>13
    DEF Again, Await, local, seen, ProofInv, ForwardedUnderProof, RejectedGivenUp,
         DegradedWasProven, AttachedUnderProof, RefusedWereProven, MarkProven, Pending,
         OneConnection, Worker
  <2>14. ASSUME NEW i \in Ids, Cancel(i) PROVE ProofInv'
    BY <1>su, <2>14
    DEF Cancel, local, seen, ProofInv, ForwardedUnderProof, RejectedGivenUp, DegradedWasProven,
         AttachedUnderProof, RefusedWereProven, MarkProven, Pending
  <2>15. ASSUME NEW i \in Ids, NEW o \in AllOps, Unattached(i, o) PROVE ProofInv'
    <3>1. /\ UNCHANGED <<setup, task, verified, rejected, degraded, bearer, att, mark>>
          /\ pc' \notin {"call", "probe"} /\ (pc' \in {"issue", "renew"} => main'.ph = "sent")
      BY <1>su, <2>15 DEF Unattached, Receive, AnswerLocally, Await, local, seen
    <3> QED
      BY <3>1
      DEF ProofInv, ForwardedUnderProof, RejectedGivenUp, DegradedWasProven, AttachedUnderProof,
           RefusedWereProven, MarkProven, Pending
  <2>16. ASSUME NEW i \in Ids, NEW o \in AllOps, Forward(i, o) PROVE ProofInv'
    <3>1. /\ UNCHANGED <<setup, verified, rejected, degraded, bearer, att, mark>>
          /\ pc' \in {"call", "read"}
      BY <1>su, <2>16, ForwardCases DEF Forward, Receive
    <3>2. Pending => bearer \in verified
      BY <2>16 DEF Forward, OneConnection, Worker, Pending, ProofInv, AttachedUnderProof
    <3>3. Pending /\ pc' = "call" => main'.tok \in verified
      <4>1. pc = "read"
        BY <2>16 DEF Forward, Receive
      <4> QED
        BY <2>16, <3>2, <4>1, ForwardCases
    <3>4. ASSUME Pending, NEW j \in Ids, task'[j] # NoRequest PROVE task'[j].tok \in verified
      BY <2>16, <3>2, <3>4, ForwardCases DEF TypeOK, TaskType, ProofInv, ForwardedUnderProof
    <3> QED
      BY <3>1, <3>3, <3>4
      DEF ProofInv, ForwardedUnderProof, RejectedGivenUp, DegradedWasProven, AttachedUnderProof,
           RefusedWereProven, MarkProven, Pending
  <2>17. ASSUME DaemonMain PROVE ProofInv'
    BY <1>su, <2>17
    DEF DaemonMain, local, seen, ProofInv, ForwardedUnderProof, RejectedGivenUp,
         DegradedWasProven, AttachedUnderProof, RefusedWereProven, MarkProven, Pending
  <2>18. ASSUME DaemonIssue PROVE ProofInv'
    <3>1. /\ UNCHANGED <<setup, pc, task, local, verified, rejected, degraded>>
          /\ pc \in {"issue", "renew"}
      BY <1>su, <2>18 DEF DaemonIssue, seen
    <3>2. main'.ph = "ok" => main'.tok = issued + 1
      BY <2>18 DEF DaemonIssue, TypeOK, LoopType
    <3>3. issued + 1 \notin verified
      BY Bounds DEF TypeOK, CredentialType
    <3> QED
      BY <3>1, <3>2, <3>3
      DEF local, ProofInv, ForwardedUnderProof, RejectedGivenUp, DegradedWasProven,
           AttachedUnderProof, RefusedWereProven, MarkProven, Pending
  <2>19. ASSUME PeriodicBeat PROVE ProofInv'
    BY <1>su, <2>19
    DEF PeriodicBeat, local, seen, ProofInv, ForwardedUnderProof, RejectedGivenUp,
         DegradedWasProven, AttachedUnderProof, RefusedWereProven, MarkProven, Pending
  <2>20. ASSUME OtherBeat PROVE ProofInv'
    BY <1>su, <2>20
    DEF OtherBeat, local, seen, ProofInv, ForwardedUnderProof, RejectedGivenUp, DegradedWasProven,
         AttachedUnderProof, RefusedWereProven, MarkProven, Pending
  <2>21. ASSUME NEW i \in Ids, DaemonTask(i) PROVE ProofInv'
    BY <1>su, <2>21
    DEF DaemonTask, local, seen, ProofInv, ForwardedUnderProof, RejectedGivenUp,
         DegradedWasProven, AttachedUnderProof, RefusedWereProven, MarkProven, Pending, NoRequest
  <2>22. ASSUME NEW i \in Ids, RelayExpired(i) PROVE ProofInv'
    <3>1. \A j \in Ids : task'[j] = task[j] \/ task'[j] = NoRequest
      BY <2>22 DEF RelayExpired, Done, TypeOK, TaskType
    <3>2. /\ UNCHANGED <<setup, pc, main, verified, degraded>> /\ (Forget \/ UNCHANGED local)
          /\ rejected' = rejected \cup {task[i].tok}
      BY <1>su, <2>22 DEF RelayExpired
    <3>3. Pending => task[i].tok \in verified
      BY <2>22 DEF RelayExpired, NoRequest, ProofInv, ForwardedUnderProof
    <3>4. Pending => bearer' = 0 \/ (bearer' = bearer /\ bearer # task[i].tok)
      BY <2>22 DEF RelayExpired, Forget, OneConnection, Worker, Pending, local
    <3>5. Pending => rejected' \subseteq verified /\ bearer' \notin rejected'
      BY <3>2, <3>3, <3>4, <1>0 DEF ProofInv, RefusedWereProven, RejectedGivenUp
    <3> QED
      BY <3>1, <3>2, <3>5, ProofKept DEF ProofInv, DegradedWasProven
  <2>23. ASSUME NEW i \in Ids, Relayed(i) PROVE ProofInv'
    <3>1. \A j \in Ids : task'[j] = task[j] \/ task'[j] = NoRequest
      BY <2>23 DEF Relayed, Done, TypeOK, TaskType
    <3>2. /\ UNCHANGED <<setup, pc, main, verified, degraded, rejected>>
          /\ (Forget \/ UNCHANGED local)
      BY <1>su, <2>23 DEF Relayed, seen
    <3>3. Pending => rejected' \subseteq verified /\ bearer' \notin rejected'
      BY <3>2, <1>0 DEF Forget, local, ProofInv, RefusedWereProven, RejectedGivenUp
    <3> QED
      BY <3>1, <3>2, <3>3, ProofKept DEF ProofInv, DegradedWasProven
  <2>24. ASSUME NEW i \in Ids, Listened(i) PROVE ProofInv'
    BY <1>su, <2>24
    DEF Listened, Done, local, seen, ProofInv, ForwardedUnderProof, RejectedGivenUp,
         DegradedWasProven, AttachedUnderProof, RefusedWereProven, MarkProven, Pending
  <2>25. ASSUME NEW g \in 1 .. MaxIssue, Expire(g) PROVE ProofInv'
    BY <1>su, <2>25
    DEF Expire, local, seen, ProofInv, ForwardedUnderProof, RejectedGivenUp, DegradedWasProven,
         AttachedUnderProof, RefusedWereProven, MarkProven, Pending
  <2> QED BY <1>su, <2>1, <2>2, <2>3, <2>4, <2>5, <2>6, <2>7, <2>8, <2>9, <2>10, <2>11, <2>12,
    <2>13, <2>14, <2>15, <2>16, <2>17, <2>18, <2>19, <2>20, <2>21, <2>22, <2>23, <2>24, <2>25
    DEF Step, Loop, Input
<1> QED BY <1>st, <1>su DEF Next

\* Heartbeats are a Worker's, whose bridge has no attachment, and the running task goes on from
\* the sequence of the last answer (_send_enrollment_heartbeat).
LEMMA WorkerStep == OneConnection /\ LoopInv /\ WorkerInv /\ [Next]_vars => WorkerInv'
<1> SUFFICES ASSUME OneConnection, LoopInv, WorkerInv, [Next]_vars PROVE WorkerInv'
  OBVIOUS
<1>st. CASE UNCHANGED vars
  BY <1>st DEF vars, local, beat, WorkerInv, Worker
<1>su. CASE Step /\ UNCHANGED setup
  <2>1. ASSUME Issued PROVE WorkerInv'
    BY <1>su, <2>1 DEF Issued, beat, WorkerInv, LoopInv, OnlyPendingAttaches, Worker, Pending
  <2>2. ASSUME ProbeOk PROVE WorkerInv'
    BY <1>su, <2>2 DEF ProbeOk, beat, WorkerInv, Worker
  <2>3. ASSUME ProbeFailed PROVE WorkerInv'
    BY <1>su, <2>3 DEF ProbeFailed, Forget, local, beat, WorkerInv, Worker
  <2>4. ASSUME ProbeExpired PROVE WorkerInv'
    BY <1>su, <2>4 DEF ProbeExpired, Forget, beat, WorkerInv, Worker
  <2>5. ASSUME Renewed PROVE WorkerInv'
    BY <1>su, <2>5 DEF Renewed, beat, WorkerInv, LoopInv, OnlyPendingAttaches, Worker, Pending
  <2>6. ASSUME CallExpired PROVE WorkerInv'
    BY <1>su, <2>6 DEF CallExpired, local, beat, WorkerInv, Worker
  <2>7. ASSUME CallFailed PROVE WorkerInv'
    BY <1>su, <2>7 DEF CallFailed, local, beat, WorkerInv, Worker
  <2>8. ASSUME Answer PROVE WorkerInv'
    BY <1>su, <2>8 DEF Answer, Forget, local, beat, WorkerInv, Worker
  <2>9. ASSUME HandshakeBeat PROVE WorkerInv'
    BY <1>su, <2>9 DEF HandshakeBeat, FirstBeat, Beats, Sent, local, WorkerInv, Worker
  <2>10. ASSUME BeatLost PROVE WorkerInv'
    BY <1>su, <2>10 DEF BeatLost, local, beat, WorkerInv, Worker
  <2>11. ASSUME EndOfInput PROVE WorkerInv'
    BY <1>su, <2>11 DEF EndOfInput, local, beat, WorkerInv, Worker
  <2>12. ASSUME NEW i \in Ids, Local(i) PROVE WorkerInv'
    BY <1>su, <2>12 DEF Local, AnswerLocally, local, beat, WorkerInv, Worker
  <2>13. ASSUME NEW i \in Ids, Again(i) PROVE WorkerInv'
    BY <1>su, <2>13 DEF Again, beat, WorkerInv, Worker
  <2>14. ASSUME NEW i \in Ids, Cancel(i) PROVE WorkerInv'
    BY <1>su, <2>14 DEF Cancel, local, beat, WorkerInv, Worker
  <2>15. ASSUME NEW i \in Ids, NEW o \in AllOps, Unattached(i, o) PROVE WorkerInv'
    BY <1>su, <2>15 DEF Unattached, AnswerLocally, local, beat, WorkerInv, Worker
  <2>16. ASSUME NEW i \in Ids, NEW o \in AllOps, Forward(i, o) PROVE WorkerInv'
    BY <1>su, <2>16 DEF Forward, AnswerLocally, local, beat, WorkerInv, Worker
  <2>17. ASSUME DaemonMain PROVE WorkerInv'
    BY <1>su, <2>17 DEF DaemonMain, local, beat, WorkerInv, Worker
  <2>18. ASSUME DaemonIssue PROVE WorkerInv'
    BY <1>su, <2>18 DEF DaemonIssue, local, beat, WorkerInv, Worker
  <2>19. ASSUME PeriodicBeat PROVE WorkerInv'
    BY <1>su, <2>19 DEF PeriodicBeat, Beats, Sent, local, WorkerInv, Worker
  <2>20. ASSUME OtherBeat PROVE WorkerInv'
    BY <1>su, <2>20 DEF OtherBeat, local, WorkerInv, Worker
  <2>21. ASSUME NEW i \in Ids, DaemonTask(i) PROVE WorkerInv'
    BY <1>su, <2>21 DEF DaemonTask, local, beat, WorkerInv, Worker
  <2>22. ASSUME NEW i \in Ids, RelayExpired(i) PROVE WorkerInv'
    BY <1>su, <2>22 DEF RelayExpired, local, beat, WorkerInv, Worker
  <2>23. ASSUME NEW i \in Ids, Relayed(i) PROVE WorkerInv'
    BY <1>su, <2>23 DEF Relayed, Forget, local, beat, WorkerInv, Worker
  <2>24. ASSUME NEW i \in Ids, Listened(i) PROVE WorkerInv'
    BY <1>su, <2>24 DEF Listened, local, beat, WorkerInv, Worker
  <2>25. ASSUME NEW g \in 1 .. MaxIssue, Expire(g) PROVE WorkerInv'
    BY <1>su, <2>25 DEF Expire, local, beat, WorkerInv, Worker
  <2> QED BY <1>su, <2>1, <2>2, <2>3, <2>4, <2>5, <2>6, <2>7, <2>8, <2>9, <2>10, <2>11, <2>12,
    <2>13, <2>14, <2>15, <2>16, <2>17, <2>18, <2>19, <2>20, <2>21, <2>22, <2>23, <2>24, <2>25
    DEF Step, Loop, Input
<1> QED BY <1>st, <1>su DEF Next

----------------------------------------------------------------------------
(* Responses.                                                                *)

\* A step without a response keeps the budget of responses, whatever it ends.
LEMMA NothingAnswered ==
  ASSUME TypeOK, AnswerInv, UNCHANGED <<sent, answered, cut>>,
         main'.id = main.id \/ main'.id = "none",
         \A i \in Ids : task[i] = NoRequest => task'[i] = NoRequest
  PROVE  Answers
<1>1. AnswerBudget'
  BY BridgeAssumption DEF TypeOK, TaskType, AnswerInv, AnswerBudget, ByLoop, ByTask
<1>2. CancelledIsOver'
  BY BridgeAssumption DEF TypeOK, TaskType, AnswerInv, CancelledIsOver
<1>3. AnsweredOnce
  BY DEF TypeOK, TaskType, AnswerInv, AnswerBudget, ByLoop, ByTask, AnsweredOnce
<1> QED
  BY <1>1, <1>2, <1>3 DEF Answers, AnswerInv

\* The read loop's response is paid by the request that it took.
LEMMA LoopAnswered ==
  ASSUME TypeOK, AnswerInv, main.id \in Ids, Write(main.id), UNCHANGED <<sent, cut>>,
         main' = NoMain, \A i \in Ids : task[i] = NoRequest => task'[i] = NoRequest
  PROVE  Answers
<1>1. answered' = [answered EXCEPT ![main.id] = @ + 1] /\ main'.id \notin Ids
  BY BridgeAssumption DEF Write, NoMain
<1>2. ASSUME NEW i \in Ids PROVE answered'[i] + ByLoop(i)' + ByTask(i)' <= sent'[i]
  BY <1>1 DEF TypeOK, TaskType, AnswerInv, AnswerBudget, ByLoop, ByTask
<1>3. CancelledIsOver' /\ main.id \notin cut
  BY <1>1 DEF TypeOK, TaskType, AnswerInv, CancelledIsOver
<1>4. ASSUME NEW i \in Ids PROVE answered'[i] \in Nat /\ (i \in cut => answered'[i] = answered[i])
  BY <1>1, <1>3 DEF TypeOK, TaskType
<1>5. AnsweredOnce
  BY <1>2, <1>4 DEF AnsweredOnce, ByLoop, ByTask, TypeOK, TaskType
<1> QED
  BY <1>2, <1>3, <1>5 DEF Answers, AnswerInv, AnswerBudget

\* A task's response is paid by the request that started it, and a task answers once.
LEMMA TaskAnswered ==
  ASSUME TypeOK, AnswerInv, NEW i \in Ids, task[i] # NoRequest, Done(i),
         UNCHANGED <<sent, cut, main>>
  PROVE  Answers
<1>1. /\ answered' = [answered EXCEPT ![i] = @ + 1]
      /\ task' = [task EXCEPT ![i] = NoRequest]
  BY DEF Done, Write
<1>2. ASSUME NEW j \in Ids PROVE answered'[j] + ByLoop(j)' + ByTask(j)' <= sent'[j]
  BY <1>1 DEF TypeOK, TaskType, AnswerInv, AnswerBudget, ByLoop, ByTask
<1>3. CancelledIsOver' /\ i \notin cut
  BY <1>1 DEF TypeOK, TaskType, AnswerInv, CancelledIsOver
<1>4. ASSUME NEW j \in Ids PROVE answered'[j] \in Nat /\ (j \in cut => answered'[j] = answered[j])
  BY <1>1, <1>3 DEF TypeOK, TaskType
<1>5. AnsweredOnce
  BY <1>2, <1>4 DEF AnsweredOnce, ByLoop, ByTask, TypeOK, TaskType
<1> QED
  BY <1>2, <1>3, <1>5 DEF Answers, AnswerInv, AnswerBudget

\* A new request pays for one response: at once, from the read loop, or from a task.
LEMMA RequestReceived ==
  ASSUME TypeOK, LoopInv, AnswerInv, NEW i \in Ids, NEW o, Receive(i, o), cut' = cut,
         \/ Write(i) /\ UNCHANGED <<main, task>>
         \/ main'.id = i /\ UNCHANGED <<answered, task>>
         \/ /\ task[i] = NoRequest /\ UNCHANGED <<answered, main>>
            /\ \A j \in Ids \ {i} : task'[j] = task[j]
  PROVE  Answers
<1>0. main.id \notin Ids
  BY BridgeAssumption DEF Receive, LoopInv, Idle, NoMain
<1>1. /\ sent' = [sent EXCEPT ![i] = @ + 1]
      /\ sent[i] = 0 \/ task[i] # NoRequest
      /\ Write(i) => answered' = [answered EXCEPT ![i] = @ + 1]
  BY DEF Receive, Write
<1>2. ASSUME NEW j \in Ids PROVE answered'[j] + ByLoop(j)' + ByTask(j)' <= sent'[j]
  BY <1>0, <1>1 DEF TypeOK, TaskType, AnswerInv, AnswerBudget, ByLoop, ByTask
<1>3. i \notin cut
  BY <1>1 DEF TypeOK, TaskType, AnswerInv, CancelledIsOver
<1>4. CancelledIsOver'
  BY <1>0, <1>1, <1>3 DEF TypeOK, TaskType, AnswerInv, CancelledIsOver
<1>5. ASSUME NEW j \in Ids
      PROVE answered'[j] \in Nat /\ sent'[j] \in Nat /\ (j \in cut => answered'[j] = answered[j])
  BY <1>1, <1>3 DEF TypeOK, TaskType
<1>6. AnsweredOnce
  BY <1>2, <1>5 DEF AnsweredOnce, ByLoop, ByTask
<1> QED
  BY <1>2, <1>4, <1>6 DEF Answers, AnswerInv, AnswerBudget

\* Every step keeps the budget of responses, and makes at most one that a request pays for; none
\* is for a request whose cancellation was handled.
LEMMA AnswerStep == TypeOK /\ LoopInv /\ AnswerInv /\ [Next]_vars => Answers
<1> SUFFICES ASSUME TypeOK, LoopInv, AnswerInv, [Next]_vars PROVE Answers
  OBVIOUS
<1>r. pc = "read" => main.id \notin Ids
  BY BridgeAssumption DEF LoopInv, Idle, NoMain
<1>st. CASE UNCHANGED vars
  BY <1>st, NothingAnswered DEF vars, client
<1>su. CASE Step /\ UNCHANGED setup
  <2>1. ASSUME Issued PROVE Answers
    <3>1. Write(main.id) /\ main' = NoMain /\ UNCHANGED <<sent, cut>> /\ main.id \in Ids
      BY <2>1 DEF Issued, ToRead, client, LoopInv, Taken
    <3>2. \A i \in Ids : task[i] = NoRequest => task'[i] = NoRequest
      BY <2>1 DEF Issued
    <3> QED
      BY <3>1, <3>2, LoopAnswered
  <2>2. ASSUME ProbeOk PROVE Answers
    <3>1. CASE att # 0
      BY <2>2, <3>1, LoopAnswered DEF ProbeOk, ToRead, client, LoopInv, Taken
    <3>2. CASE att = 0
      BY <2>2, <3>2, NothingAnswered DEF ProbeOk, ToRead, client, NoMain
    <3> QED BY <3>1, <3>2
  <2>3. ASSUME ProbeFailed PROVE Answers
    <3>1. Write(main.id) /\ main' = NoMain /\ UNCHANGED <<sent, cut>> /\ main.id \in Ids
      BY <2>3 DEF ProbeFailed, Leave, ToRead, client, LoopInv, Taken
    <3>2. \A i \in Ids : task[i] = NoRequest => task'[i] = NoRequest
      BY <2>3 DEF ProbeFailed, Leave
    <3> QED
      BY <3>1, <3>2, LoopAnswered
  <2>4. ASSUME ProbeExpired PROVE Answers
    <3>1. CASE Pending /\ att # 0
      BY <2>4, <3>1, NothingAnswered DEF ProbeExpired, client, TypeOK, LoopType
    <3>2. CASE ~(Pending /\ att # 0)
      <4>1. Write(main.id) /\ main' = NoMain /\ UNCHANGED <<sent, cut>> /\ main.id \in Ids
        BY <2>4, <3>2 DEF ProbeExpired, ToRead, Leave, client, LoopInv, Taken
      <4>2. \A i \in Ids : task[i] = NoRequest => task'[i] = NoRequest
        BY <2>4, <3>2 DEF ProbeExpired, Leave
      <4> QED
        BY <4>1, <4>2, LoopAnswered
    <3> QED BY <3>1, <3>2
  <2>5. ASSUME Renewed PROVE Answers
    <3>1. Write(main.id) /\ main' = NoMain /\ UNCHANGED <<sent, cut>> /\ main.id \in Ids
      BY <2>5 DEF Renewed, ToRead, client, LoopInv, Taken
    <3>2. \A i \in Ids : task[i] = NoRequest => task'[i] = NoRequest
      BY <2>5 DEF Renewed
    <3> QED
      BY <3>1, <3>2, LoopAnswered
  <2>6. ASSUME CallExpired PROVE Answers
    <3>1. Write(main.id) /\ main' = NoMain /\ UNCHANGED <<sent, cut>> /\ main.id \in Ids
      BY <2>6 DEF CallExpired, ToRead, Leave, client, LoopInv, Taken
    <3>2. \A i \in Ids : task[i] = NoRequest => task'[i] = NoRequest
      BY <2>6 DEF CallExpired, Leave
    <3> QED
      BY <3>1, <3>2, LoopAnswered
  <2>7. ASSUME CallFailed PROVE Answers
    <3>1. Write(main.id) /\ main' = NoMain /\ UNCHANGED <<sent, cut>> /\ main.id \in Ids
      BY <2>7 DEF CallFailed, Leave, client, LoopInv, Taken
    <3>2. \A i \in Ids : task[i] = NoRequest => task'[i] = NoRequest
      BY <2>7 DEF CallFailed, Leave
    <3> QED
      BY <3>1, <3>2, LoopAnswered
  <2>8. ASSUME Answer PROVE Answers
    <3>1. Write(main.id) /\ main' = NoMain /\ UNCHANGED <<sent, cut>> /\ main.id \in Ids
      BY <2>8 DEF Answer, Leave, ToRead, client, LoopInv, Taken
    <3>2. \A i \in Ids : task[i] = NoRequest => task'[i] = NoRequest
      BY <2>8 DEF Answer, Leave
    <3> QED
      BY <3>1, <3>2, LoopAnswered
  <2>9. ASSUME HandshakeBeat PROVE Answers
    <3>1. Write(main.id) /\ main' = NoMain /\ UNCHANGED <<sent, cut>> /\ main.id \in Ids
      BY <2>9 DEF HandshakeBeat, ToRead, Leave, client, LoopInv, Taken
    <3>2. \A i \in Ids : task[i] = NoRequest => task'[i] = NoRequest
      BY <2>9 DEF HandshakeBeat, Leave
    <3> QED
      BY <3>1, <3>2, LoopAnswered
  <2>10. ASSUME BeatLost PROVE Answers
    BY <2>10, NothingAnswered DEF BeatLost, Leave, NoMain, client
  <2>11. ASSUME EndOfInput PROVE Answers
    BY <2>11, NothingAnswered DEF EndOfInput, Leave, NoMain, client
  <2>12. ASSUME NEW i \in Ids, Local(i) PROVE Answers
    BY <2>12, RequestReceived DEF Local, AnswerLocally
  <2>13. ASSUME NEW i \in Ids, Again(i) PROVE Answers
    <3>1. Receive(i, "start") /\ cut' = cut /\ main'.id = i /\ UNCHANGED <<answered, task>>
      BY <2>13 DEF Again, Await
    <3> QED BY <3>1, RequestReceived
  <2>14. ASSUME NEW i \in Ids, Cancel(i) PROVE Answers
    <3>1. /\ task' = [task EXCEPT ![i] = NoRequest] /\ cut' = cut \cup {i}
          /\ task[i] # NoRequest /\ pc = "read" /\ UNCHANGED <<sent, answered, main>>
      BY <2>14 DEF Cancel
    <3>2. main.id \notin Ids /\ sent[i] > 0
      BY <3>1, <1>r DEF TypeOK, TaskType, AnswerInv, AnswerBudget, ByLoop, ByTask
    <3>3. AnswerBudget'
      BY <3>1 DEF TypeOK, TaskType, AnswerInv, AnswerBudget, ByLoop, ByTask
    <3>4. CancelledIsOver'
      BY <3>1, <3>2 DEF TypeOK, TaskType, AnswerInv, CancelledIsOver
    <3>5. AnsweredOnce
      BY <3>1 DEF TypeOK, TaskType, AnswerInv, AnswerBudget, ByLoop, ByTask, AnsweredOnce
    <3> QED BY <3>3, <3>4, <3>5 DEF Answers, AnswerInv
  <2>15. ASSUME NEW i \in Ids, NEW o \in AllOps, Unattached(i, o) PROVE Answers
    <3>1. /\ Receive(i, o) /\ cut' = cut
          /\ \/ Write(i) /\ UNCHANGED <<main, task>>
             \/ main'.id = i /\ UNCHANGED <<answered, task>>
      BY <2>15 DEF Unattached, AnswerLocally, Await
    <3> QED BY <3>1, RequestReceived
  <2>16. ASSUME NEW i \in Ids, NEW o \in AllOps, Forward(i, o) PROVE Answers
    <3>1. Receive(i, o) /\ cut' = cut
      BY <2>16, ForwardCases DEF Forward
    <3>2. CASE task[i] # NoRequest
      BY <2>16, <3>1, <3>2, RequestReceived DEF Forward, AnswerLocally
    <3>3. CASE task[i] = NoRequest /\ o \in TaskOps
      <4>1. UNCHANGED <<main, answered>> /\ \A j \in Ids \ {i} : task'[j] = task[j]
        BY <2>16, <3>3 DEF Forward, TypeOK, TaskType
      <4> QED
        BY <3>1, <3>3, <4>1, RequestReceived
    <3>4. CASE task[i] = NoRequest /\ o \notin TaskOps
      <4>1. main'.id = i /\ UNCHANGED <<answered, task>>
        BY <2>16, <3>4 DEF Forward, Await
      <4> QED
        BY <3>1, <4>1, RequestReceived
    <3> QED BY <3>2, <3>3, <3>4
  <2>17. ASSUME DaemonMain PROVE Answers
    BY <2>17, NothingAnswered DEF DaemonMain, client, TypeOK, LoopType
  <2>18. ASSUME DaemonIssue PROVE Answers
    BY <2>18, NothingAnswered DEF DaemonIssue, client, TypeOK, LoopType
  <2>19. ASSUME PeriodicBeat PROVE Answers
    BY <2>19, NothingAnswered DEF PeriodicBeat, client
  <2>20. ASSUME OtherBeat PROVE Answers
    BY <2>20, NothingAnswered DEF OtherBeat, client
  <2>21. ASSUME NEW i \in Ids, DaemonTask(i) PROVE Answers
    BY <2>21, NothingAnswered DEF DaemonTask, client, NoRequest, TypeOK, TaskType
  <2>22. ASSUME NEW i \in Ids, RelayExpired(i) PROVE Answers
    BY <2>22, TaskAnswered DEF RelayExpired, client, NoRequest
  <2>23. ASSUME NEW i \in Ids, Relayed(i) PROVE Answers
    <3>1. task[i].ph \in {"ok", "err", "lost"} /\ Done(i) /\ UNCHANGED <<client, main>>
      BY <2>23 DEF Relayed
    <3>2. task[i] # NoRequest
      BY <3>1 DEF NoRequest
    <3> QED BY <3>1, <3>2, TaskAnswered DEF client
  <2>24. ASSUME NEW i \in Ids, Listened(i) PROVE Answers
    BY <2>24, TaskAnswered DEF Listened, client, NoRequest
  <2>25. ASSUME NEW g \in 1 .. MaxIssue, Expire(g) PROVE Answers
    BY <2>25, NothingAnswered DEF Expire, client
  <2> QED BY <1>su, <2>1, <2>2, <2>3, <2>4, <2>5, <2>6, <2>7, <2>8, <2>9, <2>10, <2>11, <2>12,
    <2>13, <2>14, <2>15, <2>16, <2>17, <2>18, <2>19, <2>20, <2>21, <2>22, <2>23, <2>24, <2>25
    DEF Step, Loop, Input
<1> QED BY <1>st, <1>su DEF Next

----------------------------------------------------------------------------
(* The read loop alone.                                                      *)

\* Without tasks nothing changes the attachment while the read loop awaits an answer, and the only
\* request without a response is the one it works on.
LEMMA AloneStep ==
  TypeOK /\ OneConnection /\ LoopInv /\ WorkerInv /\ AloneInv /\ [Next]_vars => AloneInv'
<1> SUFFICES ASSUME TypeOK, OneConnection, LoopInv, WorkerInv, AloneInv, [Next]_vars PROVE AloneInv'
  OBVIOUS
<1>r. pc = "read" => main.id \notin Ids
  BY BridgeAssumption DEF LoopInv, Idle, NoMain
<1>a. setup' = setup => Alone' = Alone /\ Pending' = Pending /\ Faults' = Faults
  BY DEF Alone, Ops, Pending, Faults
<1>st. CASE UNCHANGED vars
  BY <1>st
  DEF vars, client, local, daemon, AloneInv, Alone, TasksQuiet, OwesOnlyMain, AttachmentHeld,
       RefusedIsInvalid, Reachable, SurvivesExpiry, Pending, Faults, Ops
<1>su. CASE Step /\ UNCHANGED setup
  <2>1. ASSUME Issued PROVE AloneInv'
    BY <1>su, <2>1
    DEF Issued, Write, ToRead, NoMain, client, AloneInv, Alone, TasksQuiet, OwesOnlyMain,
         AttachmentHeld, RefusedIsInvalid, Reachable, SurvivesExpiry, Ops, TypeOK, TaskType
  <2>2. ASSUME ProbeOk PROVE AloneInv'
    BY <1>su, <2>2
    DEF ProbeOk, Write, ToRead, NoMain, client, AloneInv, Alone, TasksQuiet, OwesOnlyMain,
         AttachmentHeld, RefusedIsInvalid, Reachable, SurvivesExpiry, Ops, TypeOK, TaskType
  <2>3. ASSUME ProbeFailed PROVE AloneInv'
    BY <1>su, <2>3
    DEF ProbeFailed, Write, ToRead, NoMain, client, AloneInv, Alone, TasksQuiet, OwesOnlyMain,
         AttachmentHeld, RefusedIsInvalid, Reachable, SurvivesExpiry, Ops, TypeOK, TaskType
  <2>4. ASSUME ProbeExpired PROVE AloneInv'
    BY <1>su, <2>4
    DEF ProbeExpired, Forget, Write, ToRead, NoMain, client, AloneInv, Alone, TasksQuiet,
         OwesOnlyMain, AttachmentHeld, RefusedIsInvalid, Reachable, SurvivesExpiry, Ops, TypeOK,
         LoopType, TaskType
  <2>5. ASSUME Renewed PROVE AloneInv'
    BY <1>su, <2>5
    DEF Renewed, Write, ToRead, NoMain, client, AloneInv, Alone, TasksQuiet, OwesOnlyMain,
         AttachmentHeld, RefusedIsInvalid, Reachable, SurvivesExpiry, Ops, TypeOK, TaskType
  <2>6. ASSUME CallExpired PROVE AloneInv'
    BY <1>su, <2>6
    DEF CallExpired, Write, ToRead, Leave, NoMain, client, AloneInv, Alone, TasksQuiet,
         OwesOnlyMain, AttachmentHeld, RefusedIsInvalid, Reachable, SurvivesExpiry, Pending, Ops,
         TypeOK, TaskType
  <2>7. ASSUME CallFailed PROVE AloneInv'
    BY <1>su, <2>7
    DEF CallFailed, Write, Leave, NoMain, client, AloneInv, Alone, TasksQuiet, OwesOnlyMain,
         AttachmentHeld, RefusedIsInvalid, Reachable, SurvivesExpiry, Pending, Faults, Ops,
         WorkerInv, TypeOK, TaskType
  <2>8. ASSUME Answer PROVE AloneInv'
    BY <1>su, <2>8
    DEF Answer, Write, Leave, ToRead, NoMain, client, AloneInv, Alone, TasksQuiet, OwesOnlyMain,
         AttachmentHeld, RefusedIsInvalid, Reachable, SurvivesExpiry, Pending, Ops, WorkerInv,
         TypeOK, TaskType
  <2>9. ASSUME HandshakeBeat PROVE AloneInv'
    BY <1>su, <2>9
    DEF HandshakeBeat, FirstBeat, Write, ToRead, Leave, NoMain, client, AloneInv, Alone,
         TasksQuiet, OwesOnlyMain, AttachmentHeld, RefusedIsInvalid, Reachable, SurvivesExpiry,
         Pending, Ops, WorkerInv, TypeOK, TaskType
  <2>10. ASSUME BeatLost PROVE AloneInv'
    BY <1>su, <2>10
    DEF BeatLost, Leave, client, AloneInv, Alone, TasksQuiet, OwesOnlyMain, AttachmentHeld,
         RefusedIsInvalid, Reachable, SurvivesExpiry, Pending, Faults, Ops, Worker, LoopInv, Idle,
         WorkerInv
  <2>11. ASSUME EndOfInput PROVE AloneInv'
    BY <1>su, <2>11
    DEF EndOfInput, Leave, client, AloneInv, Alone, TasksQuiet, OwesOnlyMain, AttachmentHeld,
         RefusedIsInvalid, Reachable, SurvivesExpiry, Faults, Ops, LoopInv, Idle
  <2>12. ASSUME NEW i \in Ids, Local(i) PROVE AloneInv'
    BY <1>su, <2>12
    DEF Local, Receive, AnswerLocally, Write, AloneInv, Alone, TasksQuiet, OwesOnlyMain,
         AttachmentHeld, RefusedIsInvalid, Reachable, SurvivesExpiry, Faults, Ops, TypeOK,
         TaskType
  <2>13. ASSUME NEW i \in Ids, Again(i) PROVE AloneInv'
    <3>1. /\ main' = [id |-> i, op |-> "start", tok |-> bearer, ph |-> "sent"]
          /\ pc = "read" /\ pc' = "probe" /\ att # 0 /\ sent' = [sent EXCEPT ![i] = @ + 1]
          /\ UNCHANGED <<setup, task, answered, att, bearer>>
      BY <1>su, <2>13 DEF Again, Receive, Await, local
    <3>2. AloneInv /\ Alone => OwesOnlyMain'
      BY <1>r, <3>1 DEF AloneInv, OwesOnlyMain, TypeOK, TaskType
    <3> QED
      BY <1>a, <3>1, <3>2
      DEF AloneInv, TasksQuiet, AttachmentHeld, RefusedIsInvalid, Reachable, SurvivesExpiry
  <2>14. ASSUME NEW i \in Ids, Cancel(i) PROVE AloneInv'
    BY <1>su, <2>14 DEF Cancel, AloneInv, Alone, TasksQuiet, Ops
  <2>15. ASSUME NEW i \in Ids, NEW o \in AllOps, Unattached(i, o) PROVE AloneInv'
    <3>1. /\ \/ UNCHANGED <<pc, main>> /\ answered' = [answered EXCEPT ![i] = @ + 1]
             \/ /\ pc' = "issue" /\ answered' = answered
                /\ main' = [id |-> i, op |-> o, tok |-> bearer, ph |-> "sent"]
          /\ pc = "read" /\ att = 0 /\ sent' = [sent EXCEPT ![i] = @ + 1]
          /\ UNCHANGED <<setup, task, att, bearer>>
      BY <1>su, <2>15 DEF Unattached, Receive, AnswerLocally, Write, Await, local
    <3>2. AloneInv /\ Alone => OwesOnlyMain'
      BY <1>r, <3>1 DEF AloneInv, OwesOnlyMain, TypeOK, TaskType
    <3>3. Reachable => Reachable'
      BY <1>su, <3>1 DEF Reachable, Faults
    <3>4. Alone /\ AloneInv => TasksQuiet' /\ AttachmentHeld'
      BY <1>a, <3>1 DEF AloneInv, TasksQuiet, AttachmentHeld
    <3>5. RefusedIsInvalid' /\ SurvivesExpiry'
      BY <3>1 DEF RefusedIsInvalid, SurvivesExpiry
    <3> QED
      BY <1>a, <3>1, <3>2, <3>3, <3>4, <3>5 DEF AloneInv
  <2>16. ASSUME NEW i \in Ids, NEW o \in AllOps, Forward(i, o) PROVE AloneInv'
    <3>1. Alone /\ AloneInv =>
            /\ pc' = "call" /\ main' = [id |-> i, op |-> o, tok |-> bearer, ph |-> "sent"]
            /\ UNCHANGED <<task, answered>>
      BY <2>16 DEF Forward, Receive, Await, AloneInv, Alone, TasksQuiet
    <3>2. /\ pc = "read" /\ sent' = [sent EXCEPT ![i] = @ + 1] /\ (Pending => att # 0)
          /\ UNCHANGED <<setup, att, bearer>>
      BY <1>su, <2>16, ForwardCases DEF Forward, Receive
    <3>3. AloneInv /\ Alone => OwesOnlyMain'
      BY <1>r, <3>1, <3>2 DEF AloneInv, OwesOnlyMain, TypeOK, TaskType
    <3>4. Alone /\ AloneInv => TasksQuiet' /\ AttachmentHeld'
      BY <1>a, <3>1, <3>2 DEF AloneInv, TasksQuiet, AttachmentHeld
    <3>5. Alone /\ AloneInv => RefusedIsInvalid' /\ Reachable' /\ SurvivesExpiry'
      BY <3>1 DEF RefusedIsInvalid, Reachable, SurvivesExpiry
    <3> QED
      BY <1>a, <3>2, <3>3, <3>4, <3>5 DEF AloneInv
  <2>17. ASSUME DaemonMain PROVE AloneInv'
    <3>1. /\ main'.id = main.id /\ main'.tok = main.tok /\ main'.op = main.op
          /\ pc \in {"call", "probe"}
          /\ UNCHANGED <<setup, pc, task, sent, answered, att, bearer>>
      BY <1>su, <2>17 DEF DaemonMain, client, local, TypeOK, LoopType
    <3>2. valid' \subseteq valid /\ (main'.ph = "401" => main.tok \notin valid)
      BY <2>17 DEF DaemonMain, Replies, Verdicts, Effect, TypeOK, LoopType
    <3>3. main.op = "close" /\ main'.ph = "ok" => main.tok \notin valid'
      BY <2>17 DEF DaemonMain, Effect, TypeOK, LoopType
    <3>4. "lost" \notin Faults => main'.ph # "lost"
      BY <2>17 DEF DaemonMain, Replies, Verdicts, TypeOK, LoopType
    <3>5. RefusedIsInvalid' /\ Reachable'
      BY <1>su, <3>1, <3>2, <3>3, <3>4 DEF RefusedIsInvalid, Reachable, Faults
    <3> QED
      BY <1>a, <3>1, <3>5
      DEF AloneInv, TasksQuiet, OwesOnlyMain, AttachmentHeld, SurvivesExpiry, Pending
  <2>18. ASSUME DaemonIssue PROVE AloneInv'
    BY <1>su, <2>18
    DEF DaemonIssue, client, local, AloneInv, Alone, TasksQuiet, OwesOnlyMain, AttachmentHeld,
         RefusedIsInvalid, Reachable, SurvivesExpiry, Ops, TypeOK, LoopType
  <2>19. ASSUME PeriodicBeat PROVE AloneInv'
    BY <1>su, <2>19
    DEF PeriodicBeat, client, local, daemon, AloneInv, Alone, TasksQuiet, OwesOnlyMain,
         AttachmentHeld, RefusedIsInvalid, Reachable, SurvivesExpiry, Pending, Faults, Ops
  <2>20. ASSUME OtherBeat PROVE AloneInv'
    BY <1>su, <2>20
    DEF OtherBeat, client, local, daemon, AloneInv, Alone, TasksQuiet, OwesOnlyMain,
         AttachmentHeld, RefusedIsInvalid, Reachable, SurvivesExpiry, Pending, Faults, Ops
  <2>21. ASSUME NEW i \in Ids, DaemonTask(i) PROVE AloneInv'
    <3>1. ~Alone
      BY <2>21 DEF DaemonTask, AloneInv, TasksQuiet, NoRequest
    <3> QED
      BY <1>su, <3>1 DEF AloneInv, Alone, Ops
  <2>22. ASSUME NEW i \in Ids, RelayExpired(i) PROVE AloneInv'
    <3>1. ~Alone
      BY <2>22 DEF RelayExpired, AloneInv, TasksQuiet, NoRequest
    <3> QED
      BY <1>su, <3>1 DEF AloneInv, Alone, Ops
  <2>23. ASSUME NEW i \in Ids, Relayed(i) PROVE AloneInv'
    <3>1. task[i].ph \in {"ok", "err", "lost"}
      BY <2>23 DEF Relayed
    <3>2. ~Alone
      BY <3>1 DEF AloneInv, TasksQuiet, NoRequest
    <3> QED
      BY <1>su, <3>2 DEF AloneInv, Alone, Ops
  <2>24. ASSUME NEW i \in Ids, Listened(i) PROVE AloneInv'
    <3>1. ~Alone
      BY <2>24 DEF Listened, AloneInv, TasksQuiet, NoRequest
    <3> QED
      BY <1>su, <3>1 DEF AloneInv, Alone, Ops
  <2>25. ASSUME NEW g \in 1 .. MaxIssue, Expire(g) PROVE AloneInv'
    BY <1>su, <2>25
    DEF Expire, client, local, AloneInv, Alone, TasksQuiet, OwesOnlyMain, AttachmentHeld,
         RefusedIsInvalid, Reachable, SurvivesExpiry, Pending, Faults, Ops
  <2> QED BY <1>su, <2>1, <2>2, <2>3, <2>4, <2>5, <2>6, <2>7, <2>8, <2>9, <2>10, <2>11, <2>12,
    <2>13, <2>14, <2>15, <2>16, <2>17, <2>18, <2>19, <2>20, <2>21, <2>22, <2>23, <2>24, <2>25
    DEF Step, Loop, Input
<1> QED BY <1>st, <1>su DEF Next

\* Without tasks a ready attachment is given up only when the daemon accepts it no longer or its
\* proof failed (serve_stdio_proxy); a failed heartbeat ends the read loop at its next result.
LEMMA HeldStep ==
  TypeOK /\ OneConnection /\ LoopInv /\ WorkerInv /\ AloneInv /\ [Next]_vars => Held
<1> SUFFICES ASSUME TypeOK, OneConnection, LoopInv, WorkerInv, AloneInv, [Next]_vars PROVE Held
  OBVIOUS
<1>st. CASE UNCHANGED vars
  BY <1>st DEF vars, local, Held, ReadyHolds, BeatFailsClosed
<1>su. CASE Step /\ UNCHANGED setup
  <2>1. ASSUME Issued PROVE Held
    BY <1>su, <2>1 DEF Issued, AloneInv, AttachmentHeld, Held, ReadyHolds, BeatFailsClosed
  <2>2. ASSUME ProbeOk PROVE Held
    BY <1>su, <2>2 DEF ProbeOk, Held, ReadyHolds, BeatFailsClosed
  <2>3. ASSUME ProbeFailed PROVE Held
    BY <1>su, <2>3 DEF ProbeFailed, Held, ReadyHolds, BeatFailsClosed
  <2>4. ASSUME ProbeExpired PROVE Held
    BY <1>su, <2>4 DEF ProbeExpired, Held, ReadyHolds, BeatFailsClosed
  <2>5. ASSUME Renewed PROVE Held
    BY <1>su, <2>5 DEF Renewed, AloneInv, AttachmentHeld, Held, ReadyHolds, BeatFailsClosed
  <2>6. ASSUME CallExpired PROVE Held
    BY <1>su, <2>6
    DEF CallExpired, Leave, AloneInv, AttachmentHeld, RefusedIsInvalid, Held, ReadyHolds,
         BeatFailsClosed, OneConnection, WorkerInv
  <2>7. ASSUME CallFailed PROVE Held
    BY <1>su, <2>7 DEF CallFailed, Leave, local, Held, ReadyHolds, BeatFailsClosed
  <2>8. ASSUME Answer PROVE Held
    BY <1>su, <2>8
    DEF Answer, Leave, local, AloneInv, AttachmentHeld, RefusedIsInvalid, Held, ReadyHolds,
         BeatFailsClosed, OneConnection, WorkerInv
  <2>9. ASSUME HandshakeBeat PROVE Held
    BY <1>su, <2>9 DEF HandshakeBeat, FirstBeat, Held, ReadyHolds, BeatFailsClosed, WorkerInv
  <2>10. ASSUME BeatLost PROVE Held
    BY <1>su, <2>10 DEF BeatLost, Held, ReadyHolds, BeatFailsClosed, WorkerInv
  <2>11. ASSUME EndOfInput PROVE Held
    BY <1>su, <2>11 DEF EndOfInput, local, Held, ReadyHolds, BeatFailsClosed
  <2>12. ASSUME NEW i \in Ids, Local(i) PROVE Held
    BY <1>su, <2>12 DEF Local, AnswerLocally, local, Held, ReadyHolds, BeatFailsClosed
  <2>13. ASSUME NEW i \in Ids, Again(i) PROVE Held
    BY <1>su, <2>13 DEF Again, Await, local, Held, ReadyHolds, BeatFailsClosed
  <2>14. ASSUME NEW i \in Ids, Cancel(i) PROVE Held
    BY <1>su, <2>14 DEF Cancel, AloneInv, TasksQuiet, Held, ReadyHolds, BeatFailsClosed
  <2>15. ASSUME NEW i \in Ids, NEW o \in AllOps, Unattached(i, o) PROVE Held
    BY <1>su, <2>15 DEF Unattached, AnswerLocally, Await, Held, ReadyHolds, BeatFailsClosed
  <2>16. ASSUME NEW i \in Ids, NEW o \in AllOps, Forward(i, o) PROVE Held
    BY <1>su, <2>16 DEF Forward, AnswerLocally, Await, local, Held, ReadyHolds, BeatFailsClosed
  <2>17. ASSUME DaemonMain PROVE Held
    BY <1>su, <2>17 DEF DaemonMain, local, Held, ReadyHolds, BeatFailsClosed
  <2>18. ASSUME DaemonIssue PROVE Held
    BY <1>su, <2>18 DEF DaemonIssue, AloneInv, AttachmentHeld, Held, ReadyHolds, BeatFailsClosed
  <2>19. ASSUME PeriodicBeat PROVE Held
    BY <1>su, <2>19 DEF PeriodicBeat, Held, ReadyHolds, BeatFailsClosed, WorkerInv
  <2>20. ASSUME OtherBeat PROVE Held
    BY <1>su, <2>20 DEF OtherBeat, Held, ReadyHolds, BeatFailsClosed, WorkerInv
  <2>21. ASSUME NEW i \in Ids, DaemonTask(i) PROVE Held
    BY <1>su, <2>21
    DEF DaemonTask, AloneInv, TasksQuiet, Held, ReadyHolds, BeatFailsClosed, NoRequest
  <2>22. ASSUME NEW i \in Ids, RelayExpired(i) PROVE Held
    BY <1>su, <2>22
    DEF RelayExpired, AloneInv, TasksQuiet, Held, ReadyHolds, BeatFailsClosed, NoRequest
  <2>23. ASSUME NEW i \in Ids, Relayed(i) PROVE Held
    <3>1. task[i].ph \in {"ok", "err", "lost"} /\ pc' = pc
      BY <2>23 DEF Relayed
    <3>2. ~Alone
      BY <3>1 DEF AloneInv, TasksQuiet, NoRequest
    <3>3. BeatFailsClosed
      BY <3>1 DEF BeatFailsClosed
    <3> QED
      BY <3>2, <3>3 DEF Held, ReadyHolds
  <2>24. ASSUME NEW i \in Ids, Listened(i) PROVE Held
    BY <1>su, <2>24
    DEF Listened, AloneInv, TasksQuiet, Held, ReadyHolds, BeatFailsClosed, NoRequest
  <2>25. ASSUME NEW g \in 1 .. MaxIssue, Expire(g) PROVE Held
    BY <1>su, <2>25 DEF Expire, local, Held, ReadyHolds, BeatFailsClosed
  <2> QED BY <1>su, <2>1, <2>2, <2>3, <2>4, <2>5, <2>6, <2>7, <2>8, <2>9, <2>10, <2>11, <2>12,
    <2>13, <2>14, <2>15, <2>16, <2>17, <2>18, <2>19, <2>20, <2>21, <2>22, <2>23, <2>24, <2>25
    DEF Step, Loop, Input
<1> QED BY <1>st, <1>su DEF Next

----------------------------------------------------------------------------
(* The theorems.                                                             *)

\* A bridge is started without requests; one that is not pending has its credential by then.
LEMMA BridgeInit == Init => BridgeInv
<1> SUFFICES ASSUME Init PROVE BridgeInv
  OBVIOUS
<1>0. MaxIssue \in Nat \ {0}
  BY BridgeAssumption DEF Init, MaxIssue
<1>1. LoopType /\ TaskType /\ BeatType
  BY DEF Init, LoopType, TaskType, BeatType, NoMain, NoRequest, Phases
<1>2. CredentialType
  BY <1>0 DEF Init, CredentialType, Pending
<1>3. OneConnection /\ LoopInv
  BY BridgeAssumption
  DEF Init, OneConnection, Worker, Pending, LoopInv, Idle, Taken, OnlyPendingAttaches, Newest
<1>4. ProofInv
  BY DEF Init, ProofInv, ForwardedUnderProof, RejectedGivenUp, DegradedWasProven,
       AttachedUnderProof, RefusedWereProven, MarkProven, Pending
<1>5. AnswerInv
  BY BridgeAssumption DEF Init, AnswerInv, AnswerBudget, CancelledIsOver, ByLoop, ByTask, NoMain
<1>6. WorkerInv
  BY DEF Init, WorkerInv, Worker
<1>7. AloneInv
  BY DEF Init, AloneInv, TasksQuiet, OwesOnlyMain, AttachmentHeld, RefusedIsInvalid, Reachable,
       SurvivesExpiry, NoMain
<1> QED
  BY <1>1, <1>2, <1>3, <1>4, <1>5, <1>6, <1>7 DEF Init, BridgeInv, ShapeInv, TypeOK

\* Every step of the bridge and its daemon keeps the invariant, and is one that NoSecondAnswer allows.
LEMMA BridgeStep ==
  BridgeInv /\ [Next]_vars => BridgeInv' /\ AnsweredOnce /\ ReadyHolds /\ BeatFailsClosed
<1> SUFFICES ASSUME BridgeInv, [Next]_vars
             PROVE  BridgeInv' /\ AnsweredOnce /\ ReadyHolds /\ BeatFailsClosed
  OBVIOUS
<1>1. /\ TypeOK /\ OneConnection /\ LoopInv /\ ProofInv /\ AnswerInv /\ WorkerInv /\ AloneInv
      /\ Taken /\ Newest
  BY DEF BridgeInv, ShapeInv, LoopInv
<1>2. (setup \in Setups)'
  BY <1>1 DEF TypeOK, Next, vars
<1>3. TypeOK'
  BY <1>1, <1>2, LoopTypeStep, TaskTypeStep, CredentialTypeStep, BeatTypeStep DEF TypeOK
<1>4. OneConnection' /\ LoopInv' /\ ProofInv'
  BY <1>1, ConnectionStep, LoopStep, ProofStep
<1>5. AnswerInv' /\ AnsweredOnce
  BY <1>1, AnswerStep DEF Answers
<1>6. WorkerInv' /\ AloneInv'
  BY <1>1, WorkerStep, AloneStep
<1>7. ReadyHolds /\ BeatFailsClosed
  BY <1>1, HeldStep DEF Held
<1> QED
  BY <1>3, <1>4, <1>5, <1>6, <1>7 DEF BridgeInv, ShapeInv

\* BridgeInv is an invariant of the bridge.
THEOREM BridgeInvariant == Spec => []BridgeInv
<1>1. Init => BridgeInv
  BY BridgeInit
<1>2. BridgeInv /\ [Next]_vars => BridgeInv'
  BY BridgeStep
<1> QED
  BY <1>1, <1>2, PTL DEF Spec

\* Nothing but cao_start reaches the daemon from a pending bridge without a proven credential, one
\* that was refused is not used again, and "ready" without a fresh proof is of a proven connection.
THEOREM CredentialIsProven == Spec => []CredentialProven
<1>1. BridgeInv => CredentialProven
  BY DEF BridgeInv, ShapeInv, ProofInv, CredentialProven
<1> QED
  BY <1>1, BridgeInvariant, PTL

\* The read loop of a bridge without tasks, back at its input, has answered every request, and no
\* expired credential ends it.
THEOREM RequestsAreAnswered == Spec => []EveryRequestAnswered
<1>1. ASSUME BridgeInv PROVE LoopAnswers
  <2>1. pc = "read" => main.id \notin Ids
    BY <1>1, BridgeAssumption DEF BridgeInv, ShapeInv, LoopInv, Idle, NoMain
  <2> QED
    BY <1>1, <2>1 DEF BridgeInv, AloneInv, OwesOnlyMain, LoopAnswers
<1>2. BridgeInv => SurvivesExpiry
  BY DEF BridgeInv, AloneInv, SurvivesExpiry
<1>3. BridgeInv => EveryRequestAnswered
  BY <1>1, <1>2 DEF EveryRequestAnswered
<1> QED
  BY <1>3, BridgeInvariant, PTL

\* No request is answered twice or after its cancellation, a read loop without tasks keeps a ready
\* attachment, and a Worker whose heartbeat failed gets no further result.
THEOREM AnsweredOnlyOnce == Spec => NoSecondAnswer
<1>1. BridgeInv /\ [Next]_vars => [AnsweredOnce /\ ReadyHolds /\ BeatFailsClosed]_vars
  BY BridgeStep
<1> QED
  BY <1>1, BridgeInvariant, PTL DEF Spec, NoSecondAnswer
===============================================================================
