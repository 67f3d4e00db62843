------------------------ MODULE WorkerDeliveryProofs ------------------------
(***************************************************************************)
(* Proofs about WorkerDelivery for every number of Dispatchers, messages,  *)
(* tickets, jobs and attempts: first its types, fences and launch          *)
(* authority, then what is submitted to the provider, then the order of    *)
(* the lane.                                                               *)
(*                                                                         *)
(* Every step is first reduced to what it does to the delivery rows and to *)
(* the job fences, and to a transaction on the launch authority (StepOK);  *)
(* type correctness, the uniqueness of fences and the launch authority     *)
(* follow from that.                                                       *)
(***************************************************************************)
EXTENDS WorkerDelivery, TLAPS, FiniteSetTheorems

\* What a step may do to one row: never forget it, never lower its fencing
\* generation, and put it back in the queue only at a new generation.
RowAdvances(r, s) ==
    \/ r.st = "none"
    \/ /\ s.st # "none"
       /\ s.gen >= r.gen
       /\ s.st = "queued" => s.gen > r.gen \/ (r.st = "queued" /\ s.gen = r.gen)

RowsAdvance == \A m \in Msgs : RowAdvances(rows[m], rows'[m])

\* What a step other than a claim may do to the jobs: drop some, or move one
\* on without touching its fence.
JobsKeepFence ==
    \/ jobs' \subseteq jobs
    \/ \E j \in jobs, k \in Job : /\ k.m = j.m /\ k.g = j.g
                                  /\ jobs' = (jobs \ {j}) \cup {k}

\* What every step but a claim is shown to do.
StepOK == TypeOK' /\ RowsAdvance /\ JobsKeepFence /\ AuthorityInv'

\* A job's fence is a generation its row has had, and has left if the row is
\* queued again.
FenceBound ==
    \A j \in jobs : /\ rows[j.m].st # "none"
                    /\ j.g <= rows[j.m].gen
                    /\ rows[j.m].st = "queued" => j.g < rows[j.m].gen

FenceInv == FenceUnique /\ FenceBound
IndInv == TypeOK /\ FenceInv /\ AuthorityInv

-----------------------------------------------------------------------------
(* The row helpers.                                                        *)

\* A row stays a row when one column is written.
LEMMA RowColumns ==
    ASSUME NEW r \in Row
    PROVE  /\ \A x \in RowStates : [r EXCEPT !.st = x] \in Row
           /\ \A x \in Nat : [r EXCEPT !.gen = x] \in Row
           /\ \A x \in Nat : [r EXCEPT !.tries = x] \in Row
           /\ \A x \in Disp \cup {NoOwner} : [r EXCEPT !.own = x] \in Row
           /\ \A x \in {"terminal", "retryable"} : [r EXCEPT !.pol = x] \in Row
           /\ \A x \in BOOLEAN : [r EXCEPT !.limited = x] \in Row
BY DEF Row

\* A row put back in the queue is a row, at a new fencing generation.
LEMMA RowRequeued ==
    ASSUME NEW r \in Row
    PROVE  Requeued(r) \in Row /\ RowAdvances(r, Requeued(r))
<1> DEFINE s == [r EXCEPT !.st = "queued"]
<1> DEFINE u == [s EXCEPT !.gen = @ + 1]
<1>1. s \in Row
  BY RowColumns DEF RowStates, Open
<1>2. s.gen + 1 \in Nat
  BY <1>1 DEF Row
<1>3. u \in Row
  BY <1>1, <1>2, RowColumns
<1>4. [u EXCEPT !.own = NoOwner] \in Row
  BY <1>3, RowColumns
<1>5. Requeued(r) \in Row
  BY <1>4 DEF Requeued
<1>6. RowAdvances(r, Requeued(r))
  BY SMT DEF Row, Requeued, RowAdvances
<1> QED BY <1>5, <1>6

CloseStates == {"dead", "handled", "delivered", "acknowledged", "dispatched"}

\* A row that leaves its owner for a state past the queue is a row and advances.
LEMMA RowClosed ==
    ASSUME NEW r \in Row, NEW st \in CloseStates
    PROVE  Closed(r, st) \in Row /\ RowAdvances(r, Closed(r, st))
<1> DEFINE s == [r EXCEPT !.st = st]
<1>1. s \in Row
  BY RowColumns DEF RowStates, Open, CloseStates
<1>2. [s EXCEPT !.own = NoOwner] \in Row
  BY <1>1, RowColumns
<1>3. Closed(r, st) \in Row
  BY <1>2 DEF Closed
<1>4. RowAdvances(r, Closed(r, st))
  BY SMT DEF Row, Closed, RowAdvances, CloseStates
<1> QED BY <1>3, <1>4

\* Writing the replay policy keeps a row and its generation.
LEMMA RowPolicy ==
    ASSUME NEW r \in Row, NEW s \in Row, RowAdvances(r, s),
           NEW x \in {"terminal", "retryable"}
    PROVE  [s EXCEPT !.pol = x] \in Row /\ RowAdvances(r, [s EXCEPT !.pol = x])
<1>1. [s EXCEPT !.pol = x] \in Row
  BY RowColumns
<1>2. RowAdvances(r, [s EXCEPT !.pol = x])
  BY SMT DEF Row, RowAdvances
<1> QED BY <1>1, <1>2

\* Writing the rate-limit mark keeps a row and its generation.
LEMMA RowLimited ==
    ASSUME NEW r \in Row, NEW s \in Row, RowAdvances(r, s), NEW x \in BOOLEAN
    PROVE  [s EXCEPT !.limited = x] \in Row /\ RowAdvances(r, [s EXCEPT !.limited = x])
<1>1. [s EXCEPT !.limited = x] \in Row
  BY RowColumns
<1>2. RowAdvances(r, [s EXCEPT !.limited = x])
  BY SMT DEF Row, RowAdvances
<1> QED BY <1>1, <1>2

\* A row parked as terminally dead is a row and only advances.
LEMMA RowDeadTerminal ==
    ASSUME NEW r \in Row
    PROVE  DeadTerminal(r) \in Row /\ RowAdvances(r, DeadTerminal(r))
BY RowClosed, RowPolicy DEF DeadTerminal, CloseStates

\* Spending an attempt keeps a row and its generation.
LEMMA RowSpent ==
    ASSUME NEW r \in Row, NEW s \in Row, RowAdvances(r, s)
    PROVE  Spent(s) \in Row /\ RowAdvances(r, Spent(s))
<1> DEFINE u == [s EXCEPT !.tries = @ + 1]
<1>1. s.tries + 1 \in Nat
  BY DEF Row
<1>2. u \in Row
  BY <1>1, RowColumns
<1>3. [u EXCEPT !.limited = FALSE] \in Row
  BY <1>2, RowColumns
<1>4. Spent(s) \in Row
  BY <1>3 DEF Spent
<1>5. RowAdvances(r, Spent(s))
  BY SMT DEF Row, Spent, RowAdvances
<1> QED BY <1>4, <1>5

\* _finish_delivery keeps a row: dead at its generation, or queued at the
\* next.
LEMMA RowFinished ==
    ASSUME NEW r \in Row
    PROVE  FinishRow(r) \in Row /\ RowAdvances(r, FinishRow(r))
<1>1. /\ Spent(Closed(r, "dead")) \in Row
      /\ RowAdvances(r, Spent(Closed(r, "dead")))
  BY RowClosed, RowSpent DEF CloseStates
<1>2. Spent(Requeued(r)) \in Row /\ RowAdvances(r, Spent(Requeued(r)))
  BY RowRequeued, RowSpent
<1>3. CASE r.tries + 1 >= MaxAttempts
  BY <1>1, <1>3, RowPolicy DEF FinishRow
<1>4. CASE ~(r.tries + 1 >= MaxAttempts)
  BY <1>2, <1>4, RowPolicy DEF FinishRow
<1> QED BY <1>3, <1>4

\* A row that is left alone advances trivially.
LEMMA RowReflexive ==
    ASSUME NEW r \in Row
    PROVE  RowAdvances(r, r)
BY SMT DEF Row, RowAdvances

\* A handler that sets one row sets it to a row that advances it.
LEMMA SetRowFrame ==
    ASSUME TypeOK, NEW m \in Msgs, NEW r \in Row, SetRow(m, r),
           RowAdvances(rows[m], r)
    PROVE  rows' \in [Msgs -> Row] /\ RowsAdvance
BY RowReflexive, SMT DEF TypeOK, SetRow, RowsAdvance

\* A step that writes no row keeps the rows well typed and advancing.
LEMMA UnchangedRowsFrame ==
    ASSUME TypeOK, UNCHANGED rows
    PROVE  rows' \in [Msgs -> Row] /\ RowsAdvance
BY RowReflexive, SMT DEF TypeOK, RowsAdvance

\* _finish_delivery of any job keeps the rows well typed and advancing.
LEMMA FinishDeliveryFrame ==
    ASSUME TypeOK, NEW j \in jobs, FinishDelivery(j)
    PROVE  rows' \in [Msgs -> Row] /\ RowsAdvance
<1>1. j.m \in Msgs /\ rows[j.m] \in Row
  BY SMT DEF TypeOK, Job
<1>2. CASE Owns(j, "leased")
  BY <1>1, <1>2, RowFinished, SetRowFrame DEF FinishDelivery
<1>3. CASE ~Owns(j, "leased")
  BY <1>3, UnchangedRowsFrame DEF FinishDelivery
<1> QED BY <1>2, <1>3

\* Deferring any job's delivery keeps the rows well typed and advancing.
LEMMA DeferDeliveryFrame ==
    ASSUME TypeOK, NEW j \in jobs, NEW limited \in BOOLEAN, DeferDelivery(j, limited)
    PROVE  rows' \in [Msgs -> Row] /\ RowsAdvance
<1>1. j.m \in Msgs /\ rows[j.m] \in Row
  BY SMT DEF TypeOK, Job
<1> DEFINE r == [Requeued(rows[j.m]) EXCEPT !.limited = limited]
<1>2. r \in Row /\ RowAdvances(rows[j.m], r)
  BY <1>1, RowRequeued, RowLimited
<1>3. CASE Owns(j, "leased")
  BY <1>1, <1>2, <1>3, SetRowFrame DEF DeferDelivery
<1>4. CASE ~Owns(j, "leased")
  BY <1>4, UnchangedRowsFrame DEF DeferDelivery
<1> QED BY <1>3, <1>4

\* A job that moves on keeps its fence; a job that ends drops it.
LEMMA StepFrame ==
    ASSUME TypeOK, NEW j \in jobs, NEW k \in Job, k.m = j.m, k.g = j.g,
           jobs' = (jobs \ {j}) \cup {k}
    PROVE  jobs' \subseteq Job /\ JobsKeepFence
BY DEF TypeOK, JobsKeepFence

\* A job stays a job when one of its fields is written.
LEMMA JobColumns ==
    ASSUME NEW j \in Job
    PROVE  /\ \A x \in Phases : /\ [j EXCEPT !.ph = x] \in Job
                               /\ [j EXCEPT !.ph = x].m = j.m /\ [j EXCEPT !.ph = x].g = j.g
           /\ \A x \in Results : /\ [j EXCEPT !.res = x] \in Job
                                /\ [j EXCEPT !.res = x].m = j.m /\ [j EXCEPT !.res = x].g = j.g
           /\ \A x \in 0 .. MaxTickets : /\ [j EXCEPT !.t = x] \in Job
                                /\ [j EXCEPT !.t = x].m = j.m /\ [j EXCEPT !.t = x].g = j.g
           /\ \A x \in BOOLEAN : /\ [j EXCEPT !.sub = x] \in Job
                                /\ [j EXCEPT !.sub = x].m = j.m /\ [j EXCEPT !.sub = x].g = j.g
           /\ \A x \in BOOLEAN : /\ [j EXCEPT !.obs = x] \in Job
                                /\ [j EXCEPT !.obs = x].m = j.m /\ [j EXCEPT !.obs = x].g = j.g
BY DEF Job

\* Moving a job to another phase keeps its fence.
LEMMA PhaseFrame ==
    ASSUME TypeOK, NEW j \in jobs, NEW ph \in Phases, Step(j, ph)
    PROVE  jobs' \subseteq Job /\ JobsKeepFence
<1>1. [j EXCEPT !.ph = ph] \in Job /\ [j EXCEPT !.ph = ph].m = j.m
      /\ [j EXCEPT !.ph = ph].g = j.g
  BY SMT DEF TypeOK, Job
<1> QED BY <1>1, StepFrame DEF Step

\* Ending a job keeps the fences of the others.
LEMMA EndFrame ==
    ASSUME TypeOK, NEW j \in jobs, End(j)
    PROVE  jobs' \subseteq Job /\ JobsKeepFence
BY DEF TypeOK, End, JobsKeepFence

-----------------------------------------------------------------------------
(* The transactions on the launch authority.                               *)

Enrollment == [st : EnrStates, gen : Nat, disc : BOOLEAN]
LaunchOK == rt \in RtStates /\ enr \in Enrollment /\ tick \in [Tickets -> Ticket]
            /\ cred \in Nat

\* What an enrollment transaction owes the invariant.
LaunchFrame == LaunchOK' /\ AuthorityInv'

\* The launch part of the type invariant.
LEMMA LaunchTypes == TypeOK => LaunchOK
BY DEF TypeOK, LaunchOK, Enrollment

\* An enrollment stays one when one column is written.
LEMMA EnrollmentColumns ==
    ASSUME NEW e \in Enrollment
    PROVE  /\ \A x \in EnrStates : [e EXCEPT !.st = x] \in Enrollment
           /\ \A x \in Nat : [e EXCEPT !.gen = x] \in Enrollment
           /\ \A x \in BOOLEAN : [e EXCEPT !.disc = x] \in Enrollment
BY DEF Enrollment

\* A ticket stays one when one column is written.
LEMMA TicketColumns ==
    ASSUME NEW t \in Ticket, NEW x \in TicketStates
    PROVE  /\ [t EXCEPT !.st = x] \in Ticket
           /\ [t EXCEPT !.st = x].st = x
           /\ [t EXCEPT !.st = x].gen = t.gen
BY DEF Ticket

\* A terminal enrollment: the state is closed and the generation moves on.
LEMMA EnrollmentEnds ==
    ASSUME NEW e \in Enrollment, NEW x \in {"failed", "revoked"}
    PROVE  LET f == [e EXCEPT !.st = x, !.gen = @ + 1]
           IN  f \in Enrollment /\ f.st = x /\ f.gen = e.gen + 1
<1> DEFINE f == [e EXCEPT !.st = x]
<1>1. f \in Enrollment /\ f.gen + 1 \in Nat
  BY DEF Enrollment, EnrStates
<1>2. [f EXCEPT !.gen = @ + 1] \in Enrollment
  BY <1>1, EnrollmentColumns
<1>3. [f EXCEPT !.gen = @ + 1].st = x /\ [f EXCEPT !.gen = @ + 1].gen = e.gen + 1
  BY SMT DEF Enrollment
<1> QED BY <1>2, <1>3

\* Closing the pending tickets leaves none pending and touches no other
\* ticket.
LEMMA ClosePendingFacts ==
    ASSUME LaunchOK, NEW x \in {"revoked", "expired"}
    PROVE  /\ ClosePending(x) \in [Tickets -> Ticket]
           /\ \A t \in Tickets : /\ ClosePending(x)[t].gen = tick[t].gen
                                 /\ ClosePending(x)[t].st # "pending"
                                 /\ ClosePending(x)[t].st = "consumed" => tick[t].st = "consumed"
<1>1. x \in TicketStates
  BY DEF TicketStates
<1>2. ASSUME NEW t \in Tickets
      PROVE  /\ ClosePending(x)[t] \in Ticket
             /\ ClosePending(x)[t].gen = tick[t].gen
             /\ ClosePending(x)[t].st # "pending"
             /\ ClosePending(x)[t].st = "consumed" => tick[t].st = "consumed"
  <2>1. tick[t] \in Ticket
    BY DEF LaunchOK
  <2>2. CASE tick[t].st = "pending"
    <3>1. ClosePending(x)[t] = [tick[t] EXCEPT !.st = x]
      BY <2>2 DEF ClosePending
    <3> QED BY <1>1, <2>1, <3>1, TicketColumns
  <2>3. CASE tick[t].st # "pending"
    <3>1. ClosePending(x)[t] = tick[t]
      BY <2>3 DEF ClosePending
    <3> QED BY <2>1, <2>3, <3>1
  <2> QED BY <2>2, <2>3
<1> QED BY <1>2 DEF ClosePending

\* A step that leaves the launch authority alone keeps it.
LEMMA UnchangedLaunch ==
    ASSUME LaunchOK, AuthorityInv, UNCHANGED launch
    PROVE  LaunchFrame
BY DEF LaunchFrame, LaunchOK, launch, AuthorityInv, PendingIsCurrent, CredentialIsCurrent,
       GenerationsConsumedOnce, TerminalTogether, Pending

\* Every way an enrollment ends: no ticket stays pending, no credential active.
LEMMA EnrollmentClosed ==
    ASSUME LaunchOK, AuthorityInv, NEW x \in {"revoked", "expired"},
           tick' = ClosePending(x), cred' = 0, rt' \in RtTerminal,
           enr' \in Enrollment, enr'.st \notin EnrLive, enr'.gen >= enr.gen
    PROVE  LaunchFrame
<1>1. LaunchOK'
  BY ClosePendingFacts DEF LaunchOK, RtStates
<1>2. PendingIsCurrent' /\ CredentialIsCurrent' /\ TerminalTogether'
  BY ClosePendingFacts DEF PendingIsCurrent, CredentialIsCurrent, TerminalTogether, Pending
<1>3. GenerationsConsumedOnce'
  <2>1. enr.gen \in Nat /\ enr'.gen \in Nat /\ \A t \in Tickets : tick[t].gen \in Nat
    BY DEF LaunchOK, Enrollment, Ticket
  <2> QED BY <2>1, ClosePendingFacts DEF AuthorityInv, GenerationsConsumedOnce
<1> QED BY <1>1, <1>2, <1>3 DEF LaunchFrame, AuthorityInv

\* fail_runtime_enrollment keeps the launch authority: everything ends
\* together.
LEMMA FailEnrollmentFrame ==
    ASSUME LaunchOK, AuthorityInv, FailEnrollment
    PROVE  LaunchFrame
<1>1. CASE enr.st \in EnrLive
  <2>1. enr' \in Enrollment /\ enr'.st = "failed" /\ enr'.gen = enr.gen + 1
    BY <1>1, EnrollmentEnds DEF FailEnrollment, LaunchOK
  <2>2. enr'.st \notin EnrLive /\ enr'.gen >= enr.gen
    BY <2>1 DEF EnrLive, LaunchOK, Enrollment
  <2>3. tick' = ClosePending("revoked") /\ cred' = 0 /\ rt' \in RtTerminal
    BY <1>1 DEF FailEnrollment, RtTerminal
  <2> QED BY <2>1, <2>2, <2>3, EnrollmentClosed
<1>2. CASE enr.st \notin EnrLive
  BY <1>2, UnchangedLaunch DEF FailEnrollment
<1> QED BY <1>1, <1>2

\* Issuing a ticket when CanIssue holds keeps the launch authority.
LEMMA IssueTicketFrame ==
    ASSUME LaunchOK, AuthorityInv, NEW t \in Tickets, NEW m \in Msgs, IssueTicket(t, m)
    PROVE  LaunchFrame
<1>1. /\ enr.st \in EnrLive /\ rt # "busy" /\ rt \notin RtTerminal /\ Pending = {}
      /\ enr.gen \in Nat /\ cred \in Nat
  BY DEF IssueTicket, CanIssue, RtTerminal, LaunchOK, Enrollment
<1>2. cred = 0
  BY <1>1 DEF AuthorityInv, CredentialIsCurrent
<1> DEFINE n == [st |-> "pending", gen |-> enr.gen + 1, att |-> OfAttempt(m)]
<1>3. n \in Ticket
  <2>1. OfAttempt(m) \in BOOLEAN
    BY Zenon DEF OfAttempt
  <2>2. enr.gen + 1 \in Nat /\ "pending" \in TicketStates
    BY <1>1 DEF TicketStates
  <2> QED BY <2>1, <2>2 DEF Ticket
<1>4. tick' = [tick EXCEPT ![t] = n] /\ rt' = "busy" /\ enr' = enr /\ cred' = cred
  BY DEF IssueTicket
<1>5. LaunchOK'
  BY <1>3, <1>4 DEF LaunchOK, RtStates
<1>6. \A u \in Tickets : u \in Pending' <=> u = t
  BY <1>1, <1>4 DEF Pending, LaunchOK
<1>7. tick'[t].gen = enr.gen + 1 /\ tick'[t].st = "pending"
  BY <1>4 DEF LaunchOK
<1>8. PendingIsCurrent'
  BY <1>1, <1>2, <1>4, <1>6, <1>7 DEF PendingIsCurrent, Pending
<1>9. CredentialIsCurrent' /\ TerminalTogether'
  BY <1>1, <1>2, <1>4 DEF CredentialIsCurrent, TerminalTogether, RtTerminal
<1>10. GenerationsConsumedOnce'
  <2>1. \A u \in Tickets : tick'[u].st = "consumed" => tick'[u] = tick[u]
    BY <1>4, <1>7 DEF LaunchOK
  <2> QED BY <1>4, <2>1 DEF AuthorityInv, GenerationsConsumedOnce
<1> QED BY <1>5, <1>8, <1>9, <1>10 DEF LaunchFrame, AuthorityInv

\* One ticket leaves 'pending' for a state x: the facts both ways share.
LEMMA TicketLeaves ==
    ASSUME LaunchOK, AuthorityInv, NEW t \in Pending, NEW x \in {"revoked", "consumed"},
           tick' = [tick EXCEPT ![t].st = x]
    PROVE  /\ tick' \in [Tickets -> Ticket]
           /\ t \in Tickets
           /\ Pending' = {}
           /\ \A u \in Tickets : tick'[u].gen = tick[u].gen
           /\ \A u \in Tickets \ {t} : tick'[u].st = tick[u].st
           /\ tick'[t].st = x
<1>1. t \in Tickets /\ tick[t] \in Ticket /\ x \in TicketStates
  BY DEF Pending, LaunchOK, TicketStates
<1>2. /\ [tick[t] EXCEPT !.st = x] \in Ticket
      /\ [tick[t] EXCEPT !.st = x].st = x
      /\ [tick[t] EXCEPT !.st = x].gen = tick[t].gen
  BY <1>1, TicketColumns
<1>3. tick' = [tick EXCEPT ![t] = [tick[t] EXCEPT !.st = x]]
  OBVIOUS
<1>4. tick' \in [Tickets -> Ticket] /\ tick'[t] = [tick[t] EXCEPT !.st = x]
      /\ \A u \in Tickets \ {t} : tick'[u] = tick[u]
  BY <1>1, <1>2, <1>3 DEF LaunchOK
<1>5. \A u \in Pending : u = t
  BY DEF AuthorityInv, PendingIsCurrent
<1>6. tick'[t].st = x /\ tick'[t].gen = tick[t].gen
  BY <1>2, <1>4
<1>7. Pending' = {}
  BY <1>4, <1>5, <1>6 DEF Pending
<1> QED BY <1>1, <1>4, <1>6, <1>7

\* Revoking a ticket keeps the launch authority.
LEMMA RevokeTicketFrame ==
    ASSUME LaunchOK, AuthorityInv, NEW t, RevokeTicket(t)
    PROVE  LaunchFrame
<1>1. CASE t \in Pending
  <2>1. tick' = [tick EXCEPT ![t].st = "revoked"] /\ enr' = enr /\ cred' = cred
    BY <1>1 DEF RevokeTicket
  <2>2. /\ tick' \in [Tickets -> Ticket] /\ Pending' = {}
        /\ \A u \in Tickets : tick'[u].gen = tick[u].gen
        /\ \A u \in Tickets : tick'[u].st = "consumed" => tick[u].st = "consumed"
    BY <1>1, <2>1, TicketLeaves
  <2>3. cred = 0 /\ enr.st \in EnrLive
    BY <1>1 DEF AuthorityInv, PendingIsCurrent
  <2>4. rt \notin RtTerminal /\ rt' \in RtStates \ RtTerminal
    BY <1>1, <2>3 DEF RevokeTicket, AuthorityInv, TerminalTogether, RtStates, RtTerminal, LaunchOK
  <2>5. LaunchOK'
    BY <2>1, <2>2, <2>4 DEF LaunchOK
  <2>6. PendingIsCurrent' /\ CredentialIsCurrent' /\ TerminalTogether'
    BY <2>1, <2>2, <2>3, <2>4 DEF PendingIsCurrent, CredentialIsCurrent, TerminalTogether
  <2>7. GenerationsConsumedOnce'
    BY <2>1, <2>2 DEF AuthorityInv, GenerationsConsumedOnce
  <2> QED BY <2>5, <2>6, <2>7 DEF LaunchFrame, AuthorityInv
<1>2. CASE t \notin Pending
  BY <1>2, UnchangedLaunch DEF RevokeTicket, launch
<1> QED BY <1>1, <1>2

\* Exchanging a ticket keeps the launch authority and consumes its generation
\* once.
LEMMA ExchangeTicketFrame ==
    ASSUME LaunchOK, AuthorityInv, NEW t, ExchangeTicket(t)
    PROVE  LaunchFrame
<1>1. /\ t \in Pending /\ rt = "busy" /\ enr.st \in EnrLive /\ tick[t].gen = enr.gen + 1
      /\ cred' = tick[t].gen /\ tick' = [tick EXCEPT ![t].st = "consumed"] /\ rt' = rt
      /\ enr' = [st |-> "awaiting_handshake", gen |-> tick[t].gen, disc |-> FALSE]
  BY DEF ExchangeTicket
<1>2. /\ tick' \in [Tickets -> Ticket] /\ t \in Tickets /\ Pending' = {}
      /\ \A u \in Tickets : tick'[u].gen = tick[u].gen
      /\ \A u \in Tickets \ {t} : tick'[u].st = tick[u].st
  BY <1>1, TicketLeaves
<1>3. enr.gen \in Nat /\ \A u \in Tickets : tick[u].gen \in Nat
  BY DEF LaunchOK, Enrollment, Ticket
<1>4. enr' \in Enrollment /\ enr'.gen = enr.gen + 1 /\ enr'.st = "awaiting_handshake"
  BY <1>1, <1>2, <1>3 DEF Enrollment, EnrStates, EnrLive
<1>5. LaunchOK'
  BY <1>1, <1>2, <1>3, <1>4 DEF LaunchOK
<1>6. PendingIsCurrent' /\ CredentialIsCurrent' /\ TerminalTogether'
  BY <1>1, <1>2, <1>4 DEF PendingIsCurrent, CredentialIsCurrent, TerminalTogether, RtTerminal, EnrLive
<1>7. GenerationsConsumedOnce'
  BY <1>1, <1>2, <1>3, <1>4 DEF AuthorityInv, GenerationsConsumedOnce
<1> QED BY <1>5, <1>6, <1>7 DEF LaunchFrame, AuthorityInv

\* The success transaction's effect on the launch authority.
LEMMA SettleLaunchFrame ==
    ASSUME LaunchOK, AuthorityInv, NEW g, enr.gen = g, rt \notin RtTerminal,
           rt' = "waiting", cred' = (IF cred = g THEN 0 ELSE cred), UNCHANGED <<enr, tick>>
    PROVE  LaunchFrame
<1>1. cred' = 0
  BY DEF AuthorityInv, CredentialIsCurrent
<1>2. LaunchOK'
  BY <1>1 DEF LaunchOK, RtStates
<1>3. PendingIsCurrent' /\ CredentialIsCurrent' /\ TerminalTogether'
  BY <1>1 DEF AuthorityInv, PendingIsCurrent, CredentialIsCurrent, TerminalTogether, RtTerminal, Pending
<1>4. GenerationsConsumedOnce'
  BY DEF AuthorityInv, GenerationsConsumedOnce
<1> QED BY <1>2, <1>3, <1>4 DEF LaunchFrame, AuthorityInv

\* Discovery and heartbeats keep the generation and a live enrollment live.
LEMMA HandshakeFrame ==
    ASSUME LaunchOK, AuthorityInv, UNCHANGED <<tick, cred>>, enr' \in Enrollment,
           enr.st \in EnrLive, enr'.st \in EnrLive, enr'.gen = enr.gen,
           rt' \in RtStates \ RtTerminal, rt = "busy" => rt' = "busy"
    PROVE  LaunchFrame
<1>1. LaunchOK'
  BY DEF LaunchOK
<1>2. PendingIsCurrent' /\ CredentialIsCurrent' /\ TerminalTogether'
  BY DEF AuthorityInv, PendingIsCurrent, CredentialIsCurrent, TerminalTogether, Pending
<1>3. GenerationsConsumedOnce'
  BY DEF AuthorityInv, GenerationsConsumedOnce
<1> QED BY <1>1, <1>2, <1>3 DEF LaunchFrame, AuthorityInv

-----------------------------------------------------------------------------
(* One step per action: what it does to rows, jobs and launch authority.   *)

RowsFrame == rows' \in [Msgs -> Row] /\ RowsAdvance
JobsFrame == jobs' \subseteq Job /\ JobsKeepFence
RestFrame == /\ attempt' \in AttemptStates
             /\ last' \in 0 .. MaxMsgs
             /\ up' \subseteq Disp
             /\ subs' \in [Msgs -> Nat]
             /\ retries' \in [Msgs -> Nat]

\* The frames of rows, jobs, launch authority and the rest make a StepOK step.
LEMMA Combine ==
    ASSUME RowsFrame, JobsFrame, LaunchFrame, RestFrame
    PROVE  StepOK
BY DEF RowsFrame, JobsFrame, LaunchFrame, LaunchOK, Enrollment, RestFrame, StepOK, TypeOK

\* A step that leaves the remaining variables alone keeps their types.
LEMMA UnchangedRest ==
    ASSUME TypeOK, UNCHANGED <<attempt, last, up, history>>
    PROVE  RestFrame
BY DEF TypeOK, RestFrame, history

\* A step that leaves the launch authority alone satisfies its frame.
LEMMA UnchangedLaunchFrame ==
    ASSUME TypeOK, AuthorityInv, UNCHANGED launch
    PROVE  LaunchFrame
BY UnchangedLaunch, LaunchTypes

\* ProviderDefer is a StepOK step.
LEMMA ProviderDeferOK ==
    ASSUME TypeOK, AuthorityInv, NEW j \in jobs, ProviderDefer(j)
    PROVE  StepOK
<1>1. RowsFrame /\ JobsFrame
  BY DeferDeliveryFrame, EndFrame DEF ProviderDefer, RowsFrame, JobsFrame
<1>2. LaunchFrame /\ RestFrame
  BY UnchangedLaunchFrame, UnchangedRest DEF ProviderDefer
<1> QED BY <1>1, <1>2, Combine

\* PendingDefer is a StepOK step.
LEMMA PendingDeferOK ==
    ASSUME TypeOK, AuthorityInv, NEW j \in jobs, PendingDefer(j) \/ DeferSuppressed(j)
    PROVE  StepOK
<1>1. RowsFrame /\ JobsFrame
  BY DeferDeliveryFrame, EndFrame DEF PendingDefer, DeferSuppressed, RowsFrame, JobsFrame
<1>2. LaunchFrame /\ RestFrame
  BY UnchangedLaunchFrame, UnchangedRest DEF PendingDefer, DeferSuppressed
<1> QED BY <1>1, <1>2, Combine

\* DependencyFailure is a StepOK step.
LEMMA DependencyFailureOK ==
    ASSUME TypeOK, AuthorityInv, NEW j \in jobs, DependencyFailure(j)
    PROVE  StepOK
<1>1. j.m \in Msgs /\ rows[j.m] \in Row
  BY DEF TypeOK, Job
<1>2. RowsFrame
  <2>1. CASE Owns(j, "leased") /\ attempt \in Active
    <3>1. SetRow(j.m, Spent(Closed(rows[j.m], "dead")))
      BY <2>1 DEF DependencyFailure
    <3>2. /\ Spent(Closed(rows[j.m], "dead")) \in Row
          /\ RowAdvances(rows[j.m], Spent(Closed(rows[j.m], "dead")))
      BY <1>1, RowClosed, RowSpent DEF CloseStates
    <3> QED BY <1>1, <3>1, <3>2, SetRowFrame DEF RowsFrame
  <2>2. CASE ~(Owns(j, "leased") /\ attempt \in Active)
    BY <2>2, UnchangedRowsFrame DEF DependencyFailure, RowsFrame
  <2> QED BY <2>1, <2>2
<1>3. JobsFrame
  BY EndFrame DEF DependencyFailure, JobsFrame
<1>4. LaunchFrame
  BY UnchangedLaunchFrame DEF DependencyFailure
<1>5. RestFrame
  BY DEF DependencyFailure, TypeOK, RestFrame, history, AttemptStates
<1> QED BY <1>2, <1>3, <1>4, <1>5, Combine

\* DependencyStale is a StepOK step.
LEMMA DependencyStaleOK ==
    ASSUME TypeOK, AuthorityInv, NEW j \in jobs, DependencyStale(j)
    PROVE  StepOK
<1>1. RowsFrame /\ JobsFrame
  BY UnchangedRowsFrame, EndFrame DEF DependencyStale, RowsFrame, JobsFrame
<1>2. LaunchFrame /\ RestFrame
  BY UnchangedLaunchFrame, UnchangedRest DEF DependencyStale
<1> QED BY <1>1, <1>2, Combine

\* ResolveRuntime is a StepOK step.
LEMMA ResolveRuntimeOK ==
    ASSUME TypeOK, AuthorityInv, NEW j \in jobs, ResolveRuntime(j)
    PROVE  StepOK
<1>1. RowsFrame
  BY FinishDeliveryFrame, UnchangedRowsFrame DEF ResolveRuntime, RowsFrame
<1>2. JobsFrame
  BY PhaseFrame, EndFrame DEF ResolveRuntime, JobsFrame, Phases
<1>3. LaunchFrame /\ RestFrame
  BY UnchangedLaunchFrame, UnchangedRest DEF ResolveRuntime
<1> QED BY <1>1, <1>2, <1>3, Combine

\* PrepareFailed is a StepOK step.
LEMMA PrepareFailedOK ==
    ASSUME TypeOK, AuthorityInv, NEW j \in jobs, PrepareFailed(j)
    PROVE  StepOK
<1>1. RowsFrame
  BY FinishDeliveryFrame DEF PrepareFailed, RowsFrame
<1>2. JobsFrame
  BY PhaseFrame, EndFrame DEF PrepareFailed, JobsFrame, Phases
<1>3. LaunchFrame /\ RestFrame
  BY UnchangedLaunchFrame, UnchangedRest DEF PrepareFailed
<1> QED BY <1>1, <1>2, <1>3, Combine

\* IssueLaunchTicket is a StepOK step.
LEMMA IssueLaunchTicketOK ==
    ASSUME TypeOK, AuthorityInv, NEW j \in jobs, IssueLaunchTicket(j)
    PROVE  StepOK
<1>1. PICK t \in Tickets :
        /\ IssueTicket(t, j.m)
        /\ jobs' = (jobs \ {j}) \cup {[j EXCEPT !.ph = "ticketed", !.t = t]}
  BY DEF IssueLaunchTicket
<1>2. RowsFrame /\ RestFrame
  BY UnchangedRowsFrame, UnchangedRest DEF IssueLaunchTicket, RowsFrame
<1>3. JobsFrame
  <2> DEFINE i == [j EXCEPT !.ph = "ticketed"]
  <2>1. i \in Job /\ i.m = j.m /\ i.g = j.g
    BY JobColumns DEF TypeOK, Phases
  <2>2. t \in 0 .. MaxTickets
    BY BoundAssumption DEF Tickets
  <2>3. [i EXCEPT !.t = t] \in Job /\ [i EXCEPT !.t = t].m = j.m /\ [i EXCEPT !.t = t].g = j.g
    BY <2>1, <2>2, JobColumns
  <2> QED BY <1>1, <2>3, StepFrame DEF JobsFrame
<1>4. LaunchFrame
  <2>1. j.m \in Msgs
    BY DEF TypeOK, Job
  <2> QED BY <1>1, <2>1, IssueTicketFrame, LaunchTypes
<1> QED BY <1>2, <1>3, <1>4, Combine

\* RetryUnlaunched is a StepOK step.
LEMMA RetryUnlaunchedOK ==
    ASSUME TypeOK, AuthorityInv, NEW j \in jobs, IssueRefused(j) \/ RetryUnlaunched(j)
    PROVE  StepOK
<1>1. RowsFrame /\ JobsFrame
  BY FinishDeliveryFrame, EndFrame DEF IssueRefused, RetryUnlaunched, RowsFrame, JobsFrame
<1>2. LaunchFrame /\ RestFrame
  BY UnchangedLaunchFrame, UnchangedRest DEF IssueRefused, RetryUnlaunched
<1> QED BY <1>1, <1>2, Combine

\* LaunchPreparationFailed is a StepOK step.
LEMMA LaunchPreparationFailedOK ==
    ASSUME TypeOK, AuthorityInv, NEW j \in jobs, LaunchPreparationFailed(j)
    PROVE  StepOK
<1>1. RowsFrame /\ RestFrame
  BY UnchangedRowsFrame, UnchangedRest DEF LaunchPreparationFailed, RowsFrame
<1>2. JobsFrame
  BY PhaseFrame DEF LaunchPreparationFailed, JobsFrame, Phases
<1>3. LaunchFrame
  BY RevokeTicketFrame, LaunchTypes DEF LaunchPreparationFailed
<1> QED BY <1>1, <1>2, <1>3, Combine

\* BlockUnlaunched is a StepOK step.
LEMMA BlockUnlaunchedOK ==
    ASSUME TypeOK, AuthorityInv, NEW j \in jobs, BlockUnlaunched(j) \/ PrivateBlocked(j)
    PROVE  StepOK
<1>1. RowsFrame
  <2>1. j.m \in Msgs /\ rows[j.m] \in Row
    BY DEF TypeOK, Job
  <2>2. /\ Spent(DeadTerminal(rows[j.m])) \in Row
        /\ RowAdvances(rows[j.m], Spent(DeadTerminal(rows[j.m])))
    BY <2>1, RowDeadTerminal, RowSpent
  <2>3. SetRow(j.m, Spent(DeadTerminal(rows[j.m]))) \/ UNCHANGED rows
    BY DEF BlockUnlaunched, PrivateBlocked
  <2> QED BY <2>1, <2>2, <2>3, SetRowFrame, UnchangedRowsFrame DEF RowsFrame
<1>2. JobsFrame
  BY EndFrame DEF BlockUnlaunched, PrivateBlocked, JobsFrame
<1>3. LaunchFrame /\ RestFrame
  BY UnchangedLaunchFrame, UnchangedRest DEF BlockUnlaunched, PrivateBlocked
<1> QED BY <1>1, <1>2, <1>3, Combine

\* Reserve is a StepOK step.
LEMMA ReserveOK ==
    ASSUME TypeOK, AuthorityInv, NEW j \in jobs, Reserve(j)
    PROVE  StepOK
<1>1. j.m \in Msgs /\ rows[j.m] \in Row
  BY DEF TypeOK, Job
<1>2. RowsFrame
  <2> DEFINE r == [rows[j.m] EXCEPT !.st = "dispatched"]
  <2>1. r \in Row /\ RowAdvances(rows[j.m], r)
    <3>1. r \in Row
      BY <1>1, RowColumns DEF RowStates, Open
    <3>2. RowAdvances(rows[j.m], r)
      BY <1>1, SMT DEF Row, RowAdvances
    <3> QED BY <3>1, <3>2
  <2>2. SetRow(j.m, r)
    BY DEF Reserve, SetRow
  <2> QED BY <1>1, <2>1, <2>2, SetRowFrame DEF RowsFrame
<1>3. JobsFrame
  BY PhaseFrame DEF Reserve, JobsFrame, Phases
<1>4. LaunchFrame /\ RestFrame
  BY UnchangedLaunchFrame, UnchangedRest DEF Reserve
<1> QED BY <1>2, <1>3, <1>4, Combine

\* ReserveRefused is a StepOK step.
LEMMA ReserveRefusedOK ==
    ASSUME TypeOK, AuthorityInv, NEW j \in jobs, ReserveRefused(j) \/ ReserveSuppressed(j)
    PROVE  StepOK
<1>1. RowsFrame /\ JobsFrame
  BY UnchangedRowsFrame, PhaseFrame
     DEF ReserveRefused, ReserveSuppressed, RowsFrame, JobsFrame, Phases
<1>2. LaunchFrame /\ RestFrame
  BY UnchangedLaunchFrame, UnchangedRest DEF ReserveRefused, ReserveSuppressed
<1> QED BY <1>1, <1>2, Combine

\* RevokeUnreserved is a StepOK step.
LEMMA RevokeUnreservedOK ==
    ASSUME TypeOK, AuthorityInv, NEW j \in jobs,
           RevokeUnreserved(j) \/ RevokeSuppressed(j) \/ FenceTicket(j)
    PROVE  StepOK
<1>1. RowsFrame /\ RestFrame
  BY UnchangedRowsFrame, UnchangedRest
     DEF RevokeUnreserved, RevokeSuppressed, FenceTicket, RowsFrame
<1>2. JobsFrame
  BY EndFrame, PhaseFrame DEF RevokeUnreserved, RevokeSuppressed, FenceTicket, JobsFrame, Phases
<1>3. LaunchFrame
  BY RevokeTicketFrame, LaunchTypes DEF RevokeUnreserved, RevokeSuppressed, FenceTicket
<1> QED BY <1>1, <1>2, <1>3, Combine

\* Every step of a job before its dispatch is a StepOK step.
LEMMA PreDispatchOK ==
    ASSUME TypeOK, AuthorityInv, NEW j \in jobs, PreDispatch(j)
    PROVE  StepOK
BY ProviderDeferOK, PendingDeferOK, DependencyFailureOK, DependencyStaleOK, ResolveRuntimeOK,
   PrepareFailedOK, IssueLaunchTicketOK, RetryUnlaunchedOK, LaunchPreparationFailedOK,
   BlockUnlaunchedOK, ReserveOK, ReserveRefusedOK, RevokeUnreservedOK
   DEF PreDispatch

\* BeginCapture is a StepOK step.
LEMMA BeginCaptureOK ==
    ASSUME TypeOK, AuthorityInv, NEW j \in jobs, BeginCapture(j)
    PROVE  StepOK
<1>1. RowsFrame /\ LaunchFrame /\ RestFrame
  BY UnchangedRowsFrame, UnchangedLaunchFrame, UnchangedRest DEF BeginCapture, RowsFrame
<1>2. JobsFrame
  <2> DEFINE i == [j EXCEPT !.ph = "returned"]
  <2>1. i \in Job /\ i.m = j.m /\ i.g = j.g
    BY JobColumns DEF TypeOK, Phases
  <2>2. /\ [i EXCEPT !.res = "unknown"] \in Job /\ [i EXCEPT !.res = "unknown"].m = j.m
        /\ [i EXCEPT !.res = "unknown"].g = j.g
    BY <2>1, JobColumns DEF Results
  <2>3. \/ Step(j, "running")
        \/ jobs' = (jobs \ {j}) \cup {[i EXCEPT !.res = "unknown"]}
    BY DEF BeginCapture
  <2> QED BY <2>2, <2>3, StepFrame, PhaseFrame DEF JobsFrame, Phases
<1> QED BY <1>1, <1>2, Combine

\* Exchanging a job's ticket, or its broker failing, is a StepOK step.
LEMMA BrokerOK ==
    ASSUME TypeOK, AuthorityInv, NEW j \in jobs, ExchangeLaunchTicket(j) \/ BrokerFailed(j)
    PROVE  StepOK
<1>1. RowsFrame /\ RestFrame
  BY UnchangedRowsFrame, UnchangedRest DEF ExchangeLaunchTicket, BrokerFailed, RowsFrame
<1>2. JobsFrame
  BY DEF ExchangeLaunchTicket, BrokerFailed, JobsFrame, JobsKeepFence, TypeOK
<1>3. LaunchFrame
  BY ExchangeTicketFrame, FailEnrollmentFrame, LaunchTypes DEF ExchangeLaunchTicket, BrokerFailed
<1> QED BY <1>1, <1>2, <1>3, Combine

\* Submit is a StepOK step.
LEMMA SubmitOK ==
    ASSUME TypeOK, AuthorityInv, NEW j \in jobs, Submit(j)
    PROVE  StepOK
<1>1. RowsFrame /\ LaunchFrame
  BY UnchangedRowsFrame, UnchangedLaunchFrame DEF Submit, RowsFrame
<1>2. JobsFrame
  <2>1. j \in Job
    BY DEF TypeOK
  <2>2. /\ [j EXCEPT !.sub = TRUE] \in Job /\ [j EXCEPT !.sub = TRUE].m = j.m
        /\ [j EXCEPT !.sub = TRUE].g = j.g
    BY <2>1, JobColumns
  <2> QED BY <2>2, StepFrame DEF Submit, JobsFrame
<1>3. RestFrame
  <2>1. j.m \in Msgs /\ subs[j.m] + 1 \in Nat
    BY DEF TypeOK, Job
  <2> QED BY <2>1 DEF Submit, TypeOK, RestFrame
<1> QED BY <1>1, <1>2, <1>3, Combine

\* ObserveTurnEnd is a StepOK step.
LEMMA ObserveTurnEndOK ==
    ASSUME TypeOK, AuthorityInv, NEW j \in jobs, ObserveTurnEnd(j)
    PROVE  StepOK
<1>1. LaunchFrame /\ RestFrame
  BY UnchangedLaunchFrame, UnchangedRest DEF ObserveTurnEnd
<1>2. JobsFrame
  <2>1. j \in Job
    BY DEF TypeOK
  <2>2. /\ [j EXCEPT !.obs = TRUE] \in Job /\ [j EXCEPT !.obs = TRUE].m = j.m
        /\ [j EXCEPT !.obs = TRUE].g = j.g
    BY <2>1, JobColumns
  <2> QED BY <2>2, StepFrame DEF ObserveTurnEnd, JobsFrame
<1>3. RowsFrame
  <2>1. j.m \in Msgs /\ rows[j.m] \in Row
    BY DEF TypeOK, Job
  <2>2. Closed(rows[j.m], "handled") \in Row /\ RowAdvances(rows[j.m], Closed(rows[j.m], "handled"))
    BY <2>1, RowClosed DEF CloseStates
  <2>3. SetRow(j.m, Closed(rows[j.m], "handled")) \/ UNCHANGED rows
    BY DEF ObserveTurnEnd
  <2> QED BY <2>1, <2>2, <2>3, SetRowFrame, UnchangedRowsFrame DEF RowsFrame
<1> QED BY <1>1, <1>2, <1>3, Combine

\* DispatchReturns is a StepOK step.
LEMMA DispatchReturnsOK ==
    ASSUME TypeOK, AuthorityInv, NEW j \in jobs, DispatchReturns(j)
    PROVE  StepOK
<1>1. RowsFrame /\ LaunchFrame /\ RestFrame
  BY UnchangedRowsFrame, UnchangedLaunchFrame, UnchangedRest DEF DispatchReturns, RowsFrame
<1>2. JobsFrame
  <2>1. PICK r \in Results : jobs' = (jobs \ {j}) \cup {[j EXCEPT !.ph = "returned", !.res = r]}
    BY DEF DispatchReturns
  <2> DEFINE i == [j EXCEPT !.ph = "returned"]
  <2>2. i \in Job /\ i.m = j.m /\ i.g = j.g
    BY JobColumns DEF TypeOK, Phases
  <2>3. [i EXCEPT !.res = r] \in Job /\ [i EXCEPT !.res = r].m = j.m /\ [i EXCEPT !.res = r].g = j.g
    BY <2>2, JobColumns
  <2> QED BY <2>1, <2>3, StepFrame DEF JobsFrame
<1> QED BY <1>1, <1>2, Combine

\* Every step of a job's dispatch is a StepOK step.
LEMMA DispatchOK ==
    ASSUME TypeOK, AuthorityInv, NEW j \in jobs, Dispatch(j)
    PROVE  StepOK
BY BeginCaptureOK, BrokerOK, SubmitOK, ObserveTurnEndOK, DispatchReturnsOK DEF Dispatch

\* CheckHandshake is a StepOK step.
LEMMA CheckHandshakeOK ==
    ASSUME TypeOK, AuthorityInv, NEW j \in jobs, CheckHandshake(j)
    PROVE  StepOK
<1>1. RowsFrame /\ LaunchFrame /\ RestFrame
  BY UnchangedRowsFrame, UnchangedLaunchFrame, UnchangedRest DEF CheckHandshake, RowsFrame
<1>2. JobsFrame
  <2>1. j \in Job
    BY DEF TypeOK
  <2>2. /\ [j EXCEPT !.res = "unknown"] \in Job /\ [j EXCEPT !.res = "unknown"].m = j.m
        /\ [j EXCEPT !.res = "unknown"].g = j.g
    BY <2>1, JobColumns DEF Results
  <2> QED BY <2>2, StepFrame, PhaseFrame DEF CheckHandshake, JobsFrame, Phases
<1> QED BY <1>1, <1>2, Combine

\* The lane helpers map a typed lane to a typed lane that advances it.
LEMMA LaneHelpers ==
    ASSUME NEW rs \in [Msgs -> Row], NEW m \in Msgs
    PROVE  /\ AdvanceLane(rs, m) \in [Msgs -> Row]
           /\ ParkUnstarted(rs) \in [Msgs -> Row]
           /\ SettleTerminalRows(rs) \in [Msgs -> Row]
           /\ \A n \in Msgs : /\ RowAdvances(rs[n], AdvanceLane(rs, m)[n])
                              /\ RowAdvances(rs[n], ParkUnstarted(rs)[n])
                              /\ RowAdvances(rs[n], SettleTerminalRows(rs)[n])
<1> DEFINE handled(r) == [Closed(r, "handled") EXCEPT !.pol = "terminal"]
<1>1. ASSUME NEW r \in Row
      PROVE  /\ handled(r) \in Row /\ RowAdvances(r, handled(r))
             /\ DeadTerminal(r) \in Row /\ RowAdvances(r, DeadTerminal(r))
             /\ Closed(r, "dead") \in Row /\ RowAdvances(r, Closed(r, "dead"))
             /\ RowAdvances(r, r)
  BY RowClosed, RowPolicy, RowDeadTerminal, RowReflexive DEF CloseStates
<1> HIDE DEF handled
<1>2. ASSUME NEW n \in Msgs
      PROVE  /\ AdvanceLane(rs, m)[n] \in Row /\ RowAdvances(rs[n], AdvanceLane(rs, m)[n])
             /\ ParkUnstarted(rs)[n] \in Row /\ RowAdvances(rs[n], ParkUnstarted(rs)[n])
             /\ SettleTerminalRows(rs)[n] \in Row
             /\ RowAdvances(rs[n], SettleTerminalRows(rs)[n])
  <2>1. rs[n] \in Row
    OBVIOUS
  <2>2. \/ AdvanceLane(rs, m)[n] = handled(rs[n])
        \/ AdvanceLane(rs, m)[n] = DeadTerminal(rs[n])
        \/ AdvanceLane(rs, m)[n] = rs[n]
    BY DEF AdvanceLane, handled
  <2>3. ParkUnstarted(rs)[n] = Closed(rs[n], "dead") \/ ParkUnstarted(rs)[n] = rs[n]
    BY DEF ParkUnstarted
  <2>4. \/ SettleTerminalRows(rs)[n] = handled(rs[n])
        \/ SettleTerminalRows(rs)[n] = DeadTerminal(rs[n])
        \/ SettleTerminalRows(rs)[n] = rs[n]
    BY DEF SettleTerminalRows, handled
  <2> QED BY <1>1, <2>1, <2>2, <2>3, <2>4
<1>3. AdvanceLane(rs, m) = [n \in Msgs |-> AdvanceLane(rs, m)[n]]
  BY DEF AdvanceLane
<1>4. ParkUnstarted(rs) = [n \in Msgs |-> ParkUnstarted(rs)[n]]
  BY DEF ParkUnstarted
<1>5. SettleTerminalRows(rs) = [n \in Msgs |-> SettleTerminalRows(rs)[n]]
  BY DEF SettleTerminalRows
<1>6. /\ AdvanceLane(rs, m) \in [Msgs -> Row]
      /\ ParkUnstarted(rs) \in [Msgs -> Row]
      /\ SettleTerminalRows(rs) \in [Msgs -> Row]
  BY <1>2, <1>3, <1>4, <1>5
<1> QED BY <1>2, <1>6

\* Two advances of a row in one transaction are one advance.
LEMMA RowTransitive ==
    ASSUME NEW r \in Row, NEW s \in Row, NEW u \in Row, RowAdvances(r, s), RowAdvances(s, u),
           s.st # "none"
    PROVE  RowAdvances(r, u)
BY SMT DEF Row, RowAdvances

\* SettleSuccess is a StepOK step.
LEMMA SettleSuccessOK ==
    ASSUME TypeOK, AuthorityInv, NEW j \in jobs, SettleSuccess(j)
    PROVE  StepOK
<1>1. j.m \in Msgs /\ rows \in [Msgs -> Row] /\ rows[j.m] \in Row
  BY DEF TypeOK, Job
<1>2. JobsFrame
  BY EndFrame DEF SettleSuccess, JobsFrame
<1>3. CASE ~SettleFence(j)
  <2>1. UNCHANGED <<rows, rt, cred, attempt, last>> /\ UNCHANGED <<enr, tick, up, history>>
    BY <1>3 DEF SettleSuccess
  <2>2. RowsFrame /\ LaunchFrame /\ RestFrame
    BY <2>1, UnchangedRowsFrame, UnchangedLaunchFrame, UnchangedRest DEF RowsFrame, launch
  <2> QED BY <1>2, <2>2, Combine
<1>4. CASE SettleFence(j)
  <2> DEFINE rs == IF rows[j.m].st = "dispatched"
                     THEN [rows EXCEPT ![j.m] = Closed(@, "delivered")] ELSE rows
             a == FinalizeCapture(rs, attempt, j.m, j.obs)
  <2>1. /\ rt' = "waiting"
        /\ cred' = (IF cred = tick[j.t].gen THEN 0 ELSE cred)
        /\ last' = j.m
        /\ attempt' = (IF Stalls(rs, a, j.m) THEN "stalled" ELSE a)
        /\ rows' = (IF Advances(rs, a, j.m) THEN AdvanceLane(rs, j.m)
                    ELSE IF Stalls(rs, a, j.m) THEN ParkUnstarted(rs)
                    ELSE IF a = "canceled" THEN SettleTerminalRows(rs)
                    ELSE rs)
        /\ UNCHANGED <<enr, tick, up, history>>
    BY <1>4 DEF SettleSuccess
  <2>2. Closed(rows[j.m], "delivered") \in Row /\ Closed(rows[j.m], "delivered").st = "delivered"
        /\ RowAdvances(rows[j.m], Closed(rows[j.m], "delivered"))
    BY <1>1, RowClosed DEF CloseStates, Closed, Row
  <2>3. /\ rs \in [Msgs -> Row]
        /\ \A n \in Msgs : RowAdvances(rows[n], rs[n])
        /\ \A n \in Msgs : rs[n].st = "none" => rows[n].st = "none"
    <3>1. rs \in [Msgs -> Row]
      BY <1>1, <2>2
    <3>2. \A n \in Msgs : rs[n] = rows[n] \/ (n = j.m /\ rs[n] = Closed(rows[j.m], "delivered"))
      BY <1>1
    <3>3. \A n \in Msgs : RowAdvances(rows[n], rows[n])
      BY <1>1, RowReflexive
    <3> QED BY <2>2, <3>1, <3>2, <3>3
  <2>4. a \in AttemptStates
    BY DEF FinalizeCapture, AttemptStates, TypeOK
  <2> HIDE DEF rs, a
  <2>5. rows' \in [Msgs -> Row] /\ \A n \in Msgs : RowAdvances(rs[n], rows'[n])
    <3>1. \A n \in Msgs : RowAdvances(rs[n], rs[n])
      BY <2>3, RowReflexive
    <3> QED BY <1>1, <2>1, <2>3, <3>1, LaneHelpers
  <2>6. RowsFrame
    <3>1. ASSUME NEW n \in Msgs
          PROVE  RowAdvances(rows[n], rows'[n])
      <4>1. rows[n] \in Row /\ rs[n] \in Row /\ rows'[n] \in Row
        BY <1>1, <2>3, <2>5
      <4>2. CASE rows[n].st = "none"
        BY <4>2 DEF RowAdvances
      <4>3. CASE rows[n].st # "none"
        BY <2>3, <2>5, <4>1, <4>3, RowTransitive
      <4> QED BY <4>2, <4>3
    <3> QED BY <2>5, <3>1 DEF RowsFrame, RowsAdvance
  <2>7. LaunchFrame
    <3>1. enr.gen = tick[j.t].gen /\ rt \notin RtTerminal
      BY <1>4 DEF SettleFence, RtTerminal
    <3> QED BY <2>1, <3>1, SettleLaunchFrame, LaunchTypes
  <2>8. RestFrame
    <3>1. j.m \in 0 .. MaxMsgs
      BY <1>1, BoundAssumption DEF Msgs
    <3>2. attempt' \in AttemptStates
      BY <2>1, <2>4 DEF AttemptStates
    <3> QED BY <2>1, <3>1, <3>2 DEF RestFrame, TypeOK, history
  <2> QED BY <1>2, <2>6, <2>7, <2>8, Combine
<1> QED BY <1>3, <1>4

\* MarkUnknown is a StepOK step.
LEMMA MarkUnknownOK ==
    ASSUME TypeOK, AuthorityInv, NEW j \in jobs, MarkUnknown(j) \/ MarkNotSubmitted(j)
    PROVE  StepOK
<1>1. RowsFrame
  <2>1. j.m \in Msgs /\ rows[j.m] \in Row
    BY DEF TypeOK, Job
  <2>2. /\ Spent(Closed(rows[j.m], "dispatched")) \in Row
        /\ RowAdvances(rows[j.m], Spent(Closed(rows[j.m], "dispatched")))
        /\ Spent(DeadTerminal(rows[j.m])) \in Row
        /\ RowAdvances(rows[j.m], Spent(DeadTerminal(rows[j.m])))
    BY <2>1, RowClosed, RowDeadTerminal, RowSpent DEF CloseStates
  <2>3. \/ SetRow(j.m, Spent(Closed(rows[j.m], "dispatched")))
        \/ SetRow(j.m, Spent(DeadTerminal(rows[j.m])))
        \/ UNCHANGED rows
    BY DEF MarkUnknown, MarkNotSubmitted
  <2> QED BY <2>1, <2>2, <2>3, SetRowFrame, UnchangedRowsFrame DEF RowsFrame
<1>2. JobsFrame
  BY EndFrame, PhaseFrame DEF MarkUnknown, MarkNotSubmitted, JobsFrame, Phases
<1>3. LaunchFrame
  BY UnchangedLaunchFrame DEF MarkUnknown, MarkNotSubmitted
<1>4. RestFrame
  BY BoundAssumption DEF MarkUnknown, MarkNotSubmitted, RestFrame, TypeOK, history
<1> QED BY <1>1, <1>2, <1>3, <1>4, Combine

\* RateLimited is a StepOK step.
LEMMA RateLimitedOK ==
    ASSUME TypeOK, AuthorityInv, NEW j \in jobs, RateLimited(j)
    PROVE  StepOK
<1>1. RowsFrame
  <2>1. j.m \in Msgs /\ rows[j.m] \in Row
    BY DEF TypeOK, Job
  <2> DEFINE frozen == Spent(Closed(rows[j.m], "dispatched"))
  <2>2. frozen \in Row /\ RowAdvances(rows[j.m], frozen) /\ RowAdvances(rows[j.m], rows[j.m])
    BY <2>1, RowClosed, RowSpent, RowReflexive DEF CloseStates
  <2>3. \/ SetRow(j.m, [frozen EXCEPT !.limited = TRUE])
        \/ SetRow(j.m, [rows[j.m] EXCEPT !.limited = TRUE])
        \/ UNCHANGED rows
    BY DEF RateLimited
  <2> HIDE DEF frozen
  <2>4. /\ [frozen EXCEPT !.limited = TRUE] \in Row
        /\ RowAdvances(rows[j.m], [frozen EXCEPT !.limited = TRUE])
        /\ [rows[j.m] EXCEPT !.limited = TRUE] \in Row
        /\ RowAdvances(rows[j.m], [rows[j.m] EXCEPT !.limited = TRUE])
    BY <2>1, <2>2, RowLimited
  <2> QED BY <2>1, <2>3, <2>4, SetRowFrame, UnchangedRowsFrame DEF RowsFrame
<1>2. JobsFrame
  BY EndFrame DEF RateLimited, JobsFrame
<1>3. LaunchFrame
  BY FailEnrollmentFrame, UnchangedLaunchFrame, LaunchTypes DEF RateLimited
<1>4. RestFrame
  BY BoundAssumption DEF RateLimited, RecoverAttempt, RestFrame, TypeOK, history, AttemptStates
<1> QED BY <1>1, <1>2, <1>3, <1>4, Combine

\* FailAndRecover is a StepOK step.
LEMMA FailAndRecoverOK ==
    ASSUME TypeOK, AuthorityInv, NEW j \in jobs, FailAndRecover(j)
    PROVE  StepOK
<1>1. RowsFrame /\ JobsFrame
  BY UnchangedRowsFrame, EndFrame DEF FailAndRecover, RowsFrame, JobsFrame
<1>2. LaunchFrame
  BY FailEnrollmentFrame, LaunchTypes DEF FailAndRecover
<1>3. RestFrame
  BY DEF FailAndRecover, RecoverAttempt, RestFrame, TypeOK, history, AttemptStates
<1> QED BY <1>1, <1>2, <1>3, Combine

\* Every step of a job is a StepOK step.
LEMMA JobStepOK ==
    ASSUME TypeOK, AuthorityInv, NEW j \in jobs, JobStep(j)
    PROVE  StepOK
<1>1. CASE PostDispatch(j)
  BY <1>1, RevokeUnreservedOK, BlockUnlaunchedOK, CheckHandshakeOK, SettleSuccessOK,
     MarkUnknownOK, RateLimitedOK, FailAndRecoverOK DEF PostDispatch
<1> QED BY <1>1, PreDispatchOK, DispatchOK DEF JobStep

\* CrashDispatcher is a StepOK step.
LEMMA CrashDispatcherOK ==
    ASSUME TypeOK, AuthorityInv, NEW d \in Disp, CrashDispatcher(d)
    PROVE  StepOK
<1>1. RowsFrame /\ LaunchFrame
  BY UnchangedRowsFrame, UnchangedLaunchFrame DEF CrashDispatcher, RowsFrame
<1>2. JobsFrame
  BY DEF CrashDispatcher, JobsFrame, JobsKeepFence, TypeOK
<1>3. RestFrame
  BY DEF CrashDispatcher, RestFrame, TypeOK, history
<1> QED BY <1>1, <1>2, <1>3, Combine

\* The calls that leave the jobs alone.
LEMMA UnchangedJobs ==
    ASSUME TypeOK, UNCHANGED jobs
    PROVE  JobsFrame
BY DEF TypeOK, JobsFrame, JobsKeepFence

\* DiscoverTools is a StepOK step.
LEMMA DiscoverToolsOK ==
    ASSUME TypeOK, AuthorityInv, DiscoverTools
    PROVE  StepOK
<1>1. RowsFrame /\ JobsFrame /\ RestFrame
  BY UnchangedRowsFrame, UnchangedJobs, UnchangedRest DEF DiscoverTools, RowsFrame
<1>2. LaunchFrame
  <2>1. enr \in Enrollment /\ enr.st \in EnrLive /\ enr' = [enr EXCEPT !.disc = TRUE]
        /\ UNCHANGED <<rt, tick, cred>> /\ rt \in RtStates
    BY LaunchTypes DEF DiscoverTools, WorkerActor, LaunchOK
  <2>2. enr' \in Enrollment
    BY <2>1, EnrollmentColumns
  <2>3. enr'.st = enr.st /\ enr'.gen = enr.gen
    BY <2>1, SMT DEF Enrollment
  <2>4. rt' \in RtStates \ RtTerminal
    BY <2>1 DEF AuthorityInv, TerminalTogether
  <2> QED BY <2>1, <2>2, <2>3, <2>4, HandshakeFrame, LaunchTypes
<1> QED BY <1>1, <1>2, Combine

\* HeartbeatRuntime is a StepOK step.
LEMMA HeartbeatRuntimeOK ==
    ASSUME TypeOK, AuthorityInv, HeartbeatRuntime
    PROVE  StepOK
<1>1. JobsFrame /\ RestFrame
  BY UnchangedJobs, UnchangedRest DEF HeartbeatRuntime
<1>2. LaunchFrame
  <2>1. enr \in Enrollment /\ enr.st \in EnrLive /\ enr' = [enr EXCEPT !.st = "ready"]
        /\ UNCHANGED <<tick, cred>> /\ rt \in RtStates
        /\ rt' = (IF rt = "busy" \/ rt \in RtTerminal THEN rt ELSE "ready")
    BY LaunchTypes DEF HeartbeatRuntime, WorkerActor, LaunchOK
  <2>2. enr' \in Enrollment
    BY <2>1, EnrollmentColumns DEF EnrStates, EnrLive
  <2>3. enr'.st \in EnrLive /\ enr'.gen = enr.gen
    BY <2>1, SMT DEF Enrollment, EnrLive
  <2>4. rt' \in RtStates \ RtTerminal
    BY <2>1 DEF AuthorityInv, TerminalTogether, RtStates, RtTerminal
  <2> QED BY <2>1, <2>2, <2>3, <2>4, HandshakeFrame, LaunchTypes
<1>3. ASSUME NEW m \in Msgs
      PROVE  /\ Reactivated(BootstrapHandled(rows[m])) \in Row
             /\ RowAdvances(rows[m], Reactivated(BootstrapHandled(rows[m])))
  <2> DEFINE r == BootstrapHandled(rows[m])
             a == [Requeued(r) EXCEPT !.tries = 0]
             b == [a EXCEPT !.pol = "terminal"]
             c == [b EXCEPT !.limited = FALSE]
  <2>1. rows[m] \in Row
    BY DEF TypeOK
  <2>2. /\ r \in Row /\ RowAdvances(rows[m], r)
        /\ r.st = "none" => rows[m].st = "none"
    <3>1. Closed(rows[m], "handled").st = "handled"
      BY <2>1 DEF Closed, Row
    <3> QED BY <2>1, <3>1, RowClosed, RowReflexive DEF BootstrapHandled, CloseStates
  <2> HIDE DEF r
  <2>3. Requeued(r) \in Row /\ RowAdvances(r, Requeued(r))
    BY <2>2, RowRequeued
  <2>4. a \in Row
    BY <2>3, RowColumns
  <2>5. RowAdvances(r, a)
    BY <2>3, SMT DEF Row, RowAdvances
  <2> HIDE DEF a
  <2>6. b \in Row /\ RowAdvances(r, b)
    BY <2>2, <2>4, <2>5, RowPolicy
  <2> HIDE DEF b
  <2>7. c \in Row /\ RowAdvances(r, c)
    BY <2>2, <2>6, RowLimited
  <2>8. Reactivated(r) = c \/ Reactivated(r) = r
    BY DEF Reactivated, c, b, a
  <2> HIDE DEF c
  <2>9. Reactivated(r) \in Row /\ RowAdvances(r, Reactivated(r))
    BY <2>2, <2>7, <2>8, RowReflexive
  <2>10. RowAdvances(rows[m], Reactivated(r))
    <3>1. CASE rows[m].st = "none"
      BY <3>1 DEF RowAdvances
    <3>2. CASE rows[m].st # "none"
      BY <2>1, <2>2, <2>9, <3>2, RowTransitive
    <3> QED BY <3>1, <3>2
  <2> QED BY <2>9, <2>10 DEF r
<1>4. RowsFrame
  <2>1. rows' = [m \in Msgs |-> Reactivated(BootstrapHandled(rows[m]))]
    BY DEF HeartbeatRuntime
  <2> QED BY <1>3, <2>1 DEF RowsFrame, RowsAdvance
<1> QED BY <1>1, <1>2, <1>4, Combine

\* Acknowledge is a StepOK step.
LEMMA AcknowledgeOK ==
    ASSUME TypeOK, AuthorityInv, NEW m \in Msgs, Acknowledge(m) \/ MarkMessageHandled(m)
    PROVE  StepOK
<1>1. rows[m] \in Row
  BY DEF TypeOK
<1>2. RowsFrame
  <2> DEFINE h == [rows[m] EXCEPT !.st = "handled"]
  <2>1. /\ Closed(rows[m], "handled") \in Row
        /\ RowAdvances(rows[m], Closed(rows[m], "handled"))
        /\ Closed(rows[m], "acknowledged") \in Row
        /\ RowAdvances(rows[m], Closed(rows[m], "acknowledged"))
    BY <1>1, RowClosed DEF CloseStates
  <2>2. h \in Row
    BY <1>1, RowColumns DEF RowStates
  <2>3. RowAdvances(rows[m], h)
    BY <1>1, SMT DEF Row, RowAdvances
  <2>4. \/ SetRow(m, Closed(rows[m], "handled"))
        \/ SetRow(m, Closed(rows[m], "acknowledged"))
        \/ SetRow(m, h)
    BY DEF Acknowledge, MarkMessageHandled, SetRow
  <2> QED BY <2>1, <2>2, <2>3, <2>4, SetRowFrame DEF RowsFrame
<1>3. JobsFrame /\ LaunchFrame
  BY UnchangedJobs, UnchangedLaunchFrame DEF Acknowledge, MarkMessageHandled
<1>4. RestFrame
  BY DEF Acknowledge, MarkMessageHandled, RestFrame, TypeOK, history, AttemptStates, Active
<1> QED BY <1>2, <1>3, <1>4, Combine

\* Report is a StepOK step.
LEMMA ReportOK ==
    ASSUME TypeOK, AuthorityInv, NEW kind, NEW inc, Report(kind, inc)
    PROVE  StepOK
<1>1. RowsFrame
  <2>1. ASSUME NEW m \in Msgs
        PROVE  rows'[m] \in Row /\ RowAdvances(rows[m], rows'[m])
    <3>1. rows[m] \in Row
      BY DEF TypeOK
    <3>2. rows'[m] = Closed(rows[m], "handled") \/ rows'[m] = rows[m]
      BY DEF Report
    <3> QED BY <3>1, <3>2, RowClosed, RowReflexive DEF CloseStates
  <2>2. rows' = [m \in Msgs |-> rows'[m]]
    BY DEF Report
  <2> QED BY <2>1, <2>2 DEF RowsFrame, RowsAdvance
<1>2. JobsFrame /\ LaunchFrame
  BY UnchangedJobs, UnchangedLaunchFrame DEF Report
<1>3. RestFrame
  BY DEF Report, RestFrame, TypeOK, history, AttemptStates, Active
<1> QED BY <1>1, <1>2, <1>3, Combine

\* Every call of the Worker is a StepOK step.
LEMMA WorkerCallOK ==
    ASSUME TypeOK, AuthorityInv, WorkerCall
    PROVE  StepOK
BY DiscoverToolsOK, HeartbeatRuntimeOK, AcknowledgeOK, ReportOK DEF WorkerCall

\* A new message only fills a row that no message has used.
LEMMA SendMessageFrame ==
    ASSUME TypeOK, NEW k \in Kinds, SendMessage(k)
    PROVE  RowsFrame
<1>1. PICK m \in Msgs : rows[m].st = "none" /\ SetRow(m, NewRow(k))
  BY DEF SendMessage
<1>2. NewRow(k) \in Row
  <2>1. FALSE \in BOOLEAN /\ 0 \in Nat /\ 1 \in Nat
    OBVIOUS
  <2> QED BY <2>1 DEF NewRow, Row, RowStates, Open
<1>3. RowAdvances(rows[m], NewRow(k))
  BY <1>1 DEF RowAdvances
<1> QED BY <1>1, <1>2, <1>3, SetRowFrame DEF RowsFrame

\* Queueing a message to the runtime, whoever sends it, is a StepOK step.
LEMMA SendingOK ==
    ASSUME TypeOK, AuthorityInv, AssignWork \/ DisposeContinue \/ RequestStatus
    PROVE  StepOK
<1>1. RowsFrame
  BY SendMessageFrame DEF AssignWork, DisposeContinue, RequestStatus, Kinds
<1>2. JobsFrame /\ LaunchFrame
  BY UnchangedJobs, UnchangedLaunchFrame DEF AssignWork, DisposeContinue, RequestStatus
<1>3. RestFrame
  BY DEF AssignWork, DisposeContinue, RequestStatus, RestFrame, TypeOK, history, AttemptStates, Active
<1> QED BY <1>1, <1>2, <1>3, Combine

\* CancelWork is a StepOK step.
LEMMA CancelWorkOK ==
    ASSUME TypeOK, AuthorityInv, CancelWork
    PROVE  StepOK
<1>3. RowsFrame
  <2>1. CASE rt \in RtTerminal
    <3>1. ASSUME NEW m \in Msgs
          PROVE  rows'[m] \in Row /\ RowAdvances(rows[m], rows'[m])
      <4>1. rows[m] \in Row
        BY DEF TypeOK
      <4>2. rows'[m] = Closed(rows[m], "dead") \/ rows'[m] = rows[m]
        BY <2>1 DEF CancelWork
      <4> QED BY <4>1, <4>2, RowClosed, RowReflexive DEF CloseStates
    <3>2. rows' = [m \in Msgs |-> rows'[m]]
      BY <2>1 DEF CancelWork
    <3> QED BY <3>1, <3>2 DEF RowsFrame, RowsAdvance
  <2>2. CASE rt \notin RtTerminal
    BY <2>2, SendMessageFrame DEF CancelWork, Kinds
  <2> QED BY <2>1, <2>2
<1>4. JobsFrame /\ LaunchFrame
  BY UnchangedJobs, UnchangedLaunchFrame DEF CancelWork
<1>5. RestFrame
  BY DEF CancelWork, RestFrame, TypeOK, history, AttemptStates
<1> QED BY <1>3, <1>4, <1>5, Combine

\* StopRuntime is a StepOK step.
LEMMA StopRuntimeOK ==
    ASSUME TypeOK, AuthorityInv, StopRuntime
    PROVE  StepOK
<1>1. RowsFrame /\ JobsFrame /\ RestFrame
  BY UnchangedRowsFrame, UnchangedJobs, UnchangedRest DEF StopRuntime, RowsFrame
<1>2. LaunchFrame
  <2>1. enr \in Enrollment
    BY LaunchTypes DEF LaunchOK
  <2>2. enr' \in Enrollment /\ enr'.st \notin EnrLive /\ enr'.gen >= enr.gen
    <3>1. CASE enr.st \in EnrLive
      <4>1. enr' \in Enrollment /\ enr'.st = "revoked" /\ enr'.gen = enr.gen + 1
        BY <2>1, <3>1, EnrollmentEnds DEF StopRuntime
      <4> QED BY <2>1, <4>1 DEF EnrLive, Enrollment
    <3>2. CASE enr.st \notin EnrLive
      BY <2>1, <3>2 DEF StopRuntime, Enrollment
    <3> QED BY <3>1, <3>2
  <2>3. tick' = ClosePending("revoked") /\ cred' = 0 /\ rt' \in RtTerminal
    BY DEF StopRuntime, RtTerminal
  <2> QED BY <2>2, <2>3, EnrollmentClosed, LaunchTypes
<1> QED BY <1>1, <1>2, Combine

\* ResolveDelivery is a StepOK step.
LEMMA ResolveDeliveryOK ==
    ASSUME TypeOK, AuthorityInv, NEW m \in Msgs, NEW outcome, ResolveDelivery(m, outcome)
    PROVE  StepOK
<1> DEFINE r == [rows[m] EXCEPT !.limited = FALSE]
<1>1. rows[m] \in Row
  BY DEF TypeOK
<1>2. r \in Row /\ rows[m].st # "none"
  BY <1>1, RowColumns DEF ResolveDelivery
<1>3. RowAdvances(rows[m], r) /\ r.st # "none"
  BY <1>1, <1>2, SMT DEF Row, RowAdvances
<1>4. \/ SetRow(m, Closed(r, "delivered"))
      \/ SetRow(m, Requeued(r))
      \/ SetRow(m, Closed(r, "dead"))
  BY DEF ResolveDelivery
<1> HIDE DEF r
<1>5. /\ Closed(r, "delivered") \in Row /\ RowAdvances(r, Closed(r, "delivered"))
      /\ Closed(r, "dead") \in Row /\ RowAdvances(r, Closed(r, "dead"))
      /\ Requeued(r) \in Row /\ RowAdvances(r, Requeued(r))
  BY <1>2, RowClosed, RowRequeued DEF CloseStates
<1>6. RowsFrame
  BY <1>1, <1>2, <1>3, <1>4, <1>5, RowTransitive, SetRowFrame DEF RowsFrame
<1>7. JobsFrame /\ LaunchFrame
  BY UnchangedJobs, UnchangedLaunchFrame DEF ResolveDelivery
<1>8. RestFrame
  <2>1. retries[m] + 1 \in Nat
    BY DEF TypeOK
  <2>2. retries' \in [Msgs -> Nat]
    BY <2>1 DEF ResolveDelivery, TypeOK
  <2> QED BY <2>2 DEF ResolveDelivery, RestFrame, TypeOK
<1> QED BY <1>6, <1>7, <1>8, Combine

\* Every call of the supervisor or operator is a StepOK step.
LEMMA SupervisorCallOK ==
    ASSUME TypeOK, AuthorityInv, SupervisorCall
    PROVE  StepOK
BY SendingOK, CancelWorkOK, StopRuntimeOK, ResolveDeliveryOK DEF SupervisorCall

\* ExpireRuntimeLease is a StepOK step.
LEMMA ExpireRuntimeLeaseOK ==
    ASSUME TypeOK, AuthorityInv, ExpireRuntimeLease
    PROVE  StepOK
<1>1. RowsFrame /\ JobsFrame
  BY UnchangedRowsFrame, UnchangedJobs DEF ExpireRuntimeLease, RowsFrame
<1>2. RestFrame
  BY DEF ExpireRuntimeLease, RecoverAttempt, RestFrame, TypeOK, history, AttemptStates
<1>3. LaunchFrame
  <2>1. enr \in Enrollment /\ enr.st \in EnrLive
    BY LaunchTypes DEF LaunchOK, ExpireRuntimeLease, AuthorityInv, TerminalTogether
  <2>2. enr' \in Enrollment /\ enr'.st = "failed" /\ enr'.gen = enr.gen + 1
    BY <2>1, EnrollmentEnds DEF ExpireRuntimeLease
  <2>3. enr'.st \notin EnrLive /\ enr'.gen >= enr.gen
    BY <2>1, <2>2 DEF EnrLive, Enrollment
  <2>4. tick' = ClosePending("expired") /\ cred' = 0 /\ rt' \in RtTerminal
    BY <2>1 DEF ExpireRuntimeLease, RtTerminal
  <2> QED BY <2>2, <2>3, <2>4, EnrollmentClosed, LaunchTypes
<1> QED BY <1>1, <1>2, <1>3, Combine

\* Reconciling and settling scans of the lane are StepOK steps.
LEMMA ReconcileOK ==
    ASSUME TypeOK, AuthorityInv, ReconcileCompletedTurns \/ SettleTerminalLane
    PROVE  StepOK
<1>1. rows \in [Msgs -> Row]
  BY DEF TypeOK
<1>2. RowsFrame
  <2>1. CASE ReconcileCompletedTurns
    <3>1. last \in Msgs
      BY <2>1, BoundAssumption DEF ReconcileCompletedTurns, TypeOK, Msgs
    <3>2. rows' = AdvanceLane(rows, last) \/ rows' = ParkUnstarted(rows)
      BY <2>1 DEF ReconcileCompletedTurns
    <3> QED BY <1>1, <3>1, <3>2, LaneHelpers DEF RowsFrame, RowsAdvance
  <2>2. CASE SettleTerminalLane
    <3>1. 1 \in Msgs
      BY BoundAssumption DEF Msgs
    <3> QED BY <1>1, <2>2, <3>1, LaneHelpers DEF SettleTerminalLane, RowsFrame, RowsAdvance
  <2> QED BY <2>1, <2>2
<1>3. JobsFrame /\ LaunchFrame
  BY UnchangedJobs, UnchangedLaunchFrame DEF ReconcileCompletedTurns, SettleTerminalLane
<1>4. RestFrame
  BY DEF ReconcileCompletedTurns, SettleTerminalLane, RestFrame, TypeOK, history, AttemptStates
<1> QED BY <1>2, <1>3, <1>4, Combine

\* RecoverOverdueUnstarted is a StepOK step.
LEMMA RecoverOverdueUnstartedOK ==
    ASSUME TypeOK, AuthorityInv, RecoverOverdueUnstarted
    PROVE  StepOK
<1>1. RowsFrame
  <2>1. 1 \in Msgs
    BY BoundAssumption DEF Msgs
  <2>2. rows \in [Msgs -> Row]
    BY DEF TypeOK
  <2>3. rows' = rows \/ rows' = ParkUnstarted(rows)
    BY DEF RecoverOverdueUnstarted
  <2> QED BY <2>1, <2>2, <2>3, LaneHelpers, UnchangedRowsFrame DEF RowsFrame, RowsAdvance
<1>2. JobsFrame
  BY UnchangedJobs DEF RecoverOverdueUnstarted
<1>3. LaunchFrame
  BY FailEnrollmentFrame, UnchangedLaunchFrame, LaunchTypes DEF RecoverOverdueUnstarted
<1>4. RestFrame
  BY DEF RecoverOverdueUnstarted, RestFrame, TypeOK, history, AttemptStates
<1> QED BY <1>1, <1>2, <1>3, <1>4, Combine

\* Every recovery scan is a StepOK step.
LEMMA ScanOK ==
    ASSUME TypeOK, AuthorityInv, Scan
    PROVE  StepOK
BY ExpireRuntimeLeaseOK, ReconcileOK, RecoverOverdueUnstartedOK DEF Scan

-----------------------------------------------------------------------------
(* Fences.                                                                 *)

\* A step that advances rows and keeps fences keeps them unique.
LEMMA FenceStep ==
    ASSUME TypeOK, FenceInv, StepOK
    PROVE  FenceInv'
<1>1. /\ \A m \in Msgs : rows[m].gen \in Nat /\ rows'[m].gen \in Nat
      /\ \A j \in jobs : j.g \in Nat /\ j.m \in Msgs
      /\ \A j \in jobs' : j.g \in Nat /\ j.m \in Msgs
  BY DEF StepOK, TypeOK, Row, Job
<1>2. \A j \in jobs' : \E i \in jobs : i.m = j.m /\ i.g = j.g
  BY DEF StepOK, JobsKeepFence
<1>3. FenceBound'
  <2>1. ASSUME NEW j \in jobs'
        PROVE  /\ rows'[j.m].st # "none"
               /\ j.g <= rows'[j.m].gen
               /\ rows'[j.m].st = "queued" => j.g < rows'[j.m].gen
    <3>1. PICK i \in jobs : i.m = j.m /\ i.g = j.g
      BY <1>2
    <3>2. /\ rows[j.m].st # "none" /\ j.g <= rows[j.m].gen
          /\ rows[j.m].st = "queued" => j.g < rows[j.m].gen
      BY <3>1 DEF FenceInv, FenceBound
    <3>3. RowAdvances(rows[j.m], rows'[j.m])
      BY <1>1 DEF StepOK, RowsAdvance
    <3> QED BY <1>1, <3>2, <3>3 DEF RowAdvances
  <2> QED BY <2>1 DEF FenceBound
<1>4. FenceUnique'
  <2>1. CASE jobs' \subseteq jobs
    BY <2>1 DEF FenceInv, FenceUnique
  <2>2. CASE \E j \in jobs, k \in Job : k.m = j.m /\ k.g = j.g /\ jobs' = (jobs \ {j}) \cup {k}
    BY <2>2 DEF FenceInv, FenceUnique
  <2> QED BY <2>1, <2>2 DEF StepOK, JobsKeepFence
<1> QED BY <1>3, <1>4 DEF FenceInv

\* A claim leases a queued row, whose generation no job holds.
LEMMA ClaimDeliveryInd ==
    ASSUME IndInv, NEW d \in Disp, ClaimDelivery(d)
    PROVE  IndInv'
<1>1. TypeOK /\ FenceInv /\ AuthorityInv
  BY DEF IndInv
<1>2. PICK expired \in SUBSET {m \in Msgs : Expirable(rows[m])} :
        LET rs == [m \in Msgs |-> IF m \in expired THEN Requeued(rows[m]) ELSE rows[m]]
        IN  \/ /\ expired # {}
               /\ rows' = rs
               /\ UNCHANGED jobs
            \/ \E m \in Msgs :
                 /\ Claimable(rs, m)
                 /\ Cardinality(jobs) < MaxJobs
                 /\ rows' = [rs EXCEPT ![m].st = "leased", ![m].own = d]
                 /\ jobs' = jobs \cup
                      {[d |-> d, m |-> m, g |-> rs[m].gen, t |-> 0, ph |-> "claimed",
                        res |-> "none", sub |-> FALSE, obs |-> FALSE]}
  BY DEF ClaimDelivery
<1> DEFINE rs == [m \in Msgs |-> IF m \in expired THEN Requeued(rows[m]) ELSE rows[m]]
<1>3. LaunchFrame /\ RestFrame
  BY <1>1, UnchangedLaunchFrame, UnchangedRest DEF ClaimDelivery
<1>4. ASSUME NEW m \in Msgs
      PROVE  rs[m] \in Row /\ RowAdvances(rows[m], rs[m])
  <2>1. rows[m] \in Row
    BY <1>1 DEF TypeOK
  <2>2. rs[m] = Requeued(rows[m]) \/ rs[m] = rows[m]
    OBVIOUS
  <2> QED BY <2>1, <2>2, RowRequeued, RowReflexive
<1>5. rs \in [Msgs -> Row]
  BY <1>4
<1>6. CASE rows' = rs /\ UNCHANGED jobs
  <2>1. RowsFrame
    BY <1>4, <1>5, <1>6 DEF RowsFrame, RowsAdvance
  <2>2. JobsFrame
    BY <1>1, <1>6, UnchangedJobs
  <2>3. StepOK
    BY <1>3, <2>1, <2>2, Combine
  <2> QED BY <1>1, <2>3, FenceStep DEF IndInv, StepOK
<1>7. ASSUME NEW m \in Msgs, Claimable(rs, m),
             rows' = [rs EXCEPT ![m].st = "leased", ![m].own = d],
             jobs' = jobs \cup {[d |-> d, m |-> m, g |-> rs[m].gen, t |-> 0, ph |-> "claimed",
                                 res |-> "none", sub |-> FALSE, obs |-> FALSE]}
      PROVE  IndInv'
  <2> DEFINE k == [d |-> d, m |-> m, g |-> rs[m].gen, t |-> 0, ph |-> "claimed",
                   res |-> "none", sub |-> FALSE, obs |-> FALSE]
             l == [rs[m] EXCEPT !.st = "leased"]
             w == [l EXCEPT !.own = d]
  <2>1. w \in Row /\ w.st = "leased" /\ w.gen = rs[m].gen
    <3>1. rs[m] \in Row
      BY <1>4
    <3> HIDE DEF rs
    <3>2. l \in Row
      BY <3>1, RowColumns DEF RowStates, Open
    <3>3. w \in Row
      BY <3>2, RowColumns
    <3> QED BY <3>1, <3>3 DEF Row
  <2>2. rows' = [rs EXCEPT ![m] = w]
    BY <1>7
  <2>3. rs[m].st = "queued" /\ rs[m].gen \in Nat
    BY <1>4, <1>7 DEF Claimable, Row
  <2> HIDE DEF rs, w
  <2>4. rows' \in [Msgs -> Row] /\ rows'[m] = w /\ \A n \in Msgs \ {m} : rows'[n] = rs[n]
    BY <1>5, <2>1, <2>2
  <2>5. k \in Job
    <3>1. FALSE \in BOOLEAN /\ 0 \in 0 .. MaxTickets /\ rs[m].gen \in Nat
      BY <2>3, BoundAssumption
    <3> QED BY <3>1 DEF Job, Phases, Results
  <2>6. k.m = m /\ k.g = rs[m].gen
    OBVIOUS
  <2>7. jobs' = jobs \cup {k}
    BY <1>7
  <2> HIDE DEF k
  <2>8. /\ \A j \in jobs : j.m \in Msgs /\ j.g \in Nat
        /\ \A n \in Msgs : rows[n].gen \in Nat /\ rs[n].gen \in Nat
    BY <1>1, <1>5 DEF TypeOK, Job, Row
  <2>9. \A j \in jobs : /\ rs[j.m].st # "none"
                        /\ j.g <= rs[j.m].gen
                        /\ rs[j.m].st = "queued" => j.g < rs[j.m].gen
    BY <1>1, <1>4, <2>8 DEF FenceInv, FenceBound, RowAdvances
  <2>10. FenceBound'
    BY <2>1, <2>3, <2>4, <2>6, <2>7, <2>8, <2>9 DEF FenceBound
  <2>11. \A j \in jobs : ~(j.m = k.m /\ j.g = k.g)
    BY <2>3, <2>6, <2>8, <2>9
  <2>12. FenceUnique'
    BY <1>1, <2>7, <2>11 DEF FenceInv, FenceUnique
  <2>13. TypeOK' /\ AuthorityInv'
    <3>1. jobs' \subseteq Job
      BY <1>1, <2>5, <2>7 DEF TypeOK
    <3> QED BY <1>3, <2>4, <3>1 DEF LaunchFrame, LaunchOK, Enrollment, RestFrame, TypeOK
  <2> QED BY <2>10, <2>12, <2>13 DEF IndInv, FenceInv
<1> QED BY <1>2, <1>6, <1>7

-----------------------------------------------------------------------------
(* The theorems.                                                           *)

\* The inductive invariant holds initially.
LEMMA InitInd == Init => IndInv
<1> SUFFICES ASSUME Init PROVE IndInv
  OBVIOUS
<1>1. PICK k \in {"bootstrap", "assignment"} :
        /\ rows = [m \in Msgs |-> IF m = 1 THEN NewRow(k) ELSE NoRow]
        /\ attempt = IF k = "assignment" THEN "assigned" ELSE "none"
  BY DEF Init
<1>2. NewRow(k) \in Row /\ NewRow("bootstrap") \in Row
  <2>1. FALSE \in BOOLEAN /\ 0 \in Nat /\ 1 \in Nat /\ k \in Kinds
    BY DEF Kinds
  <2> QED BY <2>1 DEF NewRow, Row, RowStates, Open, Kinds
<1>3. NoRow \in Row
  BY <1>2, RowColumns DEF NoRow, RowStates
<1>4. rows \in [Msgs -> Row] /\ attempt \in AttemptStates
  BY <1>1, <1>2, <1>3 DEF AttemptStates, Active
<1>5. LaunchOK
  <2>1. FALSE \in BOOLEAN /\ 0 \in Nat
    OBVIOUS
  <2>2. enr \in Enrollment
    BY <2>1 DEF Init, Enrollment, EnrStates, EnrLive
  <2>3. [st |-> "none", gen |-> 0, att |-> FALSE] \in Ticket
    BY <2>1 DEF Ticket, TicketStates
  <2> QED BY <2>1, <2>2, <2>3 DEF Init, LaunchOK, RtStates
<1>6. TypeOK
  BY <1>4, <1>5, BoundAssumption DEF Init, TypeOK, LaunchOK, Enrollment
<1>7. FenceInv
  BY DEF Init, FenceInv, FenceUnique, FenceBound
<1>8. AuthorityInv
  <2>1. \A t \in Tickets : tick[t].st = "none"
    BY DEF Init
  <2>2. cred = 0 /\ rt = "starting" /\ enr.st = "awaiting_handshake"
    BY DEF Init
  <2> QED BY <2>1, <2>2 DEF AuthorityInv, PendingIsCurrent, CredentialIsCurrent,
            GenerationsConsumedOnce, TerminalTogether, Pending, RtTerminal, EnrLive
<1> QED BY <1>6, <1>7, <1>8 DEF IndInv

\* Every step, of any Dispatcher, Worker, supervisor or scan, keeps the
\* inductive invariant.
LEMMA NextInd == IndInv /\ [Next]_vars => IndInv'
<1> SUFFICES ASSUME IndInv, [Next]_vars PROVE IndInv'
  OBVIOUS
<1>1. TypeOK /\ FenceInv /\ AuthorityInv
  BY DEF IndInv
<1>2. CASE \E d \in Disp : ClaimDelivery(d)
  BY <1>2, ClaimDeliveryInd
<1>3. CASE StepOK
  BY <1>1, <1>3, FenceStep DEF StepOK, IndInv
<1>4. CASE \E d \in Disp : CrashDispatcher(d)
  BY <1>1, <1>3, <1>4, CrashDispatcherOK
<1>5. CASE \E j \in jobs : JobStep(j)
  BY <1>1, <1>3, <1>5, JobStepOK
<1>6. CASE WorkerCall \/ SupervisorCall \/ Scan
  BY <1>1, <1>3, <1>6, WorkerCallOK, SupervisorCallOK, ScanOK
<1>7. CASE UNCHANGED vars
  <2>1. RowsFrame /\ JobsFrame /\ LaunchFrame /\ RestFrame
    BY <1>1, <1>7, UnchangedRowsFrame, UnchangedJobs, UnchangedLaunchFrame, UnchangedRest
       DEF vars, launch, history, RowsFrame
  <2> QED BY <1>3, <2>1, Combine
<1> QED BY <1>2, <1>4, <1>5, <1>6, <1>7 DEF Next

\* The inductive invariant: types, unique (message, generation) fencing tokens
\* among the delivery jobs, and an unsplit launch authority hold together in
\* every reachable state, whichever Dispatcher, Worker or scan moves next.
THEOREM IndInvariant == Spec => []IndInv
BY InitInd, NextInd, PTL DEF Spec

\* Every durable value stays in its domain, for any number of messages,
\* Dispatchers, tickets and jobs.
THEOREM TypeCorrect == Spec => []TypeOK
<1>1. IndInv => TypeOK
  BY DEF IndInv
<1> QED BY <1>1, IndInvariant, PTL

\* The launch authority of a managed runtime is never split.
THEOREM LaunchAuthority == Spec => []AuthorityInv
<1>1. IndInv => AuthorityInv
  BY DEF IndInv
<1> QED BY <1>1, IndInvariant, PTL

\* No two delivery jobs ever hold the same fencing token.
THEOREM FencesAreUnique == Spec => []FenceUnique
<1>1. IndInv => FenceUnique
  BY DEF IndInv, FenceInv
<1> QED BY <1>1, IndInvariant, PTL

-----------------------------------------------------------------------------
(***************************************************************************)
(* Submissions.  A message is submitted to the provider once for each      *)
(* operator's resolution, a launch is exclusive, and what the Worker       *)
(* acknowledged is never offered again.                                    *)
(*                                                                         *)
(* The argument is a budget.  A job that may still submit is "cocked": its *)
(* reservation committed and its turn was not started.  Submissions made   *)
(* and submissions cocked are paid for by the operator's retries, and the  *)
(* first one by the row itself, for as long as the row can be launched.    *)
(***************************************************************************)

\* The rows a reservation can still reach: not sent, waiting, leased, or
\* exhausted and re-armed by a heartbeat.
Launchable(r) == r.st \in {"none", "queued", "leased"} \/ (r.st = "dead" /\ r.pol = "retryable")

\* Only an exhausted row is replayed: an open row's policy is terminal.
PolicyOK(r) == r.st \in Open => r.pol = "terminal"
Policies == \A m \in Msgs : PolicyOK(rows[m])

\* A job that reserved its row and has not submitted it yet.
Cocked(j) == j.ph \in {"dispatched", "running"} /\ ~j.sub
CockedIn(js, m) == {j \in js : j.m = m /\ Cocked(j)}

\* Submissions made and still to be made, and what pays for them.
Used(m) == subs[m] + Cardinality(CockedIn(jobs, m))
Allowed(m) == IF Launchable(rows[m]) THEN retries[m] ELSE 1 + retries[m]

Budget ==
    /\ IsFiniteSet(jobs)
    /\ Policies
    /\ \A m \in Msgs : Used(m) <= Allowed(m)

\* What every step but a reservation and an operator's retry does to a row:
\* it makes no row launchable, dispatches none and reopens none.
RowCore(r, s) ==
    /\ PolicyOK(s)
    /\ Launchable(s) => Launchable(r)
    /\ s.st = "dispatched" => r.st = "dispatched"
    /\ r.st \in {"acknowledged", "handled"} => s.st \in {"acknowledged", "handled", "dead"}
RowsCore == \A m \in Msgs : RowCore(rows[m], rows'[m])

\* What, of those, every step but a claim and a send does to a row as well:
\* it uses no new row, leases none, and a closed row comes back only queued.
RowHolds(r, s) ==
    /\ RowCore(r, s)
    /\ r.st = "none" => s = r
    /\ s.st = "leased" => r.st = "leased"
    /\ r.st \in {"handled", "dead"} /\ s.st \in Open => s.st = "queued"
RowsHold == \A m \in Msgs : RowHolds(rows[m], rows'[m])

\* What every step but a reservation and a submission does to the jobs: it
\* cocks none, and moves at most one on.
JobsHold ==
    \/ jobs' \subseteq jobs
    \/ \E k \in Job : ~Cocked(k) /\ jobs' \subseteq jobs \cup {k}
    \/ \E j \in jobs, k \in Job : /\ k.m = j.m /\ Cocked(j)
                                  /\ jobs' = (jobs \ {j}) \cup {k}

Quiet == RowsCore /\ JobsHold /\ UNCHANGED history
Still == RowsHold /\ JobsHold /\ UNCHANGED history

\* A still step is quiet.
LEMMA StillIsQuiet == Still => Quiet
BY DEF Still, Quiet, RowsHold, RowsCore, RowHolds

-----------------------------------------------------------------------------
(* The row helpers: the state and the policy they leave.                   *)

\* Each shared row transition, by the state and the policy of its result.
LEMMA RowFaces ==
    ASSUME NEW r \in Row
    PROVE  /\ Requeued(r).st = "queued" /\ Requeued(r).pol = r.pol
           /\ \A x \in RowStates : Closed(r, x).st = x /\ Closed(r, x).pol = r.pol
           /\ Spent(r).st = r.st /\ Spent(r).pol = r.pol
           /\ \A x \in BOOLEAN : /\ [r EXCEPT !.limited = x].st = r.st
                                 /\ [r EXCEPT !.limited = x].pol = r.pol
           /\ \A x \in {"terminal", "retryable"} : /\ [r EXCEPT !.pol = x].st = r.st
                                                   /\ [r EXCEPT !.pol = x].pol = x
<1>1. Requeued(r).st = "queued" /\ Requeued(r).pol = r.pol
  BY SMT DEF Row, Requeued
<1>2. \A x \in RowStates : Closed(r, x).st = x /\ Closed(r, x).pol = r.pol
  BY SMT DEF Row, Closed
<1>3. Spent(r).st = r.st /\ Spent(r).pol = r.pol
  BY SMT DEF Row, Spent
<1>4. /\ \A x \in BOOLEAN : /\ [r EXCEPT !.limited = x].st = r.st
                            /\ [r EXCEPT !.limited = x].pol = r.pol
      /\ \A x \in {"terminal", "retryable"} : /\ [r EXCEPT !.pol = x].st = r.st
                                              /\ [r EXCEPT !.pol = x].pol = x
  BY SMT DEF Row
<1> QED BY <1>1, <1>2, <1>3, <1>4

\* A row parked as terminally dead, whether or not an attempt is spent on it.
LEMMA DeadFaces ==
    ASSUME NEW r \in Row
    PROVE  /\ DeadTerminal(r).st = "dead" /\ DeadTerminal(r).pol = "terminal"
           /\ Spent(DeadTerminal(r)).st = "dead" /\ Spent(DeadTerminal(r)).pol = "terminal"
<1>1. Closed(r, "dead") \in Row /\ Closed(r, "dead").st = "dead"
  BY RowClosed, RowFaces DEF CloseStates, RowStates, Open
<1>2. DeadTerminal(r).st = "dead" /\ DeadTerminal(r).pol = "terminal"
  BY <1>1, RowFaces DEF DeadTerminal
<1>3. DeadTerminal(r) \in Row
  BY RowDeadTerminal
<1> QED BY <1>2, <1>3, RowFaces

\* _finish_delivery leaves a row dead and replayable, or queued again.
LEMMA FinishFaces ==
    ASSUME NEW r \in Row
    PROVE  \/ FinishRow(r).st = "dead" /\ FinishRow(r).pol = "retryable"
           \/ FinishRow(r).st = "queued" /\ FinishRow(r).pol = "terminal"
<1>1. CASE r.tries + 1 >= MaxAttempts
  <2>1. Closed(r, "dead") \in Row /\ Closed(r, "dead").st = "dead"
    BY RowClosed, RowFaces DEF CloseStates, RowStates, Open
  <2>2. Spent(Closed(r, "dead")) \in Row /\ Spent(Closed(r, "dead")).st = "dead"
    BY <2>1, RowClosed, RowSpent, RowFaces DEF CloseStates
  <2> QED BY <1>1, <2>2, RowFaces DEF FinishRow
<1>2. CASE ~(r.tries + 1 >= MaxAttempts)
  <2>1. Spent(Requeued(r)) \in Row /\ Spent(Requeued(r)).st = "queued"
    BY RowRequeued, RowSpent, RowFaces
  <2> QED BY <1>2, <2>1, RowFaces DEF FinishRow
<1> QED BY <1>1, <1>2

\* A handler that writes one row and holds it holds every row.
LEMMA SetRowHolds ==
    ASSUME TypeOK, Policies, NEW m \in Msgs, NEW r, SetRow(m, r), RowHolds(rows[m], r)
    PROVE  RowsHold
BY DEF TypeOK, Policies, SetRow, RowsHold, RowHolds, RowCore, Open

\* A step that writes no row holds every row.
LEMMA UnchangedRowsHold ==
    ASSUME Policies, UNCHANGED rows
    PROVE  RowsHold
BY DEF Policies, RowsHold, RowHolds, RowCore, Open

\* _finish_delivery, which is fenced on 'leased', holds every row.
LEMMA FinishDeliveryHolds ==
    ASSUME TypeOK, Policies, NEW j \in jobs, FinishDelivery(j)
    PROVE  RowsHold
<1>1. j.m \in Msgs /\ rows[j.m] \in Row
  BY SMT DEF TypeOK, Job
<1>2. CASE Owns(j, "leased")
  <2>1. rows[j.m].st = "leased" /\ SetRow(j.m, FinishRow(rows[j.m]))
    BY <1>2 DEF FinishDelivery, Owns
  <2>2. RowHolds(rows[j.m], FinishRow(rows[j.m]))
    BY <1>1, <2>1, FinishFaces DEF RowHolds, RowCore, PolicyOK, Launchable, Open
  <2> QED BY <1>1, <2>1, <2>2, SetRowHolds
<1>3. CASE ~Owns(j, "leased")
  BY <1>3, UnchangedRowsHold DEF FinishDelivery
<1> QED BY <1>2, <1>3

\* A deferral, which is fenced on 'leased', holds every row.
LEMMA DeferDeliveryHolds ==
    ASSUME TypeOK, Policies, NEW j \in jobs, NEW limited \in BOOLEAN, DeferDelivery(j, limited)
    PROVE  RowsHold
<1>1. j.m \in Msgs /\ rows[j.m] \in Row /\ PolicyOK(rows[j.m])
  BY SMT DEF TypeOK, Job, Policies
<1> DEFINE r == [Requeued(rows[j.m]) EXCEPT !.limited = limited]
<1>2. CASE Owns(j, "leased")
  <2>1. rows[j.m].st = "leased" /\ SetRow(j.m, r)
    BY <1>2 DEF DeferDelivery, Owns
  <2>2. r.st = "queued" /\ r.pol = rows[j.m].pol
    BY <1>1, RowRequeued, RowFaces
  <2>3. RowHolds(rows[j.m], r)
    BY <1>1, <2>1, <2>2 DEF RowHolds, RowCore, PolicyOK, Launchable, Open
  <2> QED BY <1>1, <2>1, <2>3, SetRowHolds
<1>3. CASE ~Owns(j, "leased")
  BY <1>3, UnchangedRowsHold DEF DeferDelivery
<1> QED BY <1>2, <1>3

-----------------------------------------------------------------------------
(* The jobs, and the budget of a quiet step.                               *)

\* A job that ends holds the others; so does a step that touches no job.
LEMMA EndHolds ==
    ASSUME NEW j, End(j) \/ UNCHANGED jobs
    PROVE  JobsHold
BY DEF End, JobsHold

\* A job that moves on without being cocked by it holds every job.
LEMMA MoveHolds ==
    ASSUME NEW j \in jobs, NEW k \in Job, k.m = j.m, Cocked(k) => Cocked(j),
           jobs' = (jobs \ {j}) \cup {k}
    PROVE  JobsHold
BY DEF JobsHold

\* Moving a job to a phase in which it cannot submit cocks nothing.
LEMMA PhaseHolds ==
    ASSUME TypeOK, NEW j \in jobs, NEW ph \in Phases \ {"dispatched", "running"}, Step(j, ph)
    PROVE  JobsHold
<1> DEFINE k == [j EXCEPT !.ph = ph]
<1>1. j \in Job
  BY DEF TypeOK
<1>2. k \in Job /\ k.m = j.m /\ k.ph = ph
  BY <1>1, JobColumns DEF Job
<1>3. ~Cocked(k)
  BY <1>2 DEF Cocked
<1> QED BY <1>2, <1>3, MoveHolds DEF Step

\* The cocked jobs of a message are finitely many.
LEMMA CockedFinite ==
    ASSUME NEW js, IsFiniteSet(js), NEW m
    PROVE  IsFiniteSet(CockedIn(js, m)) /\ Cardinality(CockedIn(js, m)) \in Nat
<1>1. CockedIn(js, m) \subseteq js
  BY DEF CockedIn
<1> QED BY <1>1, FS_Subset, FS_CardinalityType

\* A step that holds the jobs leaves no message more cocked jobs.
LEMMA JobsHoldCount ==
    ASSUME IsFiniteSet(jobs), JobsHold
    PROVE  /\ IsFiniteSet(jobs')
           /\ \A m \in Msgs : Cardinality(CockedIn(jobs', m)) <= Cardinality(CockedIn(jobs, m))
<1>1. CASE jobs' \subseteq jobs
  <2>1. \A m \in Msgs : CockedIn(jobs', m) \subseteq CockedIn(jobs, m)
    BY <1>1 DEF CockedIn
  <2> QED BY <1>1, <2>1, FS_Subset, CockedFinite
<1>2. CASE \E k \in Job : ~Cocked(k) /\ jobs' \subseteq jobs \cup {k}
  <2>1. PICK k \in Job : ~Cocked(k) /\ jobs' \subseteq jobs \cup {k}
    BY <1>2
  <2>2. IsFiniteSet(jobs')
    BY <2>1, FS_AddElement, FS_Subset
  <2>3. \A m \in Msgs : CockedIn(jobs', m) \subseteq CockedIn(jobs, m)
    BY <2>1 DEF CockedIn
  <2> QED BY <2>2, <2>3, FS_Subset, CockedFinite
<1>3. ASSUME NEW j \in jobs, NEW k \in Job, k.m = j.m, Cocked(j), jobs' = (jobs \ {j}) \cup {k}
      PROVE  /\ IsFiniteSet(jobs')
             /\ \A m \in Msgs :
                  Cardinality(CockedIn(jobs', m)) <= Cardinality(CockedIn(jobs, m))
  <2>1. IsFiniteSet(jobs')
    BY <1>3, FS_RemoveElement, FS_AddElement
  <2>2. ASSUME NEW m \in Msgs
        PROVE  Cardinality(CockedIn(jobs', m)) <= Cardinality(CockedIn(jobs, m))
    <3> DEFINE C == CockedIn(jobs, m)
    <3>1. IsFiniteSet(C) /\ Cardinality(C) \in Nat
      BY CockedFinite
    <3>2. CASE j.m = m
      <4>1. j \in C
        BY <1>3, <3>2 DEF CockedIn
      <4>2. IsFiniteSet(C \ {j}) /\ Cardinality(C \ {j}) = Cardinality(C) - 1
        BY <3>1, <4>1, FS_RemoveElement
      <4>3. /\ IsFiniteSet((C \ {j}) \cup {k})
            /\ Cardinality((C \ {j}) \cup {k}) <= Cardinality(C)
        <5> DEFINE D == C \ {j}
        <5>1. IsFiniteSet(D) /\ Cardinality(D) = Cardinality(C) - 1
          BY <4>2
        <5> HIDE DEF C, D
        <5>2. /\ IsFiniteSet(D \cup {k})
              /\ Cardinality(D \cup {k}) = IF k \in D THEN Cardinality(D) ELSE Cardinality(D) + 1
          BY <5>1, FS_AddElement
        <5>3. Cardinality(D \cup {k}) <= Cardinality(C)
          BY <3>1, <5>1, <5>2
        <5> QED BY <5>2, <5>3 DEF D
      <4>4. CockedIn(jobs', m) \subseteq (C \ {j}) \cup {k}
        BY <1>3 DEF CockedIn
      <4>5. /\ Cardinality(CockedIn(jobs', m)) <= Cardinality((C \ {j}) \cup {k})
            /\ Cardinality(CockedIn(jobs', m)) \in Nat
            /\ Cardinality((C \ {j}) \cup {k}) \in Nat
        BY <4>3, <4>4, FS_Subset, FS_CardinalityType
      <4> QED BY <3>1, <4>3, <4>5
    <3>3. CASE j.m # m
      <4>1. CockedIn(jobs', m) \subseteq C
        BY <1>3, <3>3 DEF CockedIn
      <4> QED BY <3>1, <4>1, FS_Subset
    <3> QED BY <3>2, <3>3
  <2> QED BY <2>1, <2>2
<1> QED BY <1>1, <1>2, <1>3 DEF JobsHold

\* A quiet step keeps the budget.
LEMMA QuietBudget ==
    ASSUME TypeOK, TypeOK', Budget, Quiet
    PROVE  Budget'
<1>1. RowsCore /\ JobsHold /\ subs' = subs /\ retries' = retries
  BY DEF Quiet, history
<1>2. /\ IsFiniteSet(jobs')
      /\ \A m \in Msgs : Cardinality(CockedIn(jobs', m)) <= Cardinality(CockedIn(jobs, m))
  BY <1>1, JobsHoldCount DEF Budget
<1>3. Policies'
  BY <1>1 DEF Policies, RowsCore, RowCore
<1>4. ASSUME NEW m \in Msgs
      PROVE  Used(m)' <= Allowed(m)'
  <2>1. /\ subs[m] \in Nat /\ retries[m] \in Nat
        /\ Cardinality(CockedIn(jobs, m)) \in Nat /\ Cardinality(CockedIn(jobs', m)) \in Nat
    BY <1>2, CockedFinite DEF TypeOK, Budget
  <2>2. Used(m) <= Allowed(m) /\ (Launchable(rows'[m]) => Launchable(rows[m]))
    BY <1>1 DEF Budget, RowsCore, RowCore
  <2>3. Cardinality(CockedIn(jobs', m)) <= Cardinality(CockedIn(jobs, m))
    BY <1>2
  <2>4. /\ subs[m] + Cardinality(CockedIn(jobs, m))
             <= (IF Launchable(rows[m]) THEN retries[m] ELSE 1 + retries[m])
    BY <2>2 DEF Used, Allowed
  <2>5. subs[m] + Cardinality(CockedIn(jobs', m))
          <= (IF Launchable(rows'[m]) THEN retries[m] ELSE 1 + retries[m])
    BY <2>1, <2>2, <2>3, <2>4
  <2> QED BY <1>1, <2>5 DEF Used, Allowed
<1> QED BY <1>2, <1>3, <1>4 DEF Budget

-----------------------------------------------------------------------------
(* The steps that are quiet.                                               *)

\* The steps that touch neither rows nor, except to end or park one, jobs.
LEMMA IdleRowsStill ==
    ASSUME TypeOK, Policies, NEW j \in jobs,
           \/ DependencyStale(j) \/ ReserveRefused(j) \/ ReserveSuppressed(j)
           \/ LaunchPreparationFailed(j) \/ RevokeUnreserved(j) \/ RevokeSuppressed(j)
           \/ FenceTicket(j) \/ FailAndRecover(j) \/ ExchangeLaunchTicket(j) \/ BrokerFailed(j)
    PROVE  Still
<1>1. RowsHold /\ UNCHANGED history
  BY UnchangedRowsHold
     DEF DependencyStale, ReserveRefused, ReserveSuppressed, LaunchPreparationFailed,
         RevokeUnreserved, RevokeSuppressed, FenceTicket, FailAndRecover, ExchangeLaunchTicket,
         BrokerFailed
<1>2. JobsHold
  BY EndHolds, PhaseHolds
     DEF DependencyStale, ReserveRefused, ReserveSuppressed, LaunchPreparationFailed,
         RevokeUnreserved, RevokeSuppressed, FenceTicket, FailAndRecover, ExchangeLaunchTicket,
         BrokerFailed, Phases
<1> QED BY <1>1, <1>2 DEF Still

\* The settlements fenced on 'leased' that _finish_delivery and the deferrals
\* make.
LEMMA SettleLeasedStill ==
    ASSUME TypeOK, Policies, NEW j \in jobs,
           \/ ProviderDefer(j) \/ PendingDefer(j) \/ DeferSuppressed(j) \/ ResolveRuntime(j)
           \/ PrepareFailed(j) \/ IssueRefused(j) \/ RetryUnlaunched(j)
    PROVE  Still
<1>1. RowsHold /\ UNCHANGED history
  BY DeferDeliveryHolds, FinishDeliveryHolds, UnchangedRowsHold
     DEF ProviderDefer, PendingDefer, DeferSuppressed, ResolveRuntime, PrepareFailed,
         IssueRefused, RetryUnlaunched
<1>2. JobsHold
  BY EndHolds, PhaseHolds
     DEF ProviderDefer, PendingDefer, DeferSuppressed, ResolveRuntime, PrepareFailed,
         IssueRefused, RetryUnlaunched, Phases
<1> QED BY <1>1, <1>2 DEF Still

\* Issuing a ticket leaves the job in a phase that submits nothing.
LEMMA IssueStill ==
    ASSUME TypeOK, Policies, NEW j \in jobs, IssueLaunchTicket(j)
    PROVE  Still
<1>1. PICK t \in Tickets : jobs' = (jobs \ {j}) \cup {[j EXCEPT !.ph = "ticketed", !.t = t]}
  BY DEF IssueLaunchTicket
<1> DEFINE i == [j EXCEPT !.ph = "ticketed"]
<1> DEFINE k == [i EXCEPT !.t = t]
<1>2. j \in Job /\ t \in 0 .. MaxTickets
  BY BoundAssumption DEF TypeOK, Tickets
<1>3. i \in Job /\ i.m = j.m /\ i.ph = "ticketed"
  <2>1. "ticketed" \in Phases
    BY DEF Phases
  <2>2. i \in Job /\ i.m = j.m
    BY <1>2, <2>1, JobColumns
  <2>3. i.ph = "ticketed"
    BY <1>2 DEF Job
  <2> QED BY <2>2, <2>3
<1>4. k \in Job /\ k.m = j.m /\ k.ph = "ticketed"
  BY <1>2, <1>3, JobColumns DEF Job
<1>5. jobs' = (jobs \ {j}) \cup {k}
  BY <1>1
<1>6. JobsHold
  BY <1>4, <1>5, MoveHolds DEF Cocked
<1> QED BY <1>6, UnchangedRowsHold DEF Still, IssueLaunchTicket

\* A row parked dead by a job that owned it in an open state.
LEMMA ParkStill ==
    ASSUME TypeOK, Policies, NEW j \in jobs,
           BlockUnlaunched(j) \/ PrivateBlocked(j) \/ DependencyFailure(j)
    PROVE  Still
<1>1. j.m \in Msgs /\ rows[j.m] \in Row /\ PolicyOK(rows[j.m])
  BY SMT DEF TypeOK, Job, Policies
<1>2. JobsHold /\ UNCHANGED history
  BY EndHolds DEF BlockUnlaunched, PrivateBlocked, DependencyFailure
<1>3. CASE UNCHANGED rows
  BY <1>2, <1>3, UnchangedRowsHold DEF Still
<1>4. CASE Owns(j, "leased") \/ Owns(j, "dispatched")
  <2>1. rows[j.m].st \in {"leased", "dispatched"}
    BY <1>4 DEF Owns
  <2>2. RowHolds(rows[j.m], Spent(DeadTerminal(rows[j.m])))
    BY <1>1, <2>1, DeadFaces DEF RowHolds, RowCore, PolicyOK, Launchable, Open
  <2>3. RowHolds(rows[j.m], Spent(Closed(rows[j.m], "dead")))
    <3>1. Closed(rows[j.m], "dead") \in Row /\ Closed(rows[j.m], "dead").st = "dead"
          /\ Closed(rows[j.m], "dead").pol = rows[j.m].pol
      BY <1>1, RowClosed, RowFaces DEF CloseStates, RowStates
    <3>2. /\ Spent(Closed(rows[j.m], "dead")).st = "dead"
          /\ Spent(Closed(rows[j.m], "dead")).pol = rows[j.m].pol
      BY <3>1, RowFaces
    <3> QED BY <1>1, <2>1, <3>2 DEF RowHolds, RowCore, PolicyOK, Launchable, Open
  <2>4. \/ UNCHANGED rows
        \/ SetRow(j.m, Spent(DeadTerminal(rows[j.m])))
        \/ SetRow(j.m, Spent(Closed(rows[j.m], "dead")))
    BY DEF BlockUnlaunched, PrivateBlocked, DependencyFailure
  <2>5. RowsHold
    BY <1>1, <2>2, <2>3, <2>4, UnchangedRowsHold, SetRowHolds
  <2> QED BY <1>2, <2>5 DEF Still
<1>5. UNCHANGED rows \/ Owns(j, "leased") \/ Owns(j, "dispatched")
  BY DEF BlockUnlaunched, PrivateBlocked, DependencyFailure
<1> QED BY <1>3, <1>4, <1>5

\* begin_worker_output_capture moves a cocked job on or ends its dispatch.
LEMMA BeginCaptureStill ==
    ASSUME TypeOK, Policies, NEW j \in jobs, BeginCapture(j)
    PROVE  Still
<1>1. RowsHold /\ UNCHANGED history
  BY UnchangedRowsHold DEF BeginCapture
<1>2. j \in Job /\ j.ph = "dispatched"
  BY DEF TypeOK, BeginCapture
<1>3. CASE Step(j, "running")
  <2> DEFINE k == [j EXCEPT !.ph = "running"]
  <2>1. "running" \in Phases
    BY DEF Phases
  <2>2. k \in Job /\ k.m = j.m
    BY <1>2, <2>1, JobColumns
  <2>3. k.sub = j.sub
    BY <1>2 DEF Job
  <2>4. JobsHold
    BY <1>2, <1>3, <2>2, <2>3, MoveHolds DEF Step, Cocked
  <2> QED BY <1>1, <2>4 DEF Still
<1>4. CASE ~Step(j, "running")
  <2> DEFINE i == [j EXCEPT !.ph = "returned"]
  <2> DEFINE k == [i EXCEPT !.res = "unknown"]
  <2>1. "returned" \in Phases /\ "unknown" \in Results
    BY DEF Phases, Results
  <2>2. i \in Job /\ i.m = j.m
    BY <1>2, <2>1, JobColumns
  <2>3. k \in Job /\ k.m = j.m
    BY <2>1, <2>2, JobColumns
  <2>4. k.ph = "returned"
    BY <1>2 DEF Job
  <2>5. jobs' = (jobs \ {j}) \cup {k}
    BY <1>4 DEF BeginCapture
  <2>6. JobsHold
    BY <2>3, <2>4, <2>5, MoveHolds DEF Cocked
  <2> QED BY <1>1, <2>6 DEF Still
<1> QED BY <1>3, <1>4

\* observe_worker_output closes a row only as handled, for a job that already
\* submitted.
LEMMA ObserveTurnEndStill ==
    ASSUME TypeOK, Policies, NEW j \in jobs, ObserveTurnEnd(j)
    PROVE  Still
<1>1. /\ j \in Job /\ j.m \in Msgs /\ rows[j.m] \in Row /\ PolicyOK(rows[j.m])
      /\ j.sub = TRUE
  BY SMT DEF TypeOK, Job, Policies, ObserveTurnEnd
<1>2. JobsHold
  <2> DEFINE k == [j EXCEPT !.obs = TRUE]
  <2>1. k \in Job /\ k.m = j.m
    BY <1>1, JobColumns
  <2>2. k.sub = TRUE
    BY <1>1 DEF Job
  <2> QED BY <2>1, <2>2, MoveHolds DEF ObserveTurnEnd, Cocked
<1>3. RowsHold
  <2>1. CASE rows[j.m].st = "handled"
    BY <2>1, UnchangedRowsHold DEF ObserveTurnEnd
  <2>2. CASE rows[j.m].st # "handled"
    <3>1. /\ SetRow(j.m, Closed(rows[j.m], "handled"))
          /\ rows[j.m].st \in {"delivered", "acknowledged", "dispatched"}
      BY <2>2 DEF ObserveTurnEnd, Owns
    <3>2. Closed(rows[j.m], "handled").st = "handled"
      BY <1>1, RowFaces DEF RowStates
    <3>3. RowHolds(rows[j.m], Closed(rows[j.m], "handled"))
      BY <3>1, <3>2 DEF RowHolds, RowCore, PolicyOK, Launchable, Open
    <3> QED BY <1>1, <3>1, <3>3, SetRowHolds
  <2> QED BY <2>1, <2>2
<1> QED BY <1>2, <1>3 DEF Still, ObserveTurnEnd

\* The adapter's answer, and the handshake check after it, leave a job that
\* submits nothing more.
LEMMA ReturnStill ==
    ASSUME TypeOK, Policies, NEW j \in jobs, DispatchReturns(j) \/ CheckHandshake(j)
    PROVE  Still
<1>1. RowsHold /\ UNCHANGED history
  BY UnchangedRowsHold DEF DispatchReturns, CheckHandshake
<1>2. j \in Job
  BY DEF TypeOK
<1>3. CASE DispatchReturns(j)
  <2>1. PICK r \in Results : jobs' = (jobs \ {j}) \cup {[j EXCEPT !.ph = "returned", !.res = r]}
    BY <1>3 DEF DispatchReturns
  <2> DEFINE i == [j EXCEPT !.ph = "returned"]
  <2> DEFINE k == [i EXCEPT !.res = r]
  <2>2. "returned" \in Phases
    BY DEF Phases
  <2>3. i \in Job /\ i.m = j.m
    BY <1>2, <2>2, JobColumns
  <2>4. k \in Job /\ k.m = j.m
    BY <2>3, JobColumns
  <2>5. k.ph = "returned"
    BY <1>2 DEF Job
  <2>6. jobs' = (jobs \ {j}) \cup {k}
    BY <2>1
  <2>7. JobsHold
    BY <2>4, <2>5, <2>6, MoveHolds DEF Cocked
  <2> QED BY <1>1, <2>7 DEF Still
<1>4. CASE CheckHandshake(j)
  <2>1. CASE Step(j, "checked")
    BY <1>1, <2>1, PhaseHolds DEF Still, Phases
  <2>2. CASE ~Step(j, "checked")
    <3> DEFINE k == [j EXCEPT !.res = "unknown"]
    <3>1. "unknown" \in Results
      BY DEF Results
    <3>2. k \in Job /\ k.m = j.m
      BY <1>2, <3>1, JobColumns
    <3>3. k.ph = j.ph /\ j.ph = "fenced"
      BY <1>2, <1>4 DEF Job, CheckHandshake
    <3>4. jobs' = (jobs \ {j}) \cup {k}
      BY <1>4, <2>2 DEF CheckHandshake
    <3>5. JobsHold
      BY <3>2, <3>3, <3>4, MoveHolds DEF Cocked
    <3> QED BY <1>1, <3>5 DEF Still
  <2> QED BY <2>1, <2>2
<1> QED BY <1>3, <1>4

\* What the lane settlements do to a row: leave it, or close an open one for
\* good.
Settled(r, s) == s = r \/ (r.st \in Open /\ s.st \in {"handled", "dead"} /\ s.pol = "terminal")

\* The three lane settlements only settle rows.
LEMMA LaneSettles ==
    ASSUME NEW rs \in [Msgs -> Row], NEW n \in Msgs, PolicyOK(rs[n])
    PROVE  /\ \A m \in Msgs : rs[m].st \in {"delivered", "acknowledged"}
                                => Settled(rs[n], AdvanceLane(rs, m)[n])
           /\ Settled(rs[n], ParkUnstarted(rs)[n])
           /\ Settled(rs[n], SettleTerminalRows(rs)[n])
<1> DEFINE h == [Closed(rs[n], "handled") EXCEPT !.pol = "terminal"]
<1>1. rs[n] \in Row
  OBVIOUS
<1>2. h.st = "handled" /\ h.pol = "terminal"
  <2>1. Closed(rs[n], "handled") \in Row /\ Closed(rs[n], "handled").st = "handled"
    BY <1>1, RowClosed, RowFaces DEF CloseStates, RowStates
  <2> QED BY <2>1, RowFaces
<1>3. DeadTerminal(rs[n]).st = "dead" /\ DeadTerminal(rs[n]).pol = "terminal"
  BY <1>1, DeadFaces
<1>4. Closed(rs[n], "dead").st = "dead" /\ Closed(rs[n], "dead").pol = rs[n].pol
  BY <1>1, RowFaces DEF RowStates
<1> HIDE DEF h
<1>5. ASSUME NEW m \in Msgs, rs[m].st \in {"delivered", "acknowledged"}
      PROVE  Settled(rs[n], AdvanceLane(rs, m)[n])
  <2>1. CASE n = m
    <3>1. AdvanceLane(rs, m)[n] = IF rs[n].st = "acknowledged" THEN h ELSE DeadTerminal(rs[n])
      BY <2>1 DEF AdvanceLane, h
    <3> QED BY <1>2, <1>3, <1>5, <2>1, <3>1 DEF Settled, Open
  <2>2. CASE n # m
    BY <2>2 DEF AdvanceLane, Settled
  <2> QED BY <2>1, <2>2
<1>6. Settled(rs[n], ParkUnstarted(rs)[n])
  <2>1. \/ ParkUnstarted(rs)[n] = rs[n]
        \/ ParkUnstarted(rs)[n] = Closed(rs[n], "dead") /\ rs[n].st \in {"queued", "leased"}
    BY DEF ParkUnstarted
  <2> QED BY <1>4, <2>1 DEF Settled, PolicyOK, Open
<1>7. Settled(rs[n], SettleTerminalRows(rs)[n])
  <2>1. \/ SettleTerminalRows(rs)[n] = rs[n]
        \/ SettleTerminalRows(rs)[n] \in {h, DeadTerminal(rs[n])} /\ rs[n].st \in Open
    BY DEF SettleTerminalRows, h
  <2> QED BY <1>2, <1>3, <2>1 DEF Settled
<1> QED BY <1>5, <1>6, <1>7

\* A held row that is then settled is held.
LEMMA SettledHolds ==
    ASSUME NEW r, NEW s, NEW u, RowHolds(r, s), Settled(s, u)
    PROVE  RowHolds(r, u)
BY DEF RowHolds, RowCore, Settled, PolicyOK, Launchable, Open

\* A row under a sound policy is held by leaving it alone.
LEMMA SelfHolds ==
    ASSUME NEW r, PolicyOK(r)
    PROVE  RowHolds(r, r)
BY DEF RowHolds, RowCore, Open

\* The success transaction marks its own row delivered and then settles the
\* lane.
LEMMA SettleSuccessStill ==
    ASSUME TypeOK, Policies, NEW j \in jobs, SettleSuccess(j)
    PROVE  Still
<1>1. JobsHold /\ UNCHANGED history
  BY EndHolds DEF SettleSuccess
<1>2. CASE ~SettleFence(j)
  BY <1>1, <1>2, UnchangedRowsHold DEF Still, SettleSuccess
<1>3. CASE SettleFence(j)
  <2>1. /\ j.m \in Msgs /\ rows \in [Msgs -> Row]
        /\ \A n \in Msgs : rows[n] \in Row /\ PolicyOK(rows[n])
    BY SMT DEF TypeOK, Job, Policies
  <2> DEFINE c == Closed(rows[j.m], "delivered")
  <2>2. PICK rs : rs = IF rows[j.m].st = "dispatched" THEN [rows EXCEPT ![j.m] = c] ELSE rows
    OBVIOUS
  <2>3. c \in Row /\ c.st = "delivered" /\ c.pol = rows[j.m].pol
    <3>1. "delivered" \in RowStates /\ "delivered" \in CloseStates /\ rows[j.m] \in Row
      BY <2>1 DEF CloseStates, RowStates, Open
    <3> QED BY <3>1, RowClosed, RowFaces
  <2>4. rs \in [Msgs -> Row] /\ \A n \in Msgs : RowHolds(rows[n], rs[n])
    <3>1. CASE rows[j.m].st = "dispatched"
      <4>1. RowHolds(rows[j.m], c)
        BY <2>1, <2>3, <3>1 DEF RowHolds, RowCore, PolicyOK, Launchable, Open
      <4>2. \A n \in Msgs : rs[n] = IF n = j.m THEN c ELSE rows[n]
        BY <2>1, <2>2, <3>1
      <4>3. rs \in [Msgs -> Row]
        BY <2>1, <2>2, <2>3, <3>1
      <4> QED BY <2>1, <4>1, <4>2, <4>3, SelfHolds
    <3>2. CASE rows[j.m].st # "dispatched"
      BY <2>1, <2>2, <3>2, SelfHolds
    <3> QED BY <3>1, <3>2
  <2>5. \A n \in Msgs : PolicyOK(rs[n])
    BY <2>4 DEF RowHolds, RowCore
  <2>6. PICK a : a = FinalizeCapture(rs, attempt, j.m, j.obs)
    OBVIOUS
  <2>7. rows' = IF Advances(rs, a, j.m) THEN AdvanceLane(rs, j.m)
                ELSE IF Stalls(rs, a, j.m) THEN ParkUnstarted(rs)
                ELSE IF a = "canceled" THEN SettleTerminalRows(rs)
                ELSE rs
    BY <1>3, <2>2, <2>6 DEF SettleSuccess
  <2>8. Advances(rs, a, j.m) => rs[j.m].st \in {"delivered", "acknowledged"}
    BY DEF Advances
  <2>9. ASSUME NEW n \in Msgs PROVE Settled(rs[n], rows'[n])
    <3>1. /\ rs[j.m].st \in {"delivered", "acknowledged"} => Settled(rs[n], AdvanceLane(rs, j.m)[n])
          /\ Settled(rs[n], ParkUnstarted(rs)[n])
          /\ Settled(rs[n], SettleTerminalRows(rs)[n])
      BY <2>1, <2>4, <2>5, LaneSettles
    <3>2. Settled(rs[n], rs[n])
      BY DEF Settled
    <3> QED BY <2>7, <2>8, <3>1, <3>2
  <2>10. RowsHold
    BY <2>4, <2>9, SettledHolds DEF RowsHold
  <2> QED BY <1>1, <2>10 DEF Still
<1> QED BY <1>2, <1>3

\* A failed dispatch freezes its row or parks it dead.
LEMMA MarkFailedStill ==
    ASSUME TypeOK, Policies, NEW j \in jobs, MarkUnknown(j) \/ MarkNotSubmitted(j)
    PROVE  Still
<1>1. JobsHold /\ UNCHANGED history
  BY EndHolds, PhaseHolds DEF MarkUnknown, MarkNotSubmitted, Phases
<1>2. CASE UNCHANGED rows
  BY <1>1, <1>2, UnchangedRowsHold DEF Still
<1>3. CASE Owns(j, "dispatched")
  <2>1. j.m \in Msgs /\ rows[j.m] \in Row /\ PolicyOK(rows[j.m]) /\ rows[j.m].st = "dispatched"
    BY <1>3, SMT DEF TypeOK, Job, Policies, Owns
  <2> DEFINE c == Closed(rows[j.m], "dispatched")
  <2>2. c \in Row /\ c.st = "dispatched" /\ c.pol = rows[j.m].pol
    <3>1. "dispatched" \in RowStates /\ "dispatched" \in CloseStates
      BY DEF CloseStates, RowStates, Open
    <3> QED BY <2>1, <3>1, RowClosed, RowFaces
  <2>3. Spent(c).st = "dispatched" /\ Spent(c).pol = rows[j.m].pol
    BY <2>2, RowFaces
  <2>4. RowHolds(rows[j.m], Spent(c))
    BY <2>1, <2>3 DEF RowHolds, RowCore, PolicyOK, Launchable, Open
  <2>5. RowHolds(rows[j.m], Spent(DeadTerminal(rows[j.m])))
    BY <2>1, DeadFaces DEF RowHolds, RowCore, PolicyOK, Launchable, Open
  <2>6. SetRow(j.m, Spent(c)) \/ SetRow(j.m, Spent(DeadTerminal(rows[j.m])))
    BY <1>3 DEF MarkUnknown, MarkNotSubmitted
  <2>7. RowsHold
    BY <2>1, <2>4, <2>5, <2>6, SetRowHolds
  <2> QED BY <1>1, <2>7 DEF Still
<1>4. UNCHANGED rows \/ Owns(j, "dispatched")
  BY DEF MarkUnknown, MarkNotSubmitted
<1> QED BY <1>2, <1>3, <1>4

\* A typed rate limit marks its row and leaves the state it had.
LEMMA RateLimitedStill ==
    ASSUME TypeOK, Policies, NEW j \in jobs, RateLimited(j)
    PROVE  Still
<1>1. JobsHold /\ UNCHANGED history
  BY EndHolds DEF RateLimited
<1>2. j.m \in Msgs /\ rows[j.m] \in Row /\ PolicyOK(rows[j.m])
  BY SMT DEF TypeOK, Job, Policies
<1> DEFINE c == Closed(rows[j.m], "dispatched")
<1>3. PICK r : r = IF rows[j.m].st = "dispatched" THEN Spent(c) ELSE rows[j.m]
  OBVIOUS
<1>4. r \in Row /\ r.st = rows[j.m].st /\ r.pol = rows[j.m].pol
  <2>1. c \in Row /\ c.st = "dispatched" /\ c.pol = rows[j.m].pol
    <3>1. "dispatched" \in RowStates /\ "dispatched" \in CloseStates
      BY DEF CloseStates, RowStates, Open
    <3> QED BY <1>2, <3>1, RowClosed, RowFaces
  <2>2. Spent(c) \in Row
    BY <1>2, <2>1, RowClosed, RowSpent DEF CloseStates
  <2>3. Spent(c).st = "dispatched" /\ Spent(c).pol = rows[j.m].pol
    BY <2>1, RowFaces
  <2> QED BY <1>2, <1>3, <2>2, <2>3
<1>5. [r EXCEPT !.limited = TRUE].st = r.st /\ [r EXCEPT !.limited = TRUE].pol = r.pol
  BY <1>4, RowFaces
<1>6. \/ UNCHANGED rows
      \/ /\ SetRow(j.m, [r EXCEPT !.limited = TRUE])
         /\ rows[j.m].st \in {"dispatched", "acknowledged", "handled"}
  BY <1>3 DEF RateLimited, Owns
<1>7. rows[j.m].st \in {"dispatched", "acknowledged", "handled"}
        => RowHolds(rows[j.m], [r EXCEPT !.limited = TRUE])
  BY <1>2, <1>4, <1>5 DEF RowHolds, RowCore, PolicyOK, Launchable, Open
<1>8. RowsHold
  BY <1>2, <1>6, <1>7, UnchangedRowsHold, SetRowHolds
<1> QED BY <1>1, <1>8 DEF Still

\* A crash drops jobs and touches no row.
LEMMA CrashStill ==
    ASSUME Policies, NEW d \in Disp, CrashDispatcher(d)
    PROVE  Still
BY UnchangedRowsHold DEF CrashDispatcher, Still, JobsHold

\* Heartbeats re-arm only exhausted rows and complete only open bootstraps.
LEMMA HeartbeatStill ==
    ASSUME TypeOK, Policies, HeartbeatRuntime
    PROVE  Still
<1>1. JobsHold /\ UNCHANGED history
  BY EndHolds DEF HeartbeatRuntime
<1>2. ASSUME NEW m \in Msgs PROVE RowHolds(rows[m], rows'[m])
  <2>1. rows[m] \in Row /\ PolicyOK(rows[m])
    BY DEF TypeOK, Policies
  <2>2. PICK b : b = BootstrapHandled(rows[m])
    OBVIOUS
  <2>3. b \in Row /\ RowHolds(rows[m], b)
    <3>1. CASE b = rows[m]
      BY <2>1, <3>1, SelfHolds
    <3>2. CASE b # rows[m]
      <4>1. b = Closed(rows[m], "handled") /\ rows[m].st \in Open
        BY <2>2, <3>2 DEF BootstrapHandled
      <4>2. "handled" \in RowStates /\ "handled" \in CloseStates
        BY DEF RowStates, CloseStates
      <4>3. b \in Row /\ b.st = "handled"
        BY <2>1, <4>1, <4>2, RowClosed, RowFaces
      <4> QED BY <4>1, <4>3 DEF RowHolds, RowCore, PolicyOK, Launchable, Open
    <3> QED BY <3>1, <3>2
  <2>4. rows'[m] = Reactivated(b)
    BY <2>2 DEF HeartbeatRuntime
  <2>5. CASE Reactivated(b) = b
    BY <2>3, <2>4, <2>5
  <2>6. CASE Reactivated(b) # b
    <3> DEFINE q == Requeued(b)
    <3> DEFINE q1 == [q EXCEPT !.tries = 0]
    <3> DEFINE q2 == [q1 EXCEPT !.pol = "terminal"]
    <3> DEFINE q3 == [q2 EXCEPT !.limited = FALSE]
    <3>1. b.st = "dead" /\ b.pol = "retryable" /\ Reactivated(b) = q3
      BY <2>6 DEF Reactivated
    <3>2. q \in Row /\ q.st = "queued"
      BY <2>3, RowRequeued, RowFaces
    <3> HIDE DEF q
    <3>3. q1 \in Row /\ q1.st = "queued"
      BY <3>2, RowColumns DEF Row
    <3> HIDE DEF q1
    <3>4. q2 \in Row /\ q2.st = "queued" /\ q2.pol = "terminal"
      BY <3>3, RowColumns, RowFaces
    <3> HIDE DEF q2
    <3>5. q3.st = "queued" /\ q3.pol = "terminal"
      BY <3>4, RowFaces
    <3> QED BY <2>3, <2>4, <3>1, <3>5 DEF RowHolds, RowCore, PolicyOK, Launchable, Open
  <2> QED BY <2>5, <2>6
<1>3. RowsHold
  BY <1>2 DEF RowsHold
<1> QED BY <1>1, <1>3 DEF Still

\* A row closed by the Worker or the supervisor holds: it was open, or it is
\* an exhausted one that is handled.
LEMMA ClosedHolds ==
    ASSUME NEW r \in Row, PolicyOK(r),
           NEW st \in {"acknowledged", "handled", "dead"},
           \/ r.st \in Open 
           \/ st = "handled" /\ r.st = "dead"
    PROVE  RowHolds(r, Closed(r, st))
<1>1. Closed(r, st).st = st /\ Closed(r, st).pol = r.pol
  BY RowFaces DEF RowStates, Open
<1> QED BY <1>1 DEF RowHolds, RowCore, PolicyOK, Launchable, Open

\* acknowledge and mark_message_handled only move a row forward.
LEMMA AcknowledgeStill ==
    ASSUME TypeOK, Policies, NEW m \in Msgs, Acknowledge(m) \/ MarkMessageHandled(m)
    PROVE  Still
<1>1. JobsHold /\ UNCHANGED history
  BY EndHolds DEF Acknowledge, MarkMessageHandled
<1>2. rows[m] \in Row /\ PolicyOK(rows[m])
  BY DEF TypeOK, Policies
<1>3. CASE Acknowledge(m)
  <2>1. \/ SetRow(m, Closed(rows[m], "handled")) /\ rows[m].st = "dead"
        \/ SetRow(m, Closed(rows[m], "acknowledged")) /\ rows[m].st \in Open
    BY <1>3 DEF Acknowledge, Open
  <2>2. RowsHold
    BY <1>2, <2>1, ClosedHolds, SetRowHolds
  <2> QED BY <1>1, <2>2 DEF Still
<1>4. CASE MarkMessageHandled(m)
  <2> DEFINE h == [rows[m] EXCEPT !.st = "handled"]
  <2>1. h.st = "handled"
    BY <1>2 DEF Row
  <2>2. rows[m].st = "acknowledged" /\ rows' = [rows EXCEPT ![m] = h]
    BY <1>4 DEF MarkMessageHandled
  <2>3. RowHolds(rows[m], h)
    BY <2>1, <2>2 DEF RowHolds, RowCore, PolicyOK, Launchable, Open
  <2>4. RowsHold
    BY <2>2, <2>3, SetRowHolds DEF SetRow
  <2> QED BY <1>1, <2>4 DEF Still
<1> QED BY <1>3, <1>4

\* An accepted report only closes rows as handled.
LEMMA ReportStill ==
    ASSUME TypeOK, Policies, NEW kind, NEW inc, Report(kind, inc)
    PROVE  Still
<1>1. JobsHold /\ UNCHANGED history
  BY EndHolds DEF Report
<1>2. ASSUME NEW m \in Msgs PROVE RowHolds(rows[m], rows'[m])
  <2>1. rows[m] \in Row /\ PolicyOK(rows[m])
    BY DEF TypeOK, Policies
  <2>2. \/ rows'[m] = rows[m]
        \/ rows'[m] = Closed(rows[m], "handled") /\ rows[m].st \in Open \cup {"dead"}
    BY DEF Report, Open
  <2> QED BY <2>1, <2>2, SelfHolds, ClosedHolds
<1>3. RowsHold
  BY <1>2 DEF RowsHold
<1> QED BY <1>1, <1>3 DEF Still

\* A new message fills a row nobody used.
LEMMA SendMessageQuiet ==
    ASSUME TypeOK, Policies, NEW k, SendMessage(k)
    PROVE  RowsCore
<1>1. PICK m \in Msgs : rows[m].st = "none" /\ SetRow(m, NewRow(k))
  BY DEF SendMessage
<1>2. NewRow(k).st = "queued" /\ NewRow(k).pol = "terminal"
  BY DEF NewRow
<1>3. RowCore(rows[m], NewRow(k))
  BY <1>1, <1>2 DEF RowCore, PolicyOK, Launchable
<1>4. rows' = [rows EXCEPT ![m] = NewRow(k)]
  BY <1>1 DEF SetRow
<1>5. \A n \in Msgs : RowCore(rows[n], rows[n])
  BY SelfHolds DEF Policies, RowHolds
<1> QED BY <1>3, <1>4, <1>5 DEF RowsCore, TypeOK

Sends == \E k \in Kinds : SendMessage(k)

\* The CAO's sends.
LEMMA SendingQuiet ==
    ASSUME TypeOK, Policies, AssignWork \/ DisposeContinue \/ RequestStatus
    PROVE  Quiet /\ Sends
<1>1. JobsHold /\ UNCHANGED history
  BY EndHolds DEF AssignWork, DisposeContinue, RequestStatus
<1>2. Sends
  BY DEF AssignWork, DisposeContinue, RequestStatus, Sends, Kinds
<1>3. RowsCore
  BY <1>2, SendMessageQuiet DEF Sends
<1> QED BY <1>1, <1>2, <1>3 DEF Quiet

\* The calls that write neither a row nor a job.
LEMMA RuntimeStill ==
    ASSUME Policies, StopRuntime \/ DiscoverTools
    PROVE  Still
BY EndHolds, UnchangedRowsHold DEF StopRuntime, DiscoverTools, Still

\* Canceling a Work closes open rows or sends one notice.
LEMMA CancelWorkQuiet ==
    ASSUME TypeOK, Policies, CancelWork
    PROVE  Still \/ (Quiet /\ Sends)
<1>1. JobsHold /\ UNCHANGED history
  BY EndHolds DEF CancelWork
<1>2. CASE rt \in RtTerminal
  <2>1. ASSUME NEW m \in Msgs PROVE RowHolds(rows[m], rows'[m])
    <3>1. rows[m] \in Row /\ PolicyOK(rows[m])
      BY DEF TypeOK, Policies
    <3>2. rows'[m] = rows[m] \/ (rows'[m] = Closed(rows[m], "dead") /\ rows[m].st \in Open)
      BY <1>2 DEF CancelWork
    <3> QED BY <3>1, <3>2, SelfHolds, ClosedHolds
  <2>2. RowsHold
    BY <2>1 DEF RowsHold
  <2> QED BY <1>1, <2>2 DEF Still
<1>3. CASE rt \notin RtTerminal
  <2>1. Sends
    BY <1>3 DEF CancelWork, Sends, Kinds
  <2>2. RowsCore
    BY <2>1, SendMessageQuiet DEF Sends
  <2> QED BY <1>1, <2>1, <2>2 DEF Quiet
<1> QED BY <1>2, <1>3

\* The recovery scans settle rows and write no other.
LEMMA ScanStill ==
    ASSUME TypeOK, Policies, Scan
    PROVE  Still
<1>1. JobsHold /\ UNCHANGED history
  BY EndHolds
     DEF Scan, ExpireRuntimeLease, ReconcileCompletedTurns, SettleTerminalLane, RecoverOverdueUnstarted
<1>2. \/ UNCHANGED rows
      \/ rows' = AdvanceLane(rows, last) /\ rows[last].st \in {"delivered", "acknowledged"}
         /\ last # 0
      \/ rows' = ParkUnstarted(rows)
      \/ rows' = SettleTerminalRows(rows)
  BY DEF Scan, ExpireRuntimeLease, ReconcileCompletedTurns, SettleTerminalLane,
         RecoverOverdueUnstarted, Advances
<1>3. ASSUME NEW n \in Msgs PROVE RowHolds(rows[n], rows'[n])
  <2>1. rows \in [Msgs -> Row] /\ PolicyOK(rows[n]) /\ last \in 0 .. MaxMsgs
    BY DEF TypeOK, Policies
  <2>2. last # 0 => last \in Msgs
    BY <2>1, BoundAssumption DEF Msgs
  <2>3. Settled(rows[n], rows'[n])
    BY <1>2, <2>1, <2>2, LaneSettles DEF Settled
  <2> QED BY <2>1, <2>3, SelfHolds, SettledHolds
<1>4. RowsHold
  BY <1>3 DEF RowsHold
<1> QED BY <1>1, <1>4 DEF Still

\* A claim takes back leased rows, leases queued ones and cocks no job.
LEMMA ClaimQuiet ==
    ASSUME TypeOK, TypeOK', Policies, NEW d \in Disp, ClaimDelivery(d)
    PROVE  Quiet
<1>1. PICK expired \in SUBSET {m \in Msgs : Expirable(rows[m])} :
        LET rs == [m \in Msgs |-> IF m \in expired THEN Requeued(rows[m]) ELSE rows[m]]
        IN  \/ rows' = rs /\ UNCHANGED jobs
            \/ \E m \in Msgs :
                 /\ Claimable(rs, m)
                 /\ rows' = [rs EXCEPT ![m].st = "leased", ![m].own = d]
                 /\ jobs' = jobs \cup {[d |-> d, m |-> m, g |-> rs[m].gen, t |-> 0,
                                       ph |-> "claimed", res |-> "none",
                                       sub |-> FALSE, obs |-> FALSE]}
  BY DEF ClaimDelivery
<1>2. PICK rs : rs = [m \in Msgs |-> IF m \in expired THEN Requeued(rows[m]) ELSE rows[m]]
  OBVIOUS
<1>3. rs \in [Msgs -> Row] /\ \A n \in Msgs : RowCore(rows[n], rs[n])
  <2>1. ASSUME NEW n \in Msgs PROVE rs[n] \in Row /\ RowCore(rows[n], rs[n])
    <3>1. rows[n] \in Row /\ PolicyOK(rows[n])
      BY DEF TypeOK, Policies
    <3>2. CASE n \in expired
      <4>1. rs[n] = Requeued(rows[n]) /\ rows[n].st = "leased"
        BY <1>2, <3>2 DEF Expirable
      <4>2. rs[n] \in Row /\ rs[n].st = "queued" /\ rs[n].pol = rows[n].pol
        BY <3>1, <4>1, RowRequeued, RowFaces
      <4> QED BY <3>1, <4>1, <4>2 DEF RowCore, PolicyOK, Launchable, Open
    <3>3. CASE n \notin expired
      BY <1>2, <3>1, <3>3, SelfHolds DEF RowHolds
    <3> QED BY <3>2, <3>3
  <2> QED BY <1>2, <2>1
<1>4. CASE rows' = rs /\ UNCHANGED jobs
  BY <1>3, <1>4, EndHolds DEF Quiet, RowsCore, ClaimDelivery
<1>5. ASSUME NEW m \in Msgs,
             Claimable(rs, m),
             rows' = [rs EXCEPT ![m].st = "leased", ![m].own = d],
             jobs' = jobs \cup {[d |-> d, m |-> m, g |-> rs[m].gen, t |-> 0,
                                ph |-> "claimed", res |-> "none",
                                sub |-> FALSE, obs |-> FALSE]}
      PROVE  Quiet
  <2> DEFINE k == [d |-> d, m |-> m, g |-> rs[m].gen, t |-> 0, ph |-> "claimed",
                   res |-> "none", sub |-> FALSE, obs |-> FALSE]
  <2>1. jobs' = jobs \cup {k}
    BY <1>5
  <2>2. k \in Job
    BY <2>1 DEF TypeOK
  <2>3. k.ph = "claimed"
    OBVIOUS
  <2> HIDE DEF k
  <2>4. JobsHold
    BY <2>1, <2>2, <2>3 DEF JobsHold, Cocked
  <2>5. rs[m].st = "queued" /\ rs[m] \in Row
    BY <1>3, <1>5 DEF Claimable
  <2>6. rows'[m].st = "leased" /\ rows'[m].pol = rs[m].pol
        /\ \A n \in Msgs \ {m} : rows'[n] = rs[n]
    BY <1>3, <1>5, <2>5 DEF Row
  <2>7. RowCore(rows[m], rows'[m])
    BY <1>3, <2>5, <2>6 DEF RowCore, PolicyOK, Launchable, Open
  <2>8. RowsCore
    BY <1>3, <2>6, <2>7 DEF RowsCore
  <2> QED BY <2>4, <2>8 DEF Quiet, ClaimDelivery
<1> QED BY <1>1, <1>2, <1>4, <1>5

-----------------------------------------------------------------------------
(* The three steps that are not quiet.                                     *)

\* A set of jobs with one more cocked job counts at most one more.
LEMMA CountOneMore ==
    ASSUME NEW A, IsFiniteSet(A), NEW B, NEW k, B \subseteq A \cup {k}
    PROVE  Cardinality(B) <= Cardinality(A) + 1
<1>1. Cardinality(A) \in Nat
  BY FS_CardinalityType
<1>2. /\ IsFiniteSet(A \cup {k})
      /\ Cardinality(A \cup {k}) = IF k \in A THEN Cardinality(A) ELSE Cardinality(A) + 1
  BY FS_AddElement
<1>3. Cardinality(B) <= Cardinality(A \cup {k}) /\ Cardinality(B) \in Nat
  BY <1>2, FS_Subset, FS_CardinalityType
<1> QED BY <1>1, <1>2, <1>3

\* A set of jobs that lost a cocked job counts at least one less.
LEMMA CountOneLess ==
    ASSUME NEW A, IsFiniteSet(A), NEW j \in A, NEW B, B \subseteq A \ {j}
    PROVE  Cardinality(B) + 1 <= Cardinality(A)
<1>1. IsFiniteSet(A \ {j}) /\ Cardinality(A \ {j}) = Cardinality(A) - 1
  BY FS_RemoveElement
<1>2. Cardinality(B) <= Cardinality(A \ {j})
  BY <1>1, FS_Subset
<1>3. Cardinality(A) \in Nat /\ Cardinality(B) \in Nat
  BY <1>1, FS_Subset, FS_CardinalityType
<1> QED BY <1>1, <1>2, <1>3

\* The reservation spends the budget the launchable row kept for its first
\* submission.
LEMMA ReserveBudget ==
    ASSUME TypeOK, TypeOK', Budget, NEW j \in jobs, Reserve(j)
    PROVE  Budget'
<1> DEFINE k == [j EXCEPT !.ph = "dispatched"]
<1>1. /\ j \in Job /\ j.m \in Msgs /\ rows[j.m] \in Row /\ rows[j.m].st = "leased"
      /\ j.ph = "ticketed"
  BY SMT DEF TypeOK, Job, Reserve, Owns
<1>2. jobs' = (jobs \ {j}) \cup {k} /\ subs' = subs /\ retries' = retries
  BY DEF Reserve, Step, history
<1>3. k.m = j.m
  BY <1>1 DEF Job
<1>4. /\ \A n \in Msgs \ {j.m} : rows'[n] = rows[n]
      /\ rows'[j.m].st = "dispatched" /\ rows'[j.m].pol = rows[j.m].pol
  BY <1>1 DEF Reserve, TypeOK, Row
<1> HIDE DEF k
<1>5. IsFiniteSet(jobs')
  BY <1>2, FS_RemoveElement, FS_AddElement DEF Budget
<1>6. Policies'
  BY <1>1, <1>4 DEF Budget, Policies, PolicyOK, Open
<1>7. ASSUME NEW m \in Msgs PROVE Used(m)' <= Allowed(m)'
  <2> DEFINE A == CockedIn(jobs, m)
  <2> DEFINE B == CockedIn(jobs', m)
  <2>1. /\ subs[m] \in Nat /\ retries[m] \in Nat /\ Cardinality(A) \in Nat
        /\ Cardinality(B) \in Nat /\ IsFiniteSet(A)
    BY <1>5, CockedFinite DEF TypeOK, Budget
  <2>2. subs[m] + Cardinality(A) <= (IF Launchable(rows[m]) THEN retries[m] ELSE 1 + retries[m])
    BY DEF Budget, Used, Allowed
  <2>3. subs[m] + Cardinality(B) <= (IF Launchable(rows'[m]) THEN retries[m] ELSE 1 + retries[m])
    <3>1. CASE m = j.m
      <4>1. Launchable(rows[m]) /\ ~Launchable(rows'[m])
        BY <1>1, <1>4, <3>1 DEF Launchable
      <4>2. B \subseteq A \cup {k}
        BY <1>2 DEF CockedIn
      <4> HIDE DEF A, B
      <4>3. Cardinality(B) <= Cardinality(A) + 1
        BY <2>1, <4>2, CountOneMore
      <4> QED BY <2>1, <2>2, <4>1, <4>3
    <3>2. CASE m # j.m
      <4>1. B \subseteq A
        BY <1>2, <1>3, <3>2 DEF CockedIn
      <4> HIDE DEF A, B
      <4>2. Cardinality(B) <= Cardinality(A)
        BY <2>1, <4>1, FS_Subset
      <4>3. rows'[m] = rows[m]
        BY <1>4, <3>2
      <4> QED BY <2>1, <2>2, <4>2, <4>3
    <3> QED BY <3>1, <3>2
  <2> QED BY <1>2, <2>3 DEF Used, Allowed
<1> QED BY <1>5, <1>6, <1>7 DEF Budget

\* A submission turns a cocked job into a submitted turn.
LEMMA SubmitBudget ==
    ASSUME TypeOK, TypeOK', Budget, NEW j \in jobs, Submit(j)
    PROVE  Budget'
<1> DEFINE k == [j EXCEPT !.sub = TRUE]
<1>1. j \in Job /\ j.m \in Msgs /\ Cocked(j)
  BY SMT DEF TypeOK, Job, Submit, Cocked
<1>2. /\ jobs' = (jobs \ {j}) \cup {k} /\ rows' = rows /\ retries' = retries
      /\ subs' = [subs EXCEPT ![j.m] = @ + 1]
  BY DEF Submit
<1>3. k.sub = TRUE
  BY <1>1 DEF Job
<1> HIDE DEF k
<1>4. IsFiniteSet(jobs')
  BY <1>2, FS_RemoveElement, FS_AddElement DEF Budget
<1>5. Policies'
  BY <1>2 DEF Budget, Policies
<1>6. ASSUME NEW m \in Msgs PROVE Used(m)' <= Allowed(m)'
  <2> DEFINE A == CockedIn(jobs, m)
  <2> DEFINE B == CockedIn(jobs', m)
  <2>1. /\ subs[m] \in Nat /\ retries[m] \in Nat /\ Cardinality(A) \in Nat
        /\ Cardinality(B) \in Nat /\ IsFiniteSet(A)
    BY <1>4, CockedFinite DEF TypeOK, Budget
  <2>2. subs[m] + Cardinality(A) <= Allowed(m)
    BY DEF Budget, Used
  <2>3. Allowed(m) \in Nat
    BY <2>1 DEF Allowed
  <2>4. subs'[m] + Cardinality(B) <= Allowed(m)
    <3>1. CASE m = j.m
      <4>1. j \in A /\ B \subseteq A \ {j}
        BY <1>1, <1>2, <1>3, <3>1 DEF CockedIn, Cocked
      <4>2. subs'[m] = subs[m] + 1
        BY <1>1, <1>2, <3>1 DEF TypeOK
      <4> HIDE DEF A, B
      <4>3. Cardinality(B) + 1 <= Cardinality(A)
        BY <2>1, <4>1, CountOneLess
      <4> QED BY <2>1, <2>2, <2>3, <4>2, <4>3
    <3>2. CASE m # j.m
      <4>1. B \subseteq A
        BY <1>2, <1>3 DEF CockedIn, Cocked
      <4>2. subs'[m] = subs[m]
        BY <1>1, <1>2, <3>2 DEF TypeOK
      <4> HIDE DEF A, B
      <4>3. Cardinality(B) <= Cardinality(A)
        BY <2>1, <4>1, FS_Subset
      <4> QED BY <2>1, <2>2, <2>3, <4>2, <4>3
    <3> QED BY <3>1, <3>2
  <2> QED BY <1>2, <2>4 DEF Used, Allowed
<1> QED BY <1>4, <1>5, <1>6 DEF Budget

\* What resolve_delivery writes: the row of one dispatched message, and a
\* retry when it goes back to the queue.
LEMMA ResolveFaces ==
    ASSUME TypeOK, NEW m \in Msgs, NEW outcome, ResolveDelivery(m, outcome)
    PROVE  /\ rows[m].st = "dispatched" /\ rows'[m].pol = rows[m].pol
           /\ \A n \in Msgs \ {m} : rows'[n] = rows[n]
           /\ UNCHANGED <<jobs, subs>>
           /\ \/ rows'[m].st = "queued" /\ retries' = [retries EXCEPT ![m] = @ + 1]
              \/ rows'[m].st \in {"delivered", "dead"} /\ retries' = retries
<1> DEFINE r == [rows[m] EXCEPT !.limited = FALSE]
<1> DEFINE retry == outcome = "not_delivered" /\ (rows[m].kind = "assignment" => attempt \in Active)
<1>1. rows[m] \in Row /\ rows \in [Msgs -> Row]
  BY DEF TypeOK
<1>2. r \in Row /\ r.pol = rows[m].pol
  BY <1>1, RowColumns, RowFaces
<1>3. PICK s : s = IF outcome = "delivered" THEN Closed(r, "delivered")
                   ELSE IF retry THEN Requeued(r) ELSE Closed(r, "dead")
  OBVIOUS
<1>4. /\ SetRow(m, s) /\ rows[m].st = "dispatched" /\ UNCHANGED <<jobs, subs>>
      /\ retries' = IF retry THEN [retries EXCEPT ![m] = @ + 1] ELSE retries
  BY <1>3 DEF ResolveDelivery
<1>5. /\ s.pol = rows[m].pol
      /\ s.st = IF outcome = "delivered" THEN "delivered" ELSE IF retry THEN "queued" ELSE "dead"
  <2>1. "delivered" \in RowStates /\ "dead" \in RowStates
    BY DEF RowStates, Open
  <2> HIDE DEF r, retry
  <2> QED BY <1>2, <1>3, <2>1, RowFaces
<1>6. rows'[m] = s /\ \A n \in Msgs \ {m} : rows'[n] = rows[n]
  BY <1>1, <1>4 DEF SetRow
<1>7. retry => s.st = "queued"
  BY <1>5
<1> HIDE DEF r, retry
<1> QED BY <1>4, <1>5, <1>6, <1>7

\* An operator's retry pays for the submission that the requeued row may
\* still make.
LEMMA ResolveBudget ==
    ASSUME TypeOK, Budget, NEW m \in Msgs, NEW outcome, ResolveDelivery(m, outcome)
    PROVE  Budget'
<1>1. /\ rows[m].st = "dispatched" /\ rows'[m].pol = rows[m].pol
      /\ \A n \in Msgs \ {m} : rows'[n] = rows[n]
      /\ jobs' = jobs /\ subs' = subs
      /\ \/ rows'[m].st = "queued" /\ retries' = [retries EXCEPT ![m] = @ + 1]
         \/ rows'[m].st \in {"delivered", "dead"} /\ retries' = retries
  BY ResolveFaces
<1>2. rows[m].pol = "terminal"
  BY <1>1 DEF Budget, Policies, PolicyOK, Open
<1>3. Policies'
  BY <1>1, <1>2 DEF Budget, Policies, PolicyOK
<1>4. ASSUME NEW n \in Msgs PROVE Used(n)' <= Allowed(n)'
  <2>1. subs[n] \in Nat /\ retries[n] \in Nat /\ Cardinality(CockedIn(jobs, n)) \in Nat
    BY CockedFinite DEF TypeOK, Budget
  <2>2. subs[n] + Cardinality(CockedIn(jobs, n)) <= Allowed(n)
    BY DEF Budget, Used
  <2>3. CASE n = m
    <3>1. Allowed(n) = 1 + retries[n]
      BY <1>1, <2>3 DEF Allowed, Launchable
    <3>2. CASE rows'[m].st = "queued" /\ retries' = [retries EXCEPT ![m] = @ + 1]
      <4>1. retries'[n] = retries[n] + 1
        BY <2>3, <3>2 DEF TypeOK
      <4>2. Launchable(rows'[n])
        BY <2>3, <3>2 DEF Launchable
      <4> QED BY <1>1, <2>1, <2>2, <3>1, <4>1, <4>2 DEF Used, Allowed
    <3>3. CASE rows'[m].st \in {"delivered", "dead"} /\ retries' = retries
      <4>1. ~Launchable(rows'[n])
        BY <1>1, <1>2, <2>3, <3>3 DEF Launchable
      <4> QED BY <1>1, <2>1, <2>2, <3>1, <3>3, <4>1 DEF Used, Allowed
    <3> QED BY <1>1, <3>2, <3>3
  <2>4. CASE n # m
    <3>1. rows'[n] = rows[n] /\ retries'[n] = retries[n]
      BY <1>1, <2>4 DEF TypeOK
    <3> QED BY <1>1, <2>2, <3>1 DEF Used, Allowed
  <2> QED BY <2>3, <2>4
<1> QED BY <1>1, <1>3, <1>4 DEF Budget

-----------------------------------------------------------------------------
(* The theorems.                                                           *)

\* Every step is still, a send, a claim, a reservation, a submission or an
\* operator's resolution.
LEMMA StepKinds ==
    ASSUME TypeOK, TypeOK', Policies, Next
    PROVE  \/ Still
           \/ Quiet /\ Sends
           \/ Quiet /\ \E d \in Disp : ClaimDelivery(d)
           \/ \E j \in jobs : Reserve(j) \/ Submit(j)
           \/ \E m \in Msgs : \E outcome \in {"delivered", "not_delivered", "dead"} :
                ResolveDelivery(m, outcome)
<1>1. CASE \E d \in Disp : ClaimDelivery(d)
  BY <1>1, ClaimQuiet
<1>2. CASE \E d \in Disp : CrashDispatcher(d)
  BY <1>2, CrashStill
<1>3. ASSUME NEW j \in jobs, JobStep(j)
      PROVE  Still \/ Reserve(j) \/ Submit(j)
  <2>1. CASE PreDispatch(j)
    BY <2>1, IdleRowsStill, SettleLeasedStill, IssueStill, ParkStill DEF PreDispatch
  <2>2. CASE Dispatch(j)
    BY <2>2, IdleRowsStill, BeginCaptureStill, ObserveTurnEndStill, ReturnStill DEF Dispatch
  <2>3. CASE PostDispatch(j)
    BY <2>3, IdleRowsStill, ParkStill, ReturnStill, SettleSuccessStill, MarkFailedStill,
       RateLimitedStill DEF PostDispatch
  <2> QED BY <1>3, <2>1, <2>2, <2>3 DEF JobStep
<1>4. CASE WorkerCall
  BY <1>4, RuntimeStill, HeartbeatStill, AcknowledgeStill, ReportStill DEF WorkerCall
<1>5. CASE SupervisorCall
  BY <1>5, SendingQuiet, RuntimeStill, CancelWorkQuiet DEF SupervisorCall
<1>6. CASE Scan
  BY <1>6, ScanStill
<1> QED BY <1>1, <1>2, <1>3, <1>4, <1>5, <1>6 DEF Next

SubInv == IndInv /\ Budget

\* A fresh runtime has no job, no submission and no retry.
LEMMA InitBudget == Init => Budget
<1> SUFFICES ASSUME Init PROVE Budget
  OBVIOUS
<1>1. PICK k \in {"bootstrap", "assignment"} :
        rows = [m \in Msgs |-> IF m = 1 THEN NewRow(k) ELSE NoRow]
  BY DEF Init
<1>2. jobs = {} /\ subs = [m \in Msgs |-> 0] /\ retries = [m \in Msgs |-> 0]
  BY DEF Init
<1>3. IsFiniteSet(jobs)
  BY <1>2, FS_EmptySet
<1>4. ASSUME NEW m \in Msgs PROVE PolicyOK(rows[m]) /\ Used(m) <= Allowed(m)
  <2>1. rows[m].pol = "terminal"
    BY <1>1 DEF NewRow, NoRow
  <2>2. CockedIn(jobs, m) = {}
    BY <1>2 DEF CockedIn
  <2>3. Used(m) = 0
    BY <1>2, <2>2, FS_EmptySet DEF Used
  <2>4. Allowed(m) \in {0, 1}
    BY <1>2 DEF Allowed
  <2> QED BY <2>1, <2>3, <2>4 DEF PolicyOK
<1> QED BY <1>3, <1>4 DEF Budget, Policies

\* Every step keeps the budget.
LEMMA NextBudget == SubInv /\ [Next]_vars => SubInv'
<1> SUFFICES ASSUME SubInv, [Next]_vars PROVE SubInv'
  OBVIOUS
<1>1. IndInv /\ Budget /\ TypeOK /\ Policies
  BY DEF SubInv, IndInv, Budget
<1>2. IndInv' /\ TypeOK'
  BY <1>1, NextInd DEF IndInv
<1>3. CASE UNCHANGED vars
  BY <1>1, <1>2, <1>3 DEF vars, SubInv, Budget, Policies, Used, Allowed
<1>4. CASE Next
  <2>1. Budget'
    BY <1>1, <1>2, <1>4, StepKinds, StillIsQuiet, QuietBudget, ReserveBudget, SubmitBudget, ResolveBudget
  <2> QED BY <1>2, <2>1 DEF SubInv
<1> QED BY <1>3, <1>4

\* The fences, the launch authority and the submission budget hold in every
\* reachable state.
THEOREM SubmissionInvariant == Spec => []SubInv
<1>1. Init => SubInv
  BY InitInd, InitBudget DEF SubInv
<1> QED BY <1>1, NextBudget, PTL DEF Spec

\* A message reaches the provider at most once for every time an operator
\* said it was not delivered: no timeout, crash, lease expiry or recovery
\* scan resubmits it (_process_delivery, resolve_delivery).
THEOREM SubmittedAtMostOnce == Spec => []SubmittedOnce
<1>1. SubInv => SubmittedOnce
  <2> SUFFICES ASSUME SubInv, NEW m \in Msgs PROVE subs[m] <= 1 + retries[m]
    BY DEF SubmittedOnce
  <2>1. subs[m] \in Nat /\ retries[m] \in Nat /\ Cardinality(CockedIn(jobs, m)) \in Nat
    BY CockedFinite DEF SubInv, IndInv, TypeOK, Budget
  <2>2. subs[m] + Cardinality(CockedIn(jobs, m)) <= Allowed(m)
    BY DEF SubInv, Budget, Used
  <2>3. Allowed(m) <= 1 + retries[m]
    BY <2>1 DEF Allowed
  <2>4. Allowed(m) \in Nat
    BY <2>1 DEF Allowed
  <2> QED BY <2>1, <2>2, <2>3, <2>4
<1> QED BY <1>1, SubmissionInvariant, PTL

\* A step other than a reservation dispatches no row and reopens none; a
\* reservation dispatches one leased row.
LEMMA DispatchSteps ==
    ASSUME SubInv, [Next]_vars
    PROVE  \/ \E j \in jobs : Reserve(j)
           \/ \A m \in Msgs :
                /\ rows'[m].st = "dispatched" => rows[m].st = "dispatched"
                /\ rows[m].st \in {"acknowledged", "handled"}
                     => rows'[m].st \in {"acknowledged", "handled", "dead"}
<1>1. TypeOK /\ Policies /\ TypeOK'
  <2>1. SubInv'
    BY NextBudget
  <2> QED BY <2>1 DEF SubInv, IndInv, Budget
<1>2. CASE UNCHANGED rows
  BY <1>2
<1>3. CASE Quiet
  BY <1>3 DEF Quiet, RowsCore, RowCore
<1>4. ASSUME NEW m \in Msgs, NEW outcome, ResolveDelivery(m, outcome)
      PROVE  \A n \in Msgs :
               /\ rows'[n].st = "dispatched" => rows[n].st = "dispatched"
               /\ rows[n].st \in {"acknowledged", "handled"}
                    => rows'[n].st \in {"acknowledged", "handled", "dead"}
  <2>1. /\ rows[m].st = "dispatched"
        /\ \A n \in Msgs \ {m} : rows'[n] = rows[n]
    BY <1>1, <1>4, ResolveFaces
  <2> QED BY <2>1
<1>5. ASSUME NEW j \in jobs, Submit(j)
      PROVE  UNCHANGED rows
  BY <1>5 DEF Submit
<1> QED BY <1>1, <1>2, <1>3, <1>4, <1>5, StepKinds, StillIsQuiet DEF vars

\* When a message is handed to a new process, no credential of an earlier
\* launch is active and no other launch is pending (the reservation in
\* _process_delivery).
THEOREM LaunchIsExclusive == Spec => LaunchExclusive
<1>1. SubInv /\ [Next]_vars =>
        [\A m \in Msgs : rows[m].st = "leased" /\ rows'[m].st = "dispatched"
                           => cred = 0 /\ \E t \in Tickets : Pending = {t}]_vars
  <2> SUFFICES ASSUME SubInv, [Next]_vars, NEW m \in Msgs,
                      rows[m].st = "leased", rows'[m].st = "dispatched"
               PROVE  cred = 0 /\ \E t \in Tickets : Pending = {t}
    OBVIOUS
  <2>1. PICK j \in jobs : Reserve(j)
    BY DispatchSteps
  <2>2. j.t \in Pending
    BY <2>1 DEF Reserve, LaunchIsCurrent
  <2>3. cred = 0 /\ \A u \in Pending : u = j.t
    BY <2>2 DEF SubInv, IndInv, AuthorityInv, PendingIsCurrent
  <2>4. j.t \in Tickets /\ Pending = {j.t}
    BY <2>2, <2>3 DEF Pending
  <2> QED BY <2>3, <2>4
<1> QED BY <1>1, SubmissionInvariant, PTL DEF Spec, LaunchExclusive

\* What the Worker acknowledged or handled is never offered again, whichever
\* late result, deferral or scan of the Dispatcher races with it.
THEOREM AcknowledgedStays == Spec => NoRegress
<1>1. SubInv /\ [Next]_vars =>
        [\A m \in Msgs : rows[m].st \in {"acknowledged", "handled"}
                           => rows'[m].st \in {"acknowledged", "handled", "dead"}]_vars
  <2> SUFFICES ASSUME SubInv, [Next]_vars, NEW m \in Msgs,
                      rows[m].st \in {"acknowledged", "handled"}
               PROVE  rows'[m].st \in {"acknowledged", "handled", "dead"}
    OBVIOUS
  <2>1. ASSUME NEW j \in jobs, Reserve(j)
        PROVE  rows'[m] = rows[m]
    <3>1. rows[j.m].st = "leased" /\ rows' = [rows EXCEPT ![j.m].st = "dispatched"]
      BY <2>1 DEF Reserve, Owns
    <3> QED BY <3>1 DEF SubInv, IndInv, TypeOK
  <2> QED BY <2>1, DispatchSteps
<1> QED BY <1>1, SubmissionInvariant, PTL DEF Spec, NoRegress

-----------------------------------------------------------------------------
(***************************************************************************)
(* The order of the lane.  A claim sees the lane head, a reservation does  *)
(* not look again.  What keeps a message that was never offered in front   *)
(* of the later ones is that nothing but a send makes a row open for the   *)
(* first time, that a send takes the next free place of the lane, and that *)
(* whatever reopens a closed row moves its fencing generation on.          *)
(***************************************************************************)

\* The lane is filled without gaps, a used row has a generation, and an
\* earlier open row behind a lease was offered before.
LaneInv ==
    /\ \A m \in Msgs : rows[m].st # "none" => rows[m].gen >= 1
    /\ \A m \in Msgs : \A n \in 1 .. m - 1 : rows[m].st # "none" => rows[n].st # "none"
    /\ \A m \in Msgs : \A n \in 1 .. m - 1 :
         rows[m].st = "leased" /\ rows[n].st \in Open => rows[n].gen > 1

\* What every step does to the place of a row in the lane.
RowMoves(m) ==
    /\ rows[m].st \in {"handled", "dead"} /\ rows'[m].st \in Open => rows'[m].st = "queued"
    /\ rows[m].st = "none" =>
         \/ rows'[m] = rows[m]
         \/ /\ rows'[m].st = "queued" /\ rows'[m].gen = 1
            /\ \A n \in 1 .. m - 1 : rows[n].st # "none"
    /\ rows'[m].st = "leased" /\ rows[m].st # "leased" =>
         \A n \in 1 .. m - 1 : rows'[n].st \notin Open

LaneMoves == RowsAdvance /\ \A m \in Msgs : RowMoves(m)

\* An earlier place of the lane is a place of the lane.
LEMMA EarlierMsgs == \A m \in Msgs : \A n \in 1 .. m - 1 : n \in Msgs
BY BoundAssumption DEF Msgs

\* Steps that move rows this way keep the lane.
LEMMA LaneStep ==
    ASSUME TypeOK, TypeOK', LaneInv, LaneMoves
    PROVE  LaneInv'
<1>1. \A m \in Msgs : rows[m].gen \in Nat /\ rows'[m].gen \in Nat /\ rows[m] \in Row
  BY DEF TypeOK, Row
<1>2. \A m \in Msgs : /\ RowMoves(m)
                      /\ rows[m].st # "none" => /\ rows'[m].st # "none"
                                                /\ rows'[m].gen >= rows[m].gen
                                                /\ rows'[m].st = "queued" =>
                                                     \/ rows'[m].gen > rows[m].gen
                                                     \/ rows[m].st = "queued"
  BY DEF LaneMoves, RowsAdvance, RowAdvances
<1>3. ASSUME NEW m \in Msgs, rows'[m].st # "none" PROVE rows'[m].gen >= 1
  <2>1. CASE rows[m].st = "none"
    BY <1>2, <1>3, <2>1 DEF RowMoves
  <2>2. CASE rows[m].st # "none"
    BY <1>1, <1>2, <2>2 DEF LaneInv
  <2> QED BY <2>1, <2>2
<1>4. ASSUME NEW m \in Msgs, NEW n \in 1 .. m - 1, rows'[m].st # "none"
      PROVE  rows'[n].st # "none"
  <2>1. n \in Msgs
    BY EarlierMsgs
  <2>2. rows[n].st # "none"
    BY <1>2, <1>4 DEF RowMoves, LaneInv
  <2> QED BY <1>2, <2>1, <2>2
<1>5. ASSUME NEW m \in Msgs, NEW n \in 1 .. m - 1, rows'[m].st = "leased", rows'[n].st \in Open
      PROVE  rows'[n].gen > 1
  <2>1. n \in Msgs
    BY EarlierMsgs
  <2>2. rows[m].st = "leased"
    BY <1>2, <1>5 DEF RowMoves
  <2>3. rows[n].st # "none"
    BY <2>2 DEF LaneInv
  <2>4. CASE rows[n].st \in Open
    <3>1. rows[n].gen > 1
      BY <2>2, <2>4 DEF LaneInv
    <3> QED BY <1>1, <1>2, <2>1, <2>3, <3>1
  <2>5. CASE rows[n].st \notin Open
    <3>1. rows[n].st \in {"handled", "dead"}
      BY <1>1, <2>1, <2>3, <2>5 DEF Row, RowStates
    <3>2. rows'[n].st = "queued"
      BY <1>2, <1>5, <2>1, <3>1 DEF RowMoves
    <3>3. rows'[n].gen > rows[n].gen /\ rows[n].gen >= 1
      BY <1>2, <2>1, <2>3, <3>1, <3>2 DEF LaneInv
    <3> QED BY <1>1, <2>1, <3>3
  <2> QED BY <2>4, <2>5
<1> QED BY <1>3, <1>4, <1>5 DEF LaneInv

-----------------------------------------------------------------------------
(* Every step moves rows this way.                                         *)

\* A still step opens no new row, leases none, and requeues what it reopens.
LEMMA StillMoves ==
    ASSUME Still
    PROVE  \A m \in Msgs : RowMoves(m)
BY DEF Still, RowsHold, RowHolds, RowMoves

\* A send takes the next free place of the lane.
LEMMA SendMoves ==
    ASSUME TypeOK, Sends
    PROVE  \A m \in Msgs : RowMoves(m)
<1>1. PICK k \in Kinds : SendMessage(k)
  BY DEF Sends
<1>2. PICK m \in Msgs : /\ rows[m].st = "none"
                        /\ \A n \in 1 .. m - 1 : rows[n].st # "none"
                        /\ SetRow(m, NewRow(k))
  BY <1>1 DEF SendMessage
<1>3. NewRow(k).st = "queued" /\ NewRow(k).gen = 1
  BY DEF NewRow
<1>4. rows'[m] = NewRow(k) /\ \A n \in Msgs \ {m} : rows'[n] = rows[n]
  BY <1>2 DEF SetRow, TypeOK
<1>5. RowMoves(m)
  BY <1>2, <1>3, <1>4 DEF RowMoves
<1>6. \A n \in Msgs \ {m} : RowMoves(n)
  BY <1>4 DEF RowMoves, Open
<1> QED BY <1>5, <1>6

\* A claim leases the head of the lane it saw, and requeues only leases.
LEMMA ClaimMoves ==
    ASSUME TypeOK, NEW d \in Disp, ClaimDelivery(d)
    PROVE  LaneMoves
<1>1. PICK expired \in SUBSET {m \in Msgs : Expirable(rows[m])} :
        LET rs == [m \in Msgs |-> IF m \in expired THEN Requeued(rows[m]) ELSE rows[m]]
        IN  \/ rows' = rs
            \/ \E m \in Msgs :
                 /\ Claimable(rs, m)
                 /\ rows' = [rs EXCEPT ![m].st = "leased", ![m].own = d]
  BY DEF ClaimDelivery
<1>2. PICK rs : rs = [m \in Msgs |-> IF m \in expired THEN Requeued(rows[m]) ELSE rows[m]]
  OBVIOUS
<1>3. ASSUME NEW n \in Msgs
      PROVE  /\ rows[n] \in Row /\ rs[n] \in Row /\ RowAdvances(rows[n], rs[n])
             /\ rs[n] = rows[n] \/ (rs[n].st = "queued" /\ rows[n].st = "leased")
  <2>1. rows[n] \in Row
    BY DEF TypeOK
  <2>2. CASE n \in expired
    <3>1. rs[n] = Requeued(rows[n]) /\ rows[n].st = "leased"
      BY <1>2, <2>2 DEF Expirable
    <3> QED BY <2>1, <3>1, RowRequeued, RowFaces
  <2>3. CASE n \notin expired
    <3>1. rs[n] = rows[n]
      BY <1>2, <2>3
    <3> QED BY <2>1, <3>1, RowReflexive
  <2> QED BY <2>2, <2>3
<1>4. rs \in [Msgs -> Row]
  BY <1>2, <1>3
<1>5. CASE rows' = rs
  BY <1>3, <1>5 DEF LaneMoves, RowsAdvance, RowMoves, Open
<1>6. ASSUME NEW m \in Msgs, Claimable(rs, m),
             rows' = [rs EXCEPT ![m].st = "leased", ![m].own = d]
      PROVE  LaneMoves
  <2>1. rs[m].st = "queued" /\ \A n \in 1 .. m - 1 : rs[n].st \notin Open
    BY <1>6 DEF Claimable, LaneHead
  <2>2. /\ rows'[m].st = "leased" /\ rows'[m].gen = rs[m].gen
        /\ \A n \in Msgs \ {m} : rows'[n] = rs[n]
    BY <1>3, <1>4, <1>6 DEF Row
  <2>3. RowAdvances(rows[m], rows'[m]) /\ rows[m].st \in {"queued", "leased"}
    BY <1>3, <2>1, <2>2 DEF RowAdvances
  <2>4. \A n \in 1 .. m - 1 : rows'[n].st \notin Open
    BY <2>1, <2>2, EarlierMsgs
  <2>5. RowMoves(m)
    BY <2>2, <2>3, <2>4 DEF RowMoves
  <2>6. \A n \in Msgs \ {m} : RowMoves(n) /\ RowAdvances(rows[n], rows'[n])
    BY <1>3, <2>2 DEF RowMoves, Open
  <2> QED BY <2>3, <2>5, <2>6 DEF LaneMoves, RowsAdvance
<1> QED BY <1>1, <1>2, <1>5, <1>6

\* A reservation, a submission and an operator's resolution reopen nothing
\* and lease nothing.
LEMMA OtherMoves ==
    ASSUME TypeOK,
           \/ \E j \in jobs : Reserve(j) \/ Submit(j)
           \/ \E m \in Msgs : \E outcome \in {"delivered", "not_delivered", "dead"} :
                ResolveDelivery(m, outcome)
    PROVE  \A m \in Msgs : RowMoves(m)
<1>1. ASSUME NEW j \in jobs, Reserve(j)
      PROVE  \A m \in Msgs : RowMoves(m)
  <2>1. j.m \in Msgs /\ rows[j.m].st = "leased" /\ rows' = [rows EXCEPT ![j.m].st = "dispatched"]
    BY <1>1, SMT DEF Reserve, Owns, TypeOK, Job
  <2>2. rows'[j.m].st = "dispatched" /\ \A n \in Msgs \ {j.m} : rows'[n] = rows[n]
    BY <2>1 DEF TypeOK, Row
  <2> QED BY <2>1, <2>2 DEF RowMoves, Open
<1>2. ASSUME NEW j \in jobs, Submit(j)
      PROVE  \A m \in Msgs : RowMoves(m)
  BY <1>2 DEF Submit, RowMoves, Open
<1>3. ASSUME NEW m \in Msgs, NEW outcome, ResolveDelivery(m, outcome)
      PROVE  \A n \in Msgs : RowMoves(n)
  <2>1. /\ rows[m].st = "dispatched" /\ rows'[m].st \in {"queued", "delivered", "dead"}
        /\ \A n \in Msgs \ {m} : rows'[n] = rows[n]
    BY <1>3, ResolveFaces
  <2> QED BY <2>1 DEF RowMoves, Open
<1> QED BY <1>1, <1>2, <1>3

\* Every step moves rows this way.
LEMMA NextMoves ==
    ASSUME SubInv, Next
    PROVE  LaneMoves
<1>1. TypeOK /\ AuthorityInv /\ Policies /\ TypeOK'
  <2>1. SubInv'
    BY NextBudget
  <2> QED BY <2>1 DEF SubInv, IndInv, Budget
<1>2. CASE \E d \in Disp : ClaimDelivery(d)
  BY <1>1, <1>2, ClaimMoves
<1>3. CASE ~\E d \in Disp : ClaimDelivery(d)
  <2>1. StepOK
    BY <1>1, <1>3, CrashDispatcherOK, JobStepOK, WorkerCallOK, SupervisorCallOK, ScanOK DEF Next
  <2>2. \A m \in Msgs : RowMoves(m)
    BY <1>1, <1>3, StepKinds, StillMoves, SendMoves, OtherMoves
  <2> QED BY <2>1, <2>2 DEF StepOK, LaneMoves
<1> QED BY <1>2, <1>3

-----------------------------------------------------------------------------
(* The theorems.                                                           *)

\* A fresh lane holds one queued row, in its first place.
LEMMA InitLane == Init => LaneInv
<1> SUFFICES ASSUME Init PROVE LaneInv
  OBVIOUS
<1>1. PICK k \in {"bootstrap", "assignment"} :
        rows = [m \in Msgs |-> IF m = 1 THEN NewRow(k) ELSE NoRow]
  BY DEF Init
<1>2. rows[1] = NewRow(k) /\ \A m \in Msgs \ {1} : rows[m] = NoRow
  BY <1>1, BoundAssumption DEF Msgs
<1>3. NewRow(k).st = "queued" /\ NewRow(k).gen = 1 /\ NoRow.st = "none"
  BY DEF NewRow, NoRow
<1>4. \A m \in Msgs : \A n \in 1 .. m - 1 : m # 1
  BY DEF Msgs
<1> QED BY <1>2, <1>3, <1>4 DEF LaneInv

\* The submission budget and the lane hold in every reachable state.
THEOREM LaneInvariant == Spec => [](SubInv /\ LaneInv)
<1>1. Init => SubInv /\ LaneInv
  BY InitInd, InitBudget, InitLane DEF SubInv
<1>2. SubInv /\ LaneInv /\ [Next]_vars => (SubInv /\ LaneInv)'
  <2> SUFFICES ASSUME SubInv, LaneInv, [Next]_vars PROVE (SubInv /\ LaneInv)'
    OBVIOUS
  <2>1. SubInv'
    BY NextBudget
  <2>2. CASE Next
    <3>1. TypeOK /\ TypeOK'
      BY <2>1 DEF SubInv, IndInv
    <3> QED BY <2>1, <2>2, <3>1, NextMoves, LaneStep
  <2>3. CASE UNCHANGED vars
    BY <2>1, <2>3 DEF vars, LaneInv
  <2> QED BY <2>2, <2>3
<1> QED BY <1>1, <1>2, PTL DEF Spec

\* A message that waits for its first offer is never overtaken, although the
\* reservation of _process_delivery does not look at the lane again.
THEOREM LaneOrder == Spec => NoOvertaking
<1>1. SubInv /\ LaneInv /\ [Next]_vars =>
        [\A m \in Msgs : rows[m].st = "leased" /\ rows'[m].st = "dispatched" =>
           \A n \in 1 .. m - 1 : rows[n].st \in Open => rows[n].gen > 1]_vars
  BY DEF LaneInv
<1> QED BY <1>1, LaneInvariant, PTL DEF Spec, NoOvertaking

=============================================================================
