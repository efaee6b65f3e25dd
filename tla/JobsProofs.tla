----------------------------- MODULE JobsProofs -----------------------------
(***************************************************************************)
(* Theorems about Jobs, for every value of its constants: which lease an   *)
(* outcome is of, the order of a lane, what an end leaves, by how much a   *)
(* capped kind may pass its cap, and that Jobs implements LaneQueue.       *)
(***************************************************************************)
EXTENDS Jobs, FiniteSetTheorems, TLAPS

-----------------------------------------------------------------------------
(* The inductive invariant                                                 *)

Types ==
    /\ jobs \in [Job -> Row]
    /\ discarded \subseteq Lanes
    /\ process \in [Dispatchers -> {"up", "stopping", "releasing", "leaving", "down"}]
    /\ work \in [Dispatchers -> [Job -> Work]]
    /\ leases \in [Job -> Nat]
    /\ budget \in [Bounds -> Nat]

\* Whoever holds a job holds an attempt the row has reached.
HeldAttempts ==
    \A d \in Dispatchers, j \in Job : Holds(d, j) =>
        /\ jobs[j].state # "none"
        /\ 1 <= work[d][j].attempt /\ work[d][j].attempt <= jobs[j].attempt

\* No two dispatchers hold the same attempt of a job.
OneHolderAnAttempt ==
    \A d, e \in Dispatchers, j \in Job :
        Holds(d, j) /\ Holds(e, j) /\ work[d][j].attempt = work[e][j].attempt => d = e

\* Whoever ended a job has left it, but for a lane that was discarded.
EndedIsLeft ==
    \A d \in Dispatchers, j \in Job :
        Finished(j) /\ (\A L \in discarded : j \notin L) /\ Holds(d, j) => ~Matches(d, j)

\* A lane whose jobs are numbered as they are queued fills in order.
NumberedInOrder ==
    \A L \in Lanes \ LateLanes : \A i, j \in L :
        i < j /\ jobs[j].state # "none" => jobs[i].state # "none"

-----------------------------------------------------------------------------
(* Types                                                                   *)

LEMMA NoRowType == NoRow \in Row /\ NoWork \in Work
BY JobsAssumption DEF NoRow, NoWork, Row, Work

LEMMA SpendType ==
    ASSUME budget \in [Bounds -> Nat], NEW b \in Bounds, Spend(b)
    PROVE  budget' \in [Bounds -> Nat]
BY DEF Spend

LEMMA InitTypes == Init => Types
BY NoRowType, JobsAssumption DEF Init, Types, Bounds

\* What the queries make of a row is a row.
LEMMA RowType ==
    ASSUME NEW r \in Row, NEW b \in BOOLEAN, NEW n \in Nat
    PROVE  /\ [r EXCEPT !.due = b] \in Row /\ [r EXCEPT !.young = b] \in Row
           /\ \A l \in {"live", "lapsed"} : [r EXCEPT !.lease = l] \in Row
           /\ [r EXCEPT !.max = @ + 1] \in Row
           /\ [NoRow EXCEPT !.state = "queued", !.due = b] \in Row
           /\ [r EXCEPT !.state = "discarded", !.lease = "none"] \in Row
           /\ [r EXCEPT !.state = "running", !.lease = "live", !.attempt = n] \in Row
           /\ [r EXCEPT !.state = "queued", !.lease = "none", !.attempt = n] \in Row
           /\ [r EXCEPT !.state = "succeeded", !.lease = "none"] \in Row
           /\ [r EXCEPT !.state = "queued", !.lease = "none", !.due = FALSE] \in Row
<1>1. [r EXCEPT !.due = b] \in Row /\ [r EXCEPT !.young = b] \in Row
  BY DEF Row
<1>2. \A l \in {"live", "lapsed"} : [r EXCEPT !.lease = l] \in Row
  BY DEF Row
<1>3. [r EXCEPT !.max = @ + 1] \in Row
  BY DEF Row
<1>4. [NoRow EXCEPT !.state = "queued", !.due = b] \in Row
  BY NoRowType DEF Row
<1>5. /\ [r EXCEPT !.state = "discarded", !.lease = "none"] \in Row
      /\ [r EXCEPT !.state = "succeeded", !.lease = "none"] \in Row
  BY DEF Row
<1>6. [r EXCEPT !.state = "running", !.lease = "live", !.attempt = n] \in Row
  BY DEF Row
<1>7. [r EXCEPT !.state = "queued", !.lease = "none", !.attempt = n] \in Row
  BY DEF Row
<1>8. [r EXCEPT !.state = "queued", !.lease = "none", !.due = FALSE] \in Row
  BY DEF Row
<1> QED
  BY <1>1, <1>2, <1>3, <1>4, <1>5, <1>6, <1>7, <1>8

LEMMA WorkType ==
    ASSUME NEW w \in Work
    PROVE  [w EXCEPT !.step = "writing"] \in Work /\ [w EXCEPT !.step = "drained"] \in Work
BY DEF Work

\* An outcome's write leaves a row and empties the hand that wrote it.
LEMMA RecordTypes ==
    ASSUME Types, NEW d \in Dispatchers, NEW j \in Job, NEW row \in Row,
           Record(d, j, row), budget' \in [Bounds -> Nat]
    PROVE  Types'
<1>1. jobs' \in [Job -> Row]
  BY DEF Record, Types
<1>2. work' \in [Dispatchers -> [Job -> Work]]
  BY NoRowType, Zenon DEF Record, Types
<1> QED
  BY <1>1, <1>2 DEF Record, Types

LEMMA OutcomeRows ==
    ASSUME Types, NEW j \in Job
    PROVE  /\ Ended(j, "succeeded") \in Row /\ Ended(j, "discarded") \in Row
           /\ Requeued(j) \in Row
           /\ [Requeued(j) EXCEPT !.max = @ + 1] \in Row
BY RowType DEF Types, Ended, Requeued

LEMMA OutcomeTypes ==
    ASSUME Types, NEW d \in Dispatchers, NEW j \in Job
    PROVE  WriteOutcome(d, j) => Types'
<1> USE OutcomeRows, RecordTypes
<1>1. Succeed(d, j) => Types'
  BY DEF Succeed, Types
<1>2. HandBack(d, j) => Types'
  BY SpendType DEF HandBack, Types, Bounds
<1>3. GiveUp(d, j) => Types'
  BY DEF GiveUp, Types
<1>4. Retry(d, j) => Types'
  BY DEF Retry, Types
<1> QED
  BY <1>1, <1>2, <1>3, <1>4 DEF WriteOutcome

LEMMA TableTypes == Types /\ Table => Types'
<1> SUFFICES ASSUME Types, Table PROVE Types'
  OBVIOUS
<1>1. ASSUME NEW j \in Job, Enqueue(j) PROVE Types'
  <2>1. PICK b \in BOOLEAN :
            jobs' = [jobs EXCEPT ![j] = [NoRow EXCEPT !.state = "queued", !.due = b]]
    BY <1>1 DEF Enqueue
  <2>2. [NoRow EXCEPT !.state = "queued", !.due = b] \in Row
    BY RowType, NoRowType
  <2>3. jobs' \in [Job -> Row]
    BY <2>1, <2>2 DEF Types
  <2> QED
    BY <1>1, <2>3 DEF Enqueue, Types
<1>2. ASSUME NEW j \in Job, FallDue(j) \/ GrowOld(j) PROVE Types'
  <2>1. \E b \in BOOLEAN :
            \/ jobs' = [jobs EXCEPT ![j] = [jobs[j] EXCEPT !.due = b]]
            \/ jobs' = [jobs EXCEPT ![j] = [jobs[j] EXCEPT !.young = b]]
    BY <1>2 DEF FallDue, GrowOld, Types
  <2>2. \A b \in BOOLEAN : [jobs[j] EXCEPT !.due = b] \in Row
                              /\ [jobs[j] EXCEPT !.young = b] \in Row
    BY RowType DEF Types
  <2>3. jobs' \in [Job -> Row]
    BY <2>1, <2>2 DEF Types
  <2> QED
    BY <1>2, <2>3 DEF FallDue, GrowOld, Types
<1>3. ASSUME NEW j \in Job, Lapse(j) \/ LapseUnderWorker(j) PROVE Types'
  <2>1. jobs' = [jobs EXCEPT ![j] = [jobs[j] EXCEPT !.lease = "lapsed"]]
    BY <1>3 DEF Lapse, LapseUnderWorker, Types
  <2>2. jobs' \in [Job -> Row]
    BY <2>1, RowType DEF Types
  <2> QED
    BY <1>3, <2>2, SpendType DEF Lapse, LapseUnderWorker, Types, Bounds
<1>4. ASSUME NEW L \in Lanes, DiscardLane(L) PROVE Types'
  BY <1>4, RowType DEF DiscardLane, Types
<1> QED
  BY <1>1, <1>2, <1>3, <1>4 DEF Table

LEMMA LeaseTypes ==
    ASSUME Types, NEW d \in Dispatchers, NEW j \in Job
    PROVE  Lease(d, j) \/ LoseLease(d, j) \/ Renew(d, j) \/ Claim(d, j)
               \/ LoseOutcome(d, j) => Types'
<1>1. Leased(j) \in Row
  <2>1. jobs[j] \in Row /\ jobs[j].attempt + 1 \in Nat
    BY DEF Types, Row
  <2> DEFINE n == jobs[j].attempt + 1
  <2>2. [jobs[j] EXCEPT !.state = "running", !.lease = "live", !.attempt = n] \in Row
    BY <2>1, RowType
  <2> QED
    BY <2>2 DEF Leased
<1>2. ASSUME Lease(d, j) PROVE work' \in [Dispatchers -> [Job -> Work]]
  <2>1. jobs[j] \in Row /\ leases[j] \in Nat
    BY DEF Types
  <2>2. [step |-> "held", attempt |-> jobs[j].attempt + 1, max |-> jobs[j].max,
         lease |-> leases[j] + 1] \in Work
    BY <2>1 DEF Row, Work
  <2> QED
    BY <1>2, <2>2 DEF Lease, Types
<1>3. Lease(d, j) => Types'
  BY <1>1, <1>2 DEF Lease, Types
<1>4. LoseLease(d, j) => Types'
  BY <1>1, SpendType DEF LoseLease, Types, Bounds
<1>5. ASSUME Renew(d, j) PROVE Types'
  <2>1. jobs' = [jobs EXCEPT ![j] = [jobs[j] EXCEPT !.lease = "live"]]
    BY <1>5 DEF Renew, Types
  <2>2. [jobs[j] EXCEPT !.lease = "live"] \in Row
    BY RowType DEF Types
  <2>3. jobs' \in [Job -> Row]
    BY <2>1, <2>2 DEF Types
  <2> QED
    BY <1>5, <2>3 DEF Renew, Types
<1>6. ASSUME Claim(d, j) PROVE Types'
  <2>1. work' = [work EXCEPT ![d] = [work[d] EXCEPT ![j] = [work[d][j] EXCEPT !.step = "writing"]]]
    BY <1>6 DEF Claim, Types
  <2>2. [work[d][j] EXCEPT !.step = "writing"] \in Work
    BY WorkType DEF Types
  <2>3. work' \in [Dispatchers -> [Job -> Work]]
    BY <2>1, <2>2 DEF Types
  <2> QED
    BY <1>6, <2>3 DEF Claim, Types
<1>7. ASSUME LoseOutcome(d, j) PROVE Types'
  <2>1. work' \in [Dispatchers -> [Job -> Work]]
    BY <1>7, NoRowType, Zenon DEF LoseOutcome, Types
  <2> QED
    BY <1>7, <2>1, SpendType DEF LoseOutcome, Types, Bounds
<1> QED
  BY <1>3, <1>4, <1>5, <1>6, <1>7

LEMMA LifeTypes ==
    ASSUME Types, HeldAttempts, NEW d \in Dispatchers
    PROVE  Start(d) \/ Stop(d) \/ Drain(d) \/ Release(d) \/ FailRelease(d)
               \/ Leave(d) \/ Crash(d) => Types'
<1>1. Start(d) \/ Stop(d) => Types'
  BY SpendType DEF Start, Stop, Types, Bounds
<1>2. ASSUME Drain(d) PROVE Types'
  <2>1. [j \in Job |-> IF work[d][j].step = "held"
                       THEN [work[d][j] EXCEPT !.step = "drained"] ELSE work[d][j]]
            \in [Job -> Work]
    BY WorkType DEF Types
  <2> QED
    BY <1>2, <2>1 DEF Drain, Types
<1>3. Released(d) \in [Job -> Row]
  <2> SUFFICES ASSUME NEW j \in Job, Drained(d, j), Matches(d, j)
               PROVE  [jobs[j] EXCEPT !.state = "queued", !.lease = "none", !.attempt = @ - 1]
                          \in Row
    BY DEF Released, Types
  <2>1. jobs[j] \in Row /\ jobs[j].attempt - 1 \in Nat
    BY DEF Drained, Matches, HeldAttempts, Holds, Types, Row
  <2> DEFINE n == jobs[j].attempt - 1
  <2>2. [jobs[j] EXCEPT !.state = "queued", !.lease = "none", !.attempt = n] \in Row
    BY <2>1, RowType
  <2> QED
    BY <2>2
<1>4. Dropped(d) \in [Job -> Work]
  BY NoRowType DEF Dropped, Types
<1>5. Release(d) => Types'
  BY <1>3, <1>4 DEF Release, Types
<1>6. FailRelease(d) => Types'
  BY <1>4, SpendType DEF FailRelease, Types, Bounds
<1>7. [j \in Job |-> NoWork] \in [Job -> Work]
  BY NoRowType
<1>8. Leave(d) => Types'
  BY <1>7 DEF Leave, Types
<1>9. Crash(d) => Types'
  BY <1>7, SpendType DEF Crash, Types, Bounds
<1> QED
  BY <1>1, <1>2, <1>5, <1>6, <1>8, <1>9

LEMMA TypesStep == Types /\ HeldAttempts /\ [Next]_vars => Types'
<1> SUFFICES ASSUME Types, HeldAttempts, [Next]_vars PROVE Types'
  OBVIOUS
<1>1. CASE Table
  BY <1>1, TableTypes
<1>2. CASE \E d \in Dispatchers : Dispatcher(d)
  BY <1>2, LeaseTypes, OutcomeTypes, LifeTypes DEF Dispatcher, WriteOutcome
<1>3. CASE UNCHANGED vars
  BY <1>3 DEF vars, Types
<1> QED
  BY <1>1, <1>2, <1>3 DEF Next

-----------------------------------------------------------------------------
(* What a step does to rows and to those who hold them                     *)

\* Rows keep their state and attempt, but for those queued or discarded.
RowsKept ==
    /\ discarded \subseteq discarded'
    /\ \A j \in Job :
        \/ jobs'[j].state = jobs[j].state /\ jobs'[j].attempt = jobs[j].attempt
        \/ /\ jobs[j].state = "none" /\ jobs'[j].state = "queued"
           /\ \A i \in 1 .. j - 1 :
                 jobs[i].state # "none" \/ \E L \in LateLanes : {i, j} \subseteq L
        \/ /\ jobs[j].state = "queued" /\ jobs'[j].state = "discarded"
           /\ jobs'[j].attempt = jobs[j].attempt /\ \E L \in discarded' : j \in L

\* Nobody comes to hold an attempt.
HandsFewer ==
    \A d \in Dispatchers, j \in Job : Holds(d, j)' =>
        /\ Holds(d, j)
        /\ work'[d][j].attempt = work[d][j].attempt
        /\ work'[d][j].lease = work[d][j].lease

Quiet == RowsKept /\ HandsFewer /\ leases' = leases

\* An outcome's write, with the row it leaves.
Outcome(d, j) ==
    \E row \in Row :
        /\ row.state \in {"queued", "succeeded", "discarded"}
        /\ row.attempt = jobs[j].attempt
        /\ Record(d, j, row)

LEMMA QuietTable ==
    ASSUME Types PROVE Table => Quiet
<1>1. ASSUME NEW j \in Job, Enqueue(j) PROVE Quiet
  <2>1. jobs'[j].state = "queued" /\ \A k \in Job \ {j} : jobs'[k] = jobs[k]
    BY <1>1 DEF Enqueue, Types, NoRow
  <2> QED
    BY <1>1, <2>1 DEF Enqueue, Quiet, RowsKept, HandsFewer, Holds
<1>2. ASSUME NEW j \in Job, FallDue(j) \/ GrowOld(j) \/ Lapse(j) \/ LapseUnderWorker(j)
      PROVE  Quiet
  <2>1. \A k \in Job : jobs'[k].state = jobs[k].state /\ jobs'[k].attempt = jobs[k].attempt
    BY <1>2 DEF FallDue, GrowOld, Lapse, LapseUnderWorker, Types, Row
  <2> QED
    BY <1>2, <2>1 DEF FallDue, GrowOld, Lapse, LapseUnderWorker, Quiet, RowsKept,
                      HandsFewer, Holds
<1>3. ASSUME NEW L \in Lanes, DiscardLane(L) PROVE Quiet
  <2>1. \A k \in Job :
           \/ jobs'[k] = jobs[k]
           \/ /\ jobs[k].state = "queued" /\ jobs'[k].state = "discarded"
              /\ jobs'[k].attempt = jobs[k].attempt /\ k \in L
    BY <1>3 DEF DiscardLane, Types, Row
  <2> QED
    BY <1>3, <2>1 DEF DiscardLane, Quiet, RowsKept, HandsFewer, Holds
<1> QED
  BY <1>1, <1>2, <1>3 DEF Table

LEMMA QuietJob ==
    ASSUME Types, NEW d \in Dispatchers, NEW j \in Job
    PROVE  Renew(d, j) \/ Claim(d, j) \/ LoseOutcome(d, j) => Quiet
<1>1. ASSUME Renew(d, j) PROVE Quiet
  <2>1. \A k \in Job : jobs'[k].state = jobs[k].state /\ jobs'[k].attempt = jobs[k].attempt
    BY <1>1 DEF Renew, Types, Row
  <2> QED
    BY <1>1, <2>1 DEF Renew, Quiet, RowsKept, HandsFewer, Holds
<1>2. ASSUME Claim(d, j) PROVE HandsFewer
  <2>1. \A e \in Dispatchers, k \in Job :
           /\ work'[e][k].attempt = work[e][k].attempt
           /\ work'[e][k].lease = work[e][k].lease
           /\ work'[e][k].step # work[e][k].step => work[e][k].step = "held"
    BY <1>2 DEF Claim, Types, Work
  <2> QED
    BY <2>1 DEF HandsFewer, Holds
<1>3. ASSUME LoseOutcome(d, j) PROVE HandsFewer
  <2>1. \A e \in Dispatchers, k \in Job :
           work'[e][k] = work[e][k] \/ work'[e][k].step = "none"
    BY <1>3 DEF LoseOutcome, Types, NoWork
  <2> QED
    BY <2>1 DEF HandsFewer, Holds
<1> QED
  BY <1>1, <1>2, <1>3 DEF Claim, LoseOutcome, Quiet, RowsKept

LEMMA QuietLife ==
    ASSUME Types, NEW d \in Dispatchers
    PROVE  Start(d) \/ Stop(d) \/ Drain(d) \/ FailRelease(d) \/ Leave(d) \/ Crash(d)
               => Quiet
<1>1. Start(d) \/ Stop(d) => HandsFewer
  BY DEF Start, Stop, HandsFewer, Holds
<1>2. Drain(d) => HandsFewer
  BY DEF Drain, HandsFewer, Holds, Types, Work
<1>3. ASSUME FailRelease(d) \/ Leave(d) \/ Crash(d) PROVE HandsFewer
  <2>1. \A e \in Dispatchers, k \in Job :
           work'[e][k] = work[e][k] \/ work'[e][k].step = "none"
    BY <1>3 DEF FailRelease, Leave, Crash, Dropped, Types, NoWork
  <2> QED
    BY <2>1 DEF HandsFewer, Holds
<1> QED
  BY <1>1, <1>2, <1>3 DEF Start, Stop, Drain, FailRelease, Leave, Crash, Quiet, RowsKept

LEMMA OutcomeStep ==
    ASSUME Types, NEW d \in Dispatchers, NEW j \in Job, WriteOutcome(d, j)
    PROVE  Outcome(d, j)
<1>1. /\ Ended(j, "succeeded").state = "succeeded" /\ Ended(j, "discarded").state = "discarded"
      /\ Requeued(j).state = "queued" /\ [Requeued(j) EXCEPT !.max = @ + 1].state = "queued"
      /\ Ended(j, "succeeded").attempt = jobs[j].attempt
      /\ Ended(j, "discarded").attempt = jobs[j].attempt
      /\ Requeued(j).attempt = jobs[j].attempt
      /\ [Requeued(j) EXCEPT !.max = @ + 1].attempt = jobs[j].attempt
  BY DEF Ended, Requeued, Types, Row
<1> QED
  BY <1>1, OutcomeRows DEF Outcome, WriteOutcome, Succeed, HandBack, GiveUp, Retry

LEMMA Steps ==
    ASSUME Types, [Next]_vars
    PROVE  \/ Quiet
           \/ \E d \in Dispatchers, j \in Job : Lease(d, j) \/ LoseLease(d, j)
           \/ \E d \in Dispatchers, j \in Job : Outcome(d, j)
           \/ \E d \in Dispatchers : Release(d)
<1>1. CASE Table
  BY <1>1, QuietTable
<1>2. CASE \E d \in Dispatchers : Dispatcher(d)
  BY <1>2, QuietJob, QuietLife, OutcomeStep DEF Dispatcher, WriteOutcome
<1>3. CASE UNCHANGED vars
  BY <1>3 DEF vars, Quiet, RowsKept, HandsFewer, Holds
<1> QED
  BY <1>1, <1>2, <1>3 DEF Next

-----------------------------------------------------------------------------
(* The invariant is kept                                                   *)

Inv ==
    /\ Types /\ HeldAttempts /\ OneHolderAnAttempt /\ EndedIsLeft
    /\ NumberedInOrder /\ OutcomeIsCurrent /\ LaneInOrder

LEMMA InitInv == Init => Inv
<1> SUFFICES ASSUME Init PROVE Inv
  OBVIOUS
<1>1. \A j \in Job : jobs[j].state = "none" /\ \A d \in Dispatchers : ~Holds(d, j)
  BY DEF Init, Holds, NoRow, NoWork
<1>2. \A L \in Lanes : L \subseteq Job
  BY JobsAssumption
<1> QED
  BY <1>1, <1>2, InitTypes DEF Inv, HeldAttempts, OneHolderAnAttempt, EndedIsLeft,
     NumberedInOrder, OutcomeIsCurrent, LaneInOrder, Finished

LEMMA QuietInv ==
    ASSUME Inv, Types', Quiet PROVE Inv'
<1>1. HeldAttempts'
  BY DEF Inv, HeldAttempts, Quiet, RowsKept, HandsFewer
<1>2. OneHolderAnAttempt'
  BY DEF Inv, OneHolderAnAttempt, Quiet, HandsFewer
<1>3. EndedIsLeft'
  BY DEF Inv, HeldAttempts, EndedIsLeft, Quiet, RowsKept, HandsFewer, Finished, Matches
<1>4. NumberedInOrder'
  <2> SUFFICES ASSUME NEW L \in Lanes \ LateLanes, NEW i \in L, NEW j \in L, i < j,
                      jobs'[j].state # "none"
               PROVE  jobs'[i].state # "none"
    BY DEF NumberedInOrder
  <2>1. i \in Job /\ j \in Job /\ i \in 1 .. j - 1
    BY JobsAssumption DEF Job
  <2>2. \A M \in LateLanes : ~({i, j} \subseteq M)
    BY JobsAssumption
  <2>3. jobs[i].state # "none"
    BY <2>1, <2>2 DEF Inv, NumberedInOrder, Quiet, RowsKept
  <2> QED
    BY <2>1, <2>3 DEF Quiet, RowsKept
<1>5. OutcomeIsCurrent'
  BY DEF Inv, OutcomeIsCurrent, Quiet, RowsKept, HandsFewer, Matches
<1>6. LaneInOrder'
  <2> SUFFICES ASSUME NEW L \in Lanes \ (LateLanes \cup discarded'), NEW i \in L, NEW j \in L,
                      i < j, jobs'[j].state = "running"
               PROVE  Finished(i)'
    BY DEF LaneInOrder
  <2>1. i \in Job /\ j \in Job /\ L \notin discarded
    BY JobsAssumption DEF Quiet, RowsKept
  <2>2. jobs[j].state = "running"
    BY <2>1 DEF Quiet, RowsKept
  <2>3. Finished(i)
    BY <2>1, <2>2 DEF Inv, LaneInOrder
  <2> QED
    BY <2>1, <2>3 DEF Quiet, RowsKept, Finished
<1> QED
  BY <1>1, <1>2, <1>3, <1>4, <1>5, <1>6 DEF Inv

LEMMA LeaseInv ==
    ASSUME Inv, Types', NEW d \in Dispatchers, NEW j \in Job, Lease(d, j) \/ LoseLease(d, j)
    PROVE  Inv'
<1>1. /\ Unfinished(j) /\ Head(j) /\ discarded' = discarded
      /\ jobs'[j].state = "running" /\ jobs'[j].attempt = jobs[j].attempt + 1
      /\ leases'[j] = leases[j] + 1
      /\ \A k \in Job \ {j} : jobs'[k] = jobs[k] /\ leases'[k] = leases[k]
  <2>1. /\ Unfinished(j) /\ Head(j) /\ discarded' = discarded
        /\ jobs' = [jobs EXCEPT ![j] = Leased(j)] /\ leases' = [leases EXCEPT ![j] = @ + 1]
    BY DEF Lease, LoseLease, Leasable, Due
  <2>2. jobs[j] \in Row /\ jobs \in [Job -> Row] /\ leases \in [Job -> Nat]
    BY DEF Inv, Types
  <2>3. Leased(j).state = "running" /\ Leased(j).attempt = jobs[j].attempt + 1
    BY <2>2 DEF Leased, Row
  <2> QED
    BY <2>1, <2>2, <2>3
<1>2. \A e \in Dispatchers, k \in Job :
        \/ work'[e][k] = work[e][k]
        \/ /\ e = d /\ k = j /\ work'[e][k].attempt = jobs[j].attempt + 1
           /\ work'[e][k].lease = leases[j] + 1
  BY DEF Inv, Types, Lease, LoseLease
<1>3. \A e \in Dispatchers, k \in Job :
        /\ jobs[k].attempt \in Nat /\ work[e][k].attempt \in Nat
        /\ Holds(e, j) => work[e][j].attempt < jobs[j].attempt + 1
  BY DEF Inv, Types, HeldAttempts, Row, Work
<1>4. HeldAttempts'
  BY <1>1, <1>2, <1>3 DEF Inv, HeldAttempts, Holds
<1>5. OneHolderAnAttempt'
  BY <1>1, <1>2, <1>3 DEF Inv, OneHolderAnAttempt, Holds
<1>6. EndedIsLeft'
  BY <1>1, <1>2 DEF Inv, EndedIsLeft, Finished, Matches, Holds
<1>7. NumberedInOrder'
  BY <1>1, JobsAssumption DEF Inv, NumberedInOrder, Unfinished
<1>8. OutcomeIsCurrent'
  BY <1>1, <1>2, <1>3 DEF Inv, OutcomeIsCurrent, Matches, Holds
<1>9. LaneInOrder'
  <2> SUFFICES ASSUME NEW L \in Lanes \ (LateLanes \cup discarded), NEW i \in L, NEW k \in L,
                      i < k, jobs'[k].state = "running"
               PROVE  Finished(i)'
    BY <1>1 DEF LaneInOrder
  <2>1. i \in Job /\ k \in Job
    BY JobsAssumption
  <2>2. CASE k = j
    <3>1. i \in Before(j)
      BY <2>1, <2>2 DEF Before
    <3>2. ~Unfinished(i) /\ jobs[i].state # "none"
      BY <1>1, <2>2, <3>1 DEF Inv, Head, NumberedInOrder, Unfinished
    <3>3. Finished(i) /\ i # j
      <4>1. jobs[i].state \in {"none", "queued", "running", "succeeded", "discarded"}
        BY <2>1 DEF Inv, Types, Row
      <4>2. Unfinished(j)
        BY <1>1
      <4> QED
        BY <2>1, <3>2, <4>1, <4>2 DEF Finished, Unfinished
    <3> QED
      BY <1>1, <2>1, <3>3 DEF Finished
  <2>3. CASE k # j
    <3>1. Finished(i)
      BY <1>1, <2>1, <2>3 DEF Inv, LaneInOrder
    <3>2. i # j
      BY <1>1, <3>1 DEF Finished, Unfinished
    <3> QED
      BY <1>1, <2>1, <3>1, <3>2 DEF Finished
  <2> QED
    BY <2>2, <2>3
<1> QED
  BY <1>4, <1>5, <1>6, <1>7, <1>8, <1>9 DEF Inv

LEMMA OutcomeInv ==
    ASSUME Inv, Types', NEW d \in Dispatchers, NEW j \in Job, Outcome(d, j)
    PROVE  Inv'
<1>1. /\ discarded' = discarded /\ leases' = leases /\ Holds(d, j)
      /\ \A k \in Job \ {j} : jobs'[k] = jobs[k]
      /\ jobs'[j] # jobs[j] =>
            Matches(d, j) /\ jobs'[j].state \in {"queued", "succeeded", "discarded"}
      /\ jobs'[j].attempt = jobs[j].attempt
  BY DEF Inv, Types, Outcome, Record, Holds
<1>2. /\ ~Holds(d, j)'
      /\ \A e \in Dispatchers, k \in Job : ~(e = d /\ k = j) => work'[e][k] = work[e][k]
  BY DEF Inv, Types, Outcome, Record, Holds, NoWork
<1>3. jobs[j].state # "none"
  BY <1>1 DEF Inv, HeldAttempts
<1>4. \A e \in Dispatchers : Holds(e, j)' /\ Matches(d, j) => ~Matches(e, j)
  BY <1>1, <1>2 DEF Inv, OneHolderAnAttempt, Matches, Holds
<1>5. HeldAttempts'
  BY <1>1, <1>2 DEF Inv, HeldAttempts, Holds
<1>6. OneHolderAnAttempt'
  BY <1>1, <1>2 DEF Inv, OneHolderAnAttempt, Holds
<1>7. EndedIsLeft'
  BY <1>1, <1>2, <1>4 DEF Inv, EndedIsLeft, Finished, Matches, Holds
<1>8. NumberedInOrder'
  BY <1>1, <1>3, JobsAssumption DEF Inv, NumberedInOrder
<1>9. OutcomeIsCurrent'
  BY <1>1, <1>2 DEF Inv, OutcomeIsCurrent, Matches, Holds
<1>10. LaneInOrder'
  <2> SUFFICES ASSUME NEW L \in Lanes \ (LateLanes \cup discarded), NEW i \in L, NEW k \in L,
                      i < k, jobs'[k].state = "running"
               PROVE  Finished(i)'
    BY <1>1 DEF LaneInOrder
  <2>1. i \in Job /\ k \in Job /\ jobs[k].state = "running"
    BY <1>1, JobsAssumption
  <2>2. Finished(i)
    BY <2>1 DEF Inv, LaneInOrder
  <2>3. \A M \in discarded : i \notin M
    BY JobsAssumption DEF Inv, Types
  <2>4. jobs'[i] = jobs[i]
    BY <1>1, <2>1, <2>2, <2>3 DEF Inv, EndedIsLeft
  <2> QED
    BY <2>2, <2>4 DEF Finished
<1> QED
  BY <1>5, <1>6, <1>7, <1>8, <1>9, <1>10 DEF Inv

LEMMA ReleaseInv ==
    ASSUME Inv, Types', NEW d \in Dispatchers, Release(d)
    PROVE  Inv'
<1>1. /\ discarded' = discarded /\ leases' = leases
      /\ \A j \in Job :
            \/ jobs'[j] = jobs[j]
            \/ /\ Drained(d, j) /\ Matches(d, j) /\ jobs[j].state = "running"
               /\ jobs'[j].state = "queued" /\ jobs'[j].attempt = jobs[j].attempt - 1
  <2>1. \A j \in Job :
           jobs'[j] = IF Drained(d, j) /\ jobs[j].state = "running" /\ Matches(d, j)
                      THEN [jobs[j] EXCEPT !.state = "queued", !.lease = "none",
                                           !.attempt = @ - 1]
                      ELSE jobs[j]
    BY DEF Release, Released
  <2>2. ASSUME NEW j \in Job
        PROVE  LET q == [jobs[j] EXCEPT !.state = "queued", !.lease = "none", !.attempt = @ - 1]
               IN  q.state = "queued" /\ q.attempt = jobs[j].attempt - 1
    <3>1. jobs[j] \in Row
      BY DEF Inv, Types
    <3> QED
      BY <3>1 DEF Row
  <2>3. discarded' = discarded /\ leases' = leases
    BY DEF Release
  <2> QED
    BY <2>1, <2>2, <2>3
<1>2. \A e \in Dispatchers, j \in Job :
        \/ work'[e][j] = work[e][j] /\ ~(e = d /\ Drained(d, j))
        \/ ~Holds(e, j)'
  BY DEF Inv, Types, Release, Dropped, Drained, Holds, NoWork
<1>3. \A j \in Job : Drained(d, j) => Holds(d, j)
  BY DEF Drained, Holds
<1>4. \A e \in Dispatchers, j \in Job :
        Holds(e, j)' /\ jobs'[j] # jobs[j] => work[e][j].attempt # jobs[j].attempt
  BY <1>1, <1>2, <1>3 DEF Inv, OneHolderAnAttempt, Matches, Holds
<1>5. \A e \in Dispatchers, j \in Job :
        jobs[j].attempt \in Nat /\ work[e][j].attempt \in Nat
  BY DEF Inv, Types, Row, Work
<1>6. HeldAttempts'
  BY <1>1, <1>2, <1>4, <1>5 DEF Inv, HeldAttempts, Holds
<1>7. OneHolderAnAttempt'
  BY <1>2 DEF Inv, OneHolderAnAttempt, Holds
<1>8. EndedIsLeft'
  BY <1>1, <1>2 DEF Inv, EndedIsLeft, Finished, Matches, Holds
<1>9. NumberedInOrder'
  BY <1>1, JobsAssumption DEF Inv, NumberedInOrder
<1>10. OutcomeIsCurrent'
  BY <1>1, <1>2 DEF Inv, OutcomeIsCurrent, Matches, Holds
<1>11. LaneInOrder'
  BY <1>1, JobsAssumption DEF Inv, LaneInOrder, Finished
<1> QED
  BY <1>6, <1>7, <1>8, <1>9, <1>10, <1>11 DEF Inv

LEMMA NextInv == Inv /\ [Next]_vars => Inv'
<1> SUFFICES ASSUME Inv, [Next]_vars PROVE Inv'
  OBVIOUS
<1>1. Types'
  BY TypesStep DEF Inv
<1> QED
  BY <1>1, Steps, QuietInv, LeaseInv, OutcomeInv, ReleaseInv DEF Inv

\* The inductive invariant holds always.
THEOREM Invariant == Spec => []Inv
BY InitInv, NextInv, PTL DEF Spec

-----------------------------------------------------------------------------
(* The theorems                                                            *)

\* An outcome or a release that meets a running row comes from the lease the
\* row runs on (inflight.go, and the attempt in every query's WHERE).
THEOREM AlwaysOutcomeIsCurrent == Spec => []OutcomeIsCurrent
BY Invariant, PTL DEF Inv

\* In a lane numbered in order, a job runs only when all before it are
\* finished (LeaseJobs, lanes.go).
THEOREM AlwaysLaneInOrder == Spec => []LaneInOrder
BY Invariant, PTL DEF Inv

LEMMA EndedStep ==
    ASSUME Inv, [Next]_vars, NEW j \in Job, Finished(j), \A L \in discarded : j \notin L
    PROVE  jobs'[j] = jobs[j]
<1>1. CASE Table
  <2>1. \A k \in Job : Enqueue(k) \/ FallDue(k) \/ GrowOld(k) \/ Lapse(k)
                            \/ LapseUnderWorker(k) => jobs'[j] = jobs[j]
    BY DEF Inv, Types, Enqueue, FallDue, GrowOld, Lapse, LapseUnderWorker, LiveLease,
           Unfinished, Finished
  <2>2. \A L \in Lanes : DiscardLane(L) => jobs'[j] = jobs[j]
    BY DEF DiscardLane, Finished
  <2> QED
    BY <1>1, <2>1, <2>2 DEF Table
<1>2. ASSUME NEW d \in Dispatchers, NEW k \in Job,
             Lease(d, k) \/ LoseLease(d, k) \/ Renew(d, k) \/ Claim(d, k) \/ LoseOutcome(d, k)
      PROVE  jobs'[j] = jobs[j]
  BY <1>2 DEF Inv, Types, Lease, LoseLease, Leasable, Due, Renew, Claim, LoseOutcome,
              Unfinished, Finished
<1>3. ASSUME NEW d \in Dispatchers, NEW k \in Job, WriteOutcome(d, k)
      PROVE  jobs'[j] = jobs[j]
  <2>1. Outcome(d, k)
    BY <1>3, OutcomeStep DEF Inv
  <2>2. k = j => Holds(d, j) /\ ~Matches(d, j)
    BY <2>1 DEF Inv, EndedIsLeft, Outcome, Record, Holds
  <2> QED
    BY <2>1, <2>2 DEF Inv, Types, Outcome, Record
<1>4. ASSUME NEW d \in Dispatchers,
             Start(d) \/ Stop(d) \/ Drain(d) \/ Release(d) \/ FailRelease(d) \/ Leave(d)
                 \/ Crash(d)
      PROVE  jobs'[j] = jobs[j]
  BY <1>4 DEF Start, Stop, Drain, Release, Released, FailRelease, Leave, Crash, Finished
<1>5. CASE UNCHANGED vars
  BY <1>5 DEF vars
<1> QED
  BY <1>1, <1>2, <1>3, <1>4, <1>5 DEF Next, Dispatcher, WriteOutcome

\* A job that ended outside a discarded lane is never touched again: no
\* later outcome, release or lease of it changes the row (FinishJob,
\* RequeueJob, HandBackJob, which do not look at the state).
THEOREM AlwaysEndedForGood == Spec => EndedForGood
<1>1. Inv /\ [Next]_vars =>
        [\A j \in Job : Finished(j) /\ (\A L \in discarded : j \notin L)
            => jobs'[j] = jobs[j]]_vars
  BY EndedStep
<1> QED
  BY <1>1, Invariant, PTL DEF Spec, EndedForGood

-----------------------------------------------------------------------------
(* Types, and the workers' bound                                           *)

InHand(d) == {j \in Job : Tracked(d, j)}

LEMMA InHandFinite ==
    \A d \in Dispatchers : IsFiniteSet(InHand(d)) /\ Cardinality(InHand(d)) \in Nat
<1>1. IsFiniteSet(Job)
  BY FS_Interval, JobsAssumption DEF Job
<1>2. \A d \in Dispatchers : IsFiniteSet(InHand(d))
  BY <1>1, FS_Subset DEF InHand
<1> QED
  BY <1>2, FS_CardinalityType

LEMMA InitWithin == Init => WithinWorkers
<1> SUFFICES ASSUME Init PROVE WithinWorkers
  OBVIOUS
<1>1. \A d \in Dispatchers : {j \in Job : Tracked(d, j)} = {}
  BY DEF Init, Tracked, NoWork
<1>2. \A d \in Dispatchers : Cardinality({j \in Job : Tracked(d, j)}) = 0
  BY <1>1, FS_EmptySet, Zenon
<1>3. 0 <= Workers
  BY JobsAssumption
<1> QED
  BY <1>2, <1>3 DEF WithinWorkers

\* Only a lease adds to what a dispatcher has in hand.
TrackedFewer ==
    \A d \in Dispatchers, j \in Job :
        Tracked(d, j)' => Tracked(d, j) /\ work'[d][j].attempt = work[d][j].attempt

LEMMA HandsKept ==
    ASSUME Types, [Next]_vars
    PROVE  TrackedFewer \/ \E d \in Dispatchers, j \in Job : Lease(d, j)
<1>1. Table \/ UNCHANGED vars => TrackedFewer
  BY DEF Table, Enqueue, FallDue, GrowOld, Lapse, LapseUnderWorker, DiscardLane, vars, Tracked, TrackedFewer
<1>2. ASSUME NEW d \in Dispatchers, NEW j \in Job,
             LoseLease(d, j) \/ Renew(d, j) \/ Claim(d, j)
      PROVE  TrackedFewer
  <2>1. CASE Claim(d, j)
    <3>1. \A e \in Dispatchers, k \in Job :
             /\ work'[e][k].step = work[e][k].step \/ work[e][k].step = "held"
             /\ work'[e][k].attempt = work[e][k].attempt
      BY <2>1 DEF Claim, Types, Work
    <3> QED
      BY <3>1 DEF Tracked, TrackedFewer
  <2>2. CASE LoseLease(d, j) \/ Renew(d, j)
    BY <2>2 DEF LoseLease, Renew, Tracked, TrackedFewer
  <2> QED
    BY <1>2, <2>1, <2>2
<1>3. ASSUME NEW d \in Dispatchers, NEW j \in Job, WriteOutcome(d, j) \/ LoseOutcome(d, j)
      PROVE  TrackedFewer
  <2>1. work' = [work EXCEPT ![d][j] = NoWork]
    BY <1>3 DEF WriteOutcome, Succeed, HandBack, GiveUp, Retry, Record, LoseOutcome
  <2>2. \A e \in Dispatchers, k \in Job :
           work'[e][k] = work[e][k] \/ work'[e][k].step = "none"
    BY <2>1 DEF Types, NoWork
  <2> QED
    BY <2>2 DEF Tracked, TrackedFewer
<1>4. ASSUME NEW d \in Dispatchers,
             Start(d) \/ Stop(d) \/ Drain(d) \/ Release(d) \/ FailRelease(d) \/ Leave(d)
                 \/ Crash(d)
      PROVE  TrackedFewer
  <2>1. \A e \in Dispatchers, k \in Job :
           \/ work'[e][k] = work[e][k]
           \/ work'[e][k].step \in {"none", "drained"}
    BY <1>4 DEF Start, Stop, Drain, Release, FailRelease, Leave, Crash, Dropped, Types, Work,
                NoWork
  <2> QED
    BY <2>1 DEF Tracked, TrackedFewer
<1> QED
  BY <1>1, <1>2, <1>3, <1>4 DEF Next, Dispatcher, WriteOutcome

LEMMA NextWithin ==
    ASSUME Types, WithinWorkers, [Next]_vars PROVE WithinWorkers'
<1>1. ASSUME TrackedFewer PROVE WithinWorkers'
  <2> SUFFICES ASSUME NEW d \in Dispatchers PROVE Cardinality(InHand(d)') <= Workers
    BY DEF WithinWorkers, InHand
  <2>1. InHand(d)' \subseteq InHand(d)
    BY <1>1 DEF InHand, TrackedFewer
  <2>2. Cardinality(InHand(d)') <= Cardinality(InHand(d)) /\ Cardinality(InHand(d)') \in Nat
    BY <2>1, InHandFinite, FS_Subset, FS_CardinalityType
  <2>3. Cardinality(InHand(d)) <= Workers
    BY DEF WithinWorkers, InHand
  <2> QED
    BY <2>2, <2>3, InHandFinite, JobsAssumption
<1>2. ASSUME NEW d \in Dispatchers, NEW j \in Job, Lease(d, j) PROVE WithinWorkers'
  <2> SUFFICES ASSUME NEW e \in Dispatchers PROVE Cardinality(InHand(e)') <= Workers
    BY DEF WithinWorkers, InHand
  <2>1. Cardinality(InHand(e)) <= Workers /\ Cardinality(InHand(d)) < Workers
    BY <1>2 DEF WithinWorkers, InHand, Lease, Leasable, Free
  <2>2. CASE e # d
    <3>1. InHand(e)' = InHand(e)
      BY <1>2, <2>2 DEF InHand, Lease, Tracked, Types
    <3> QED
      BY <2>1, <3>1
  <2>3. CASE e = d
    <3>1. InHand(d)' = InHand(d) \cup {j}
      BY <1>2 DEF InHand, Lease, Tracked, Types
    <3>2. Cardinality(InHand(d) \cup {j}) <= Cardinality(InHand(d)) + 1
      BY InHandFinite, FS_AddElement
    <3>3. Cardinality(InHand(d) \cup {j}) \in Nat
      BY InHandFinite, FS_AddElement, FS_CardinalityType
    <3> QED
      BY <2>1, <2>3, <3>1, <3>2, <3>3, InHandFinite, JobsAssumption
  <2> QED
    BY <2>2, <2>3
<1> QED
  BY <1>1, <1>2, HandsKept

\* Every variable keeps its type, and no dispatcher has more in hand than its
\* workers (leaseBatch asks for no more than are free).
THEOREM TypeCorrect == Spec => []TypeOK
<1>1. Inv /\ WithinWorkers => TypeOK
  BY DEF Inv, Types, TypeOK
<1>2. Inv /\ WithinWorkers /\ [Next]_vars => WithinWorkers'
  BY NextWithin DEF Inv
<1> QED
  BY <1>1, <1>2, InitWithin, Invariant, PTL DEF Spec

-----------------------------------------------------------------------------
(* A capped kind's overrun                                                 *)

\* A row whose lease lapsed under a worker that may still renew it.
Renewable(j) == jobs[j].state = "running" /\ jobs[j].lease = "lapsed" /\ Tended(j)

\* The rows that hold a live lease, or may come to hold one without asking
\* whether there is room.
Counts(j) == LiveLease(j) \/ Renewable(j)

DownIsEmpty == \A d \in Dispatchers, j \in Job : process[d] = "down" => ~Tracked(d, j)

Lapses == MaxLapses - budget["lapses"]

\* Each lapse under a worker makes one row renewable, and each renewable row
\* adds one to what a kind may come to hold.
CapInv ==
    /\ DownIsEmpty /\ Lapses >= 0
    /\ \A K \in Capped :
          /\ Cardinality({j \in K : Renewable(j)}) <= Lapses
          /\ Cardinality({j \in K : Counts(j)}) <= MaxInFlight + Lapses

LEMMA CappedFinite ==
    \A K \in Capped : \A S \in SUBSET K :
        IsFiniteSet(S) /\ Cardinality(S) \in Nat /\ \A T \in SUBSET S : Cardinality(T) <= Cardinality(S)
<1>1. IsFiniteSet(Job)
  BY FS_Interval, JobsAssumption DEF Job
<1>2. \A K \in Capped : K \subseteq Job
  BY JobsAssumption
<1>3. \A S \in SUBSET Job : IsFiniteSet(S)
  BY <1>1, FS_Subset
<1> QED
  BY <1>2, <1>3, FS_Subset, FS_CardinalityType

\* Nobody comes to tend a row that runs on.
LEMMA TendedStays ==
    ASSUME DownIsEmpty, TrackedFewer, NEW j \in Job, jobs'[j].attempt = jobs[j].attempt, Tended(j)'
    PROVE  Tended(j)
BY DEF DownIsEmpty, TrackedFewer, Tended, Matches

Calm ==
    \A j \in Job : (Counts(j)' => Counts(j)) /\ (Renewable(j)' => Renewable(j))

\* A step after which the rows that run ran before, on the same lease.
LEMMA RunOn ==
    ASSUME DownIsEmpty, TrackedFewer,
           \A j \in Job : jobs'[j].state = "running" =>
              /\ jobs[j].state = "running" /\ jobs'[j].attempt = jobs[j].attempt
              /\ jobs'[j].lease = jobs[j].lease
    PROVE  Calm
<1>1. ASSUME NEW j \in Job, Renewable(j)' PROVE Renewable(j)
  BY <1>1, TendedStays DEF Renewable
<1> QED
  BY <1>1 DEF Calm, Counts, LiveLease

\* What each step does to the rows that count.
LEMMA CapSteps ==
    ASSUME Types, DownIsEmpty, [Next]_vars
    PROVE  \/ Calm /\ budget'["lapses"] = budget["lapses"]
           \/ \E j \in Job :
                 /\ LiveLease(j) /\ budget["lapses"] > 0 /\ budget'["lapses"] = budget["lapses"] - 1
                 /\ \A k \in Job : (Counts(k)' => Counts(k)) /\ (k # j => (Renewable(k)' => Renewable(k)))
           \/ \E j \in Job :
                 /\ Room(j) /\ ~Renewable(j)' /\ budget'["lapses"] = budget["lapses"]
                 /\ \A k \in Job \ {j} : (Counts(k)' => Counts(k)) /\ (Renewable(k)' => Renewable(k))
<1> DEFINE Goal == \/ Calm /\ budget'["lapses"] = budget["lapses"]
                   \/ \E j \in Job :
                         /\ LiveLease(j) /\ budget["lapses"] > 0 /\ budget'["lapses"] = budget["lapses"] - 1
                         /\ \A k \in Job : (Counts(k)' => Counts(k)) /\ (k # j => (Renewable(k)' => Renewable(k)))
                   \/ \E j \in Job :
                         /\ Room(j) /\ ~Renewable(j)' /\ budget'["lapses"] = budget["lapses"]
                         /\ \A k \in Job \ {j} : (Counts(k)' => Counts(k)) /\ (Renewable(k)' => Renewable(k))
<1>0. ASSUME NEW d \in Dispatchers, NEW j \in Job, Lease(d, j) \/ LoseLease(d, j) PROVE Goal
  <2>1. /\ jobs' = [jobs EXCEPT ![j] = Leased(j)] /\ Room(j)
        /\ budget'["lapses"] = budget["lapses"] /\ process' = process
    BY <1>0 DEF Lease, LoseLease, Leasable, Spend, Types, Bounds
  <2>2. jobs'[j].lease = "live" /\ \A k \in Job \ {j} : jobs'[k] = jobs[k]
    BY <2>1 DEF Leased, Types, Row
  <2>3. ~Renewable(j)'
    BY <2>2 DEF Renewable
  <2>4. \A e \in Dispatchers, k \in Job \ {j} : work'[e][k] = work[e][k]
    BY <1>0 DEF Lease, LoseLease, Types
  <2>5. ASSUME NEW k \in Job \ {j}
        PROVE  (Counts(k)' => Counts(k)) /\ (Renewable(k)' => Renewable(k))
    <3>1. Tended(k)' => Tended(k)
      BY <2>1, <2>2, <2>4 DEF Tended, Tracked, Matches
    <3> QED
      BY <2>2, <3>1 DEF Counts, LiveLease, Renewable
  <2> QED
    BY <2>1, <2>3, <2>5
<1>1. ASSUME TrackedFewer PROVE Goal
  <2> USE <1>1
  <2>1. ASSUME UNCHANGED <<jobs, budget>> PROVE Goal
    BY <2>1, RunOn
  <2>2. ASSUME NEW j \in Job, Enqueue(j) \/ FallDue(j) \/ GrowOld(j) PROVE Goal
    <3>1. UNCHANGED budget /\ \A k \in Job : jobs'[k].state = "running" =>
             /\ jobs[k].state = "running" /\ jobs'[k].attempt = jobs[k].attempt
             /\ jobs'[k].lease = jobs[k].lease
      <4>1. CASE Enqueue(j)
        BY <4>1 DEF Enqueue, Types, NoRow
      <4>2. CASE FallDue(j)
        BY <4>2 DEF FallDue, Types, Row
      <4>3. CASE GrowOld(j)
        BY <4>3 DEF GrowOld, Types, Row
      <4> QED
        BY <2>2, <4>1, <4>2, <4>3
    <3> QED
      BY <3>1, RunOn
  <2>3. ASSUME NEW L \in Lanes, DiscardLane(L) PROVE Goal
    <3>1. UNCHANGED budget /\ \A k \in Job : jobs'[k] = jobs[k] \/ jobs'[k].state = "discarded"
      BY <2>3 DEF DiscardLane, Types, Row
    <3> QED
      BY <3>1, RunOn
  <2>4. ASSUME NEW j \in Job, Lapse(j) PROVE Goal
    <3>1. /\ ~Tended(j) /\ UNCHANGED budget /\ \A k \in Job \ {j} : jobs'[k] = jobs[k]
          /\ jobs'[j].attempt = jobs[j].attempt /\ jobs'[j].lease = "lapsed"
      BY <2>4 DEF Lapse, Types, Row
    <3>2. ~Counts(j)'
      BY <3>1, TendedStays DEF Counts, LiveLease, Renewable
    <3>3. ASSUME NEW k \in Job \ {j} PROVE Tended(k)' => Tended(k)
      BY <3>1, TendedStays
    <3>4. Calm
      BY <3>1, <3>2, <3>3 DEF Calm, Counts, LiveLease, Renewable
    <3> QED
      BY <3>1, <3>4
  <2>5. ASSUME NEW j \in Job, LapseUnderWorker(j) PROVE Goal
    <3>1. /\ LiveLease(j) /\ budget["lapses"] > 0 /\ budget'["lapses"] = budget["lapses"] - 1
          /\ \A k \in Job \ {j} : jobs'[k] = jobs[k]
      BY <2>5 DEF LapseUnderWorker, Spend, Types, Bounds
    <3>2. ASSUME NEW k \in Job \ {j} PROVE Tended(k)' => Tended(k)
      BY <3>1, TendedStays
    <3> QED
      BY <3>1, <3>2 DEF Counts, LiveLease, Renewable
  <2>6. ASSUME NEW d \in Dispatchers, NEW j \in Job, Renew(d, j) PROVE Goal
    <3>1. /\ Renewable(j) /\ UNCHANGED budget /\ \A k \in Job \ {j} : jobs'[k] = jobs[k]
          /\ jobs'[j].lease = "live"
      BY <2>6 DEF Renew, Performing, Renewable, Tended, Tracked, Types, Row
    <3>2. ASSUME NEW k \in Job \ {j} PROVE Tended(k)' => Tended(k)
      BY <3>1, TendedStays
    <3>3. Calm
      BY <3>1, <3>2 DEF Calm, Counts, LiveLease, Renewable
    <3> QED
      BY <3>1, <3>3
  <2>7. ASSUME NEW d \in Dispatchers, NEW j \in Job, Claim(d, j) \/ LoseOutcome(d, j) PROVE Goal
    <3>1. UNCHANGED jobs /\ budget'["lapses"] = budget["lapses"]
      BY <2>7 DEF Claim, LoseOutcome, Spend, Types, Bounds
    <3> QED
      BY <3>1, RunOn
  <2>8. ASSUME NEW d \in Dispatchers, NEW j \in Job, WriteOutcome(d, j) PROVE Goal
    <3>1. Outcome(d, j)
      BY <2>8, OutcomeStep
    <3>2. \A k \in Job : jobs'[k] = jobs[k] \/ jobs'[k].state # "running"
      BY <3>1 DEF Outcome, Record, Types
    <3>3. budget'["lapses"] = budget["lapses"]
      BY <2>8 DEF WriteOutcome, Succeed, HandBack, GiveUp, Retry, Spend, Types, Bounds
    <3> QED
      BY <3>2, <3>3, RunOn
  <2>9. ASSUME NEW d \in Dispatchers, Start(d) \/ Stop(d) \/ Drain(d) \/ FailRelease(d) \/ Leave(d) \/ Crash(d)
        PROVE  Goal
    <3>1. UNCHANGED jobs /\ budget'["lapses"] = budget["lapses"]
      BY <2>9 DEF Start, Stop, Drain, FailRelease, Leave, Crash, Spend, Types, Bounds
    <3> QED
      BY <3>1, RunOn
  <2>10. ASSUME NEW d \in Dispatchers, Release(d) PROVE Goal
    <3>1. \A k \in Job : jobs'[k] = jobs[k] \/ jobs'[k].state = "queued"
      BY <2>10 DEF Release, Released, Types, Row
    <3>2. UNCHANGED budget
      BY <2>10 DEF Release
    <3> QED
      BY <3>1, <3>2, RunOn
  <2> HIDE DEF Goal
  <2>11. ASSUME UNCHANGED vars PROVE Goal
    BY <2>1, <2>11 DEF vars
  <2>12. ASSUME Table PROVE Goal
    BY <2>2, <2>3, <2>4, <2>5, <2>12 DEF Table
  <2>13. ASSUME NEW d \in Dispatchers, Dispatcher(d) PROVE Goal
    BY <1>0, <2>6, <2>7, <2>8, <2>9, <2>10, <2>13 DEF Dispatcher, WriteOutcome
  <2> QED
    BY <2>11, <2>12, <2>13 DEF Next
<1> QED
  BY <1>0, <1>1, HandsKept

LEMMA DownStep ==
    ASSUME Types, DownIsEmpty, [Next]_vars PROVE DownIsEmpty'
<1>1. ASSUME NEW d \in Dispatchers, NEW j \in Job, Lease(d, j) PROVE DownIsEmpty'
  <2>1. process[d] = "up" /\ process' = process
    BY <1>1 DEF Lease, Leasable
  <2>2. \A e \in Dispatchers, k \in Job : e # d => work'[e][k] = work[e][k]
    BY <1>1 DEF Lease, Types
  <2> QED
    BY <2>1, <2>2 DEF DownIsEmpty, Tracked
<1>2. CASE TrackedFewer
  <2>1. ASSUME NEW d \in Dispatchers, Leave(d) \/ Crash(d) PROVE DownIsEmpty'
    <3>1. \A j \in Job : work'[d][j].step = "none"
      BY <2>1 DEF Leave, Crash, Types, NoWork
    <3>2. \A e \in Dispatchers : e # d => process'[e] = process[e]
      BY <2>1 DEF Leave, Crash, Types
    <3> QED
      BY <1>2, <3>1, <3>2 DEF DownIsEmpty, TrackedFewer, Tracked
  <2>2. ASSUME \A d \in Dispatchers : process'[d] = "down" => process[d] = "down"
        PROVE  DownIsEmpty'
    BY <1>2, <2>2 DEF DownIsEmpty, TrackedFewer
  <2>3. ASSUME NEW d \in Dispatchers, Start(d) \/ Stop(d) \/ Drain(d) \/ Release(d) \/ FailRelease(d)
        PROVE  \A e \in Dispatchers : process'[e] = "down" => process[e] = "down"
    BY <2>3 DEF Start, Stop, Drain, Release, FailRelease, Types
  <2>4. ASSUME NEW d \in Dispatchers, NEW j \in Job,
               LoseLease(d, j) \/ Renew(d, j) \/ Claim(d, j) \/ WriteOutcome(d, j) \/ LoseOutcome(d, j)
        PROVE  process' = process
    BY <2>4 DEF LoseLease, Renew, Claim, WriteOutcome, Succeed, HandBack, GiveUp, Retry, Record, LoseOutcome
  <2>5. Table \/ UNCHANGED vars => process' = process
    BY DEF Table, Enqueue, FallDue, GrowOld, Lapse, LapseUnderWorker, DiscardLane, vars
  <2> QED
    BY <1>1, <2>1, <2>2, <2>3, <2>4, <2>5 DEF Next, Dispatcher, WriteOutcome
<1> QED
  BY <1>1, <1>2, HandsKept

LEMMA CapStep ==
    ASSUME Types, CapInv, [Next]_vars PROVE CapInv'
<1>1. DownIsEmpty'
  BY DownStep DEF CapInv
<1>2. budget["lapses"] \in Nat /\ MaxLapses \in Nat /\ MaxInFlight \in Nat /\ Lapses \in Nat
  BY JobsAssumption DEF Types, Bounds, CapInv, Lapses
<1> DEFINE Back(K) == {j \in K : Renewable(j)}
           Out(K) == {j \in K : Counts(j)}
<1>3. \A K \in Capped : K \subseteq Job /\ Back(K) \in SUBSET K /\ Out(K) \in SUBSET K
  BY JobsAssumption
<1>4. \A K \in Capped : Back(K)' \in SUBSET K /\ Out(K)' \in SUBSET K
  OBVIOUS
<1>5. \A K \in Capped : Cardinality(Back(K)) <= Lapses /\ Cardinality(Out(K)) <= MaxInFlight + Lapses
  BY DEF CapInv
<1>6. \A K \in Capped :
         /\ Cardinality(Back(K)) \in Nat /\ Cardinality(Out(K)) \in Nat
         /\ Cardinality(Back(K)') \in Nat /\ Cardinality(Out(K)') \in Nat
  BY <1>3, <1>4, CappedFinite
<1>7. ASSUME Lapses' \in Nat,
             \A K \in Capped : /\ Cardinality(Back(K)') <= Lapses'
                               /\ Cardinality(Out(K)') <= MaxInFlight + Lapses'
      PROVE  CapInv'
  <2>1. Lapses' >= 0
    BY <1>7
  <2>2. \A K \in Capped :
           /\ Cardinality({j \in K : Renewable(j)}') <= Lapses'
           /\ Cardinality({j \in K : Counts(j)}') <= (MaxInFlight + Lapses)'
    BY <1>7
  <2> QED
    BY <1>1, <2>1, <2>2 DEF CapInv
<1>8. CASE Calm /\ budget'["lapses"] = budget["lapses"]
  <2>1. Lapses' = Lapses
    BY <1>8 DEF Lapses
  <2>2. ASSUME NEW K \in Capped
        PROVE  Cardinality(Back(K)') <= Lapses /\ Cardinality(Out(K)') <= MaxInFlight + Lapses
    <3>1. Back(K)' \in SUBSET Back(K) /\ Out(K)' \in SUBSET Out(K)
      BY <1>3, <1>8 DEF Calm
    <3>2. Cardinality(Back(K)') <= Cardinality(Back(K)) /\ Cardinality(Out(K)') <= Cardinality(Out(K))
      BY <1>3, <3>1, CappedFinite
    <3> QED
      BY <1>2, <1>5, <1>6, <3>2
  <2> HIDE DEF Back, Out
  <2> QED
    BY <1>2, <1>7, <2>1, <2>2
<1>9. ASSUME NEW j \in Job,
             LiveLease(j), budget["lapses"] > 0, budget'["lapses"] = budget["lapses"] - 1,
             \A k \in Job : (Counts(k)' => Counts(k)) /\ (k # j => (Renewable(k)' => Renewable(k)))
      PROVE  CapInv'
  <2>1. Lapses' = Lapses + 1
    BY <1>2, <1>9 DEF Lapses
  <2>2. ASSUME NEW K \in Capped
        PROVE  Cardinality(Back(K)') <= Lapses + 1 /\ Cardinality(Out(K)') <= MaxInFlight + Lapses + 1
    <3>1. Back(K)' \in SUBSET (Back(K) \cup {j}) /\ Out(K)' \in SUBSET Out(K)
      BY <1>3, <1>9
    <3>2. Cardinality(Out(K)') <= Cardinality(Out(K))
      BY <1>3, <3>1, CappedFinite
    <3>3. IsFiniteSet(Back(K))
      BY <1>3, CappedFinite
    <3> HIDE DEF Back, Out
    <3>4. /\ IsFiniteSet(Back(K) \cup {j})
          /\ Cardinality(Back(K) \cup {j}) <= Cardinality(Back(K)) + 1
          /\ Cardinality(Back(K) \cup {j}) \in Nat
      <4>1. /\ IsFiniteSet(Back(K) \cup {j})
            /\ Cardinality(Back(K) \cup {j}) = Cardinality(Back(K))
                 \/ Cardinality(Back(K) \cup {j}) = Cardinality(Back(K)) + 1
        BY <3>3, FS_AddElement
      <4> QED
        BY <1>6, <4>1
    <3>5. Cardinality(Back(K)') <= Cardinality(Back(K) \cup {j})
      BY <3>1, <3>4, FS_Subset
    <3> QED
      BY <1>2, <1>5, <1>6, <3>2, <3>4, <3>5
  <2> HIDE DEF Back, Out
  <2> QED
    BY <1>2, <1>7, <2>1, <2>2
<1>10. ASSUME NEW j \in Job,
              Room(j), ~Renewable(j)', budget'["lapses"] = budget["lapses"],
              \A k \in Job \ {j} : (Counts(k)' => Counts(k)) /\ (Renewable(k)' => Renewable(k))
       PROVE  CapInv'
  <2>1. Lapses' = Lapses
    BY <1>10 DEF Lapses
  <2>2. ASSUME NEW K \in Capped
        PROVE  Cardinality(Back(K)') <= Lapses /\ Cardinality(Out(K)') <= MaxInFlight + Lapses
    <3>1. Back(K)' \in SUBSET Back(K)
      BY <1>3, <1>10
    <3>2. Cardinality(Back(K)') <= Cardinality(Back(K))
      BY <1>3, <3>1, CappedFinite
    <3>3. CASE j \notin K
      <4>1. Out(K)' \in SUBSET Out(K)
        BY <1>3, <1>10, <3>3
      <4>2. Cardinality(Out(K)') <= Cardinality(Out(K))
        BY <1>3, <4>1, CappedFinite
      <4> QED
        BY <1>2, <1>5, <1>6, <3>2, <4>2
    <3>4. CASE j \in K
      <4> DEFINE Held == {i \in K : LiveLease(i)}
      <4>1. Cardinality(Held) < MaxInFlight
        BY <1>10, <3>4 DEF Room
      <4>2. Out(K)' \in SUBSET ((Held \cup Back(K)) \cup {j})
        BY <1>3, <1>10 DEF Counts
      <4>3. IsFiniteSet(Held) /\ IsFiniteSet(Back(K)) /\ Cardinality(Held) \in Nat
        BY <1>3, CappedFinite
      <4> HIDE DEF Held, Back, Out
      <4>4. /\ IsFiniteSet(Held \cup Back(K))
            /\ Cardinality(Held \cup Back(K)) <= Cardinality(Held) + Cardinality(Back(K))
            /\ Cardinality(Held \cup Back(K)) \in Nat
        <5>1. IsFiniteSet(Held \cup Back(K)) /\ IsFiniteSet(Held \cap Back(K))
          BY <4>3, FS_Union, FS_Intersection
        <5>2. Cardinality(Held \cup Back(K)) =
                 Cardinality(Held) + Cardinality(Back(K)) - Cardinality(Held \cap Back(K))
          BY <4>3, FS_Union
        <5>3. Cardinality(Held \cap Back(K)) \in Nat /\ Cardinality(Held \cup Back(K)) \in Nat
          BY <5>1, FS_CardinalityType
        <5> QED
          BY <1>6, <4>3, <5>1, <5>2, <5>3
      <4>5. /\ IsFiniteSet((Held \cup Back(K)) \cup {j})
            /\ Cardinality((Held \cup Back(K)) \cup {j}) <= Cardinality(Held \cup Back(K)) + 1
            /\ Cardinality((Held \cup Back(K)) \cup {j}) \in Nat
        <5>1. /\ IsFiniteSet((Held \cup Back(K)) \cup {j})
              /\ Cardinality((Held \cup Back(K)) \cup {j}) = Cardinality(Held \cup Back(K))
                   \/ Cardinality((Held \cup Back(K)) \cup {j}) = Cardinality(Held \cup Back(K)) + 1
          BY <4>4, FS_AddElement
        <5> QED
          BY <4>4, <5>1
      <4>6. Cardinality(Out(K)') <= Cardinality((Held \cup Back(K)) \cup {j})
        BY <4>2, <4>5, FS_Subset
      <4>7. Cardinality(Back(K)') <= Lapses
        BY <1>2, <1>5, <1>6, <3>2
      <4>8. Cardinality(Out(K)') <= MaxInFlight + Lapses
        BY <1>2, <1>5, <1>6, <4>1, <4>3, <4>4, <4>5, <4>6
      <4> QED
        BY <4>7, <4>8
    <3> QED
      BY <3>3, <3>4
  <2> HIDE DEF Back, Out
  <2> QED
    BY <1>2, <1>7, <2>1, <2>2
<1> QED
  BY <1>8, <1>9, <1>10, CapSteps DEF CapInv

LEMMA InitCap == Init => CapInv
<1> SUFFICES ASSUME Init PROVE CapInv
  OBVIOUS
<1>1. DownIsEmpty /\ Lapses = 0
  <2>1. \A d \in Dispatchers : process[d] = "up"
    BY DEF Init
  <2>2. budget["lapses"] = MaxLapses
    BY DEF Init
  <2> QED
    BY <2>1, <2>2, JobsAssumption DEF DownIsEmpty, Lapses
<1>2. \A j \in Job : ~Counts(j) /\ ~Renewable(j)
  BY DEF Init, NoRow, Counts, LiveLease, Renewable
<1>3. \A K \in Capped : {j \in K : Renewable(j)} = {} /\ {j \in K : Counts(j)} = {}
  BY <1>2, JobsAssumption
<1>4. Cardinality({}) = 0 /\ MaxInFlight \in Nat
  BY FS_EmptySet, JobsAssumption
<1>5. ASSUME NEW K \in Capped
      PROVE  /\ Cardinality({j \in K : Renewable(j)}) = 0
             /\ Cardinality({j \in K : Counts(j)}) = 0
  BY <1>3, <1>4
<1>6. Lapses = 0 /\ Lapses >= 0 /\ 0 <= Lapses /\ 0 <= MaxInFlight + Lapses
  BY <1>1, <1>4
<1> QED
  BY <1>1, <1>5, <1>6 DEF CapInv

\* For any jobs, dispatchers and bounds: a capped kind is over its cap by no
\* more than the leases that lapsed under a live worker (caps.go counts live
\* leases, ExtendJobLease does not).
THEOREM CapOverrunBounded == Spec => []CapOverrun
<1>1. ASSUME Types, CapInv PROVE CapOverrun
  <2> SUFFICES ASSUME NEW K \in Capped
               PROVE  Cardinality({j \in K : LiveLease(j)}) <= MaxInFlight + Lapses
    BY DEF CapOverrun, Lapses
  <2>1. {j \in K : LiveLease(j)} \in SUBSET {j \in K : Counts(j)} /\ {j \in K : Counts(j)} \in SUBSET K
    BY DEF Counts
  <2>2. Cardinality({j \in K : LiveLease(j)}) <= Cardinality({j \in K : Counts(j)})
    BY <2>1, CappedFinite
  <2>3. Cardinality({j \in K : Counts(j)}) <= MaxInFlight + Lapses
    BY <1>1 DEF CapInv
  <2>4. Cardinality({j \in K : LiveLease(j)}) \in Nat /\ Cardinality({j \in K : Counts(j)}) \in Nat
    <3>1. {j \in K : LiveLease(j)} \in SUBSET K
      OBVIOUS
    <3> QED
      BY <2>1, <3>1, CappedFinite
  <2>5. MaxInFlight + Lapses \in Int
    BY <1>1, JobsAssumption DEF Types, Bounds, Lapses
  <2> QED
    BY <2>2, <2>3, <2>4, <2>5
<1>2. Inv /\ CapInv /\ [Next]_vars => CapInv'
  BY CapStep DEF Inv
<1>3. Inv => Types
  BY DEF Inv
<1> QED
  BY <1>1, <1>2, <1>3, InitCap, Invariant, PTL DEF Spec

-----------------------------------------------------------------------------
(***************************************************************************)
(* Jobs implements LaneQueue, for every value of its constants.            *)
(***************************************************************************)

\* Whoever holds a job holds a lease it was given.
HoldersBegan ==
    \A d \in Dispatchers, j \in Job : Holds(d, j) => leases[j] > 0

RInv == Inv /\ HoldersBegan

LEMMA InitRInv == Init => RInv
BY InitInv DEF RInv, Init, HoldersBegan, Holds, NoWork

LEMMA NextRInv == RInv /\ [Next]_vars => RInv'
<1> SUFFICES ASSUME RInv, [Next]_vars PROVE HoldersBegan'
  BY NextInv DEF RInv
<1> USE DEF RInv
<1>1. \A j \in Job : leases[j] \in Nat
  BY DEF Inv, Types
<1>2. CASE Quiet
  BY <1>2 DEF Quiet, HandsFewer, HoldersBegan
<1>3. ASSUME NEW d \in Dispatchers, NEW j \in Job, Lease(d, j) \/ LoseLease(d, j)
      PROVE  HoldersBegan'
  <2>1. /\ leases'[j] = leases[j] + 1
        /\ \A k \in Job \ {j} : leases'[k] = leases[k]
    BY <1>3 DEF Lease, LoseLease, Inv, Types
  <2>2. \A e \in Dispatchers, k \in Job : k # j => work'[e][k] = work[e][k]
    BY <1>3 DEF Lease, LoseLease, Inv, Types
  <2> QED
    BY <1>1, <2>1, <2>2 DEF HoldersBegan, Holds
<1>4. ASSUME NEW d \in Dispatchers, NEW j \in Job, Outcome(d, j) PROVE HoldersBegan'
  <2>1. \A e \in Dispatchers, k \in Job : work'[e][k] = work[e][k] \/ work'[e][k] = NoWork
    BY <1>4 DEF Outcome, Record, Inv, Types
  <2> QED
    BY <1>4, <2>1 DEF Outcome, Record, HoldersBegan, Holds, NoWork
<1>5. ASSUME NEW d \in Dispatchers, Release(d) PROVE HoldersBegan'
  <2>1. \A e \in Dispatchers, k \in Job : work'[e][k] = work[e][k] \/ work'[e][k] = NoWork
    BY <1>5 DEF Release, Dropped, Inv, Types
  <2> QED
    BY <1>5, <2>1 DEF Release, HoldersBegan, Holds, NoWork
<1> QED
  BY <1>2, <1>3, <1>4, <1>5, Steps DEF Inv

-----------------------------------------------------------------------------
(* The mapping                                                             *)

Waits(j) == IF Unfinished(j) THEN "waiting" ELSE jobs[j].state

\* Rows that wait, end or were leased as before are the same queue.
LEMMA SameQueue ==
    ASSUME \A j \in Job : Waits(j)' = Waits(j), leases' = leases, discarded' = discarded
    PROVE  UNCHANGED Queue!vars
<1>1. [j \in Job |-> Waits(j)]' = [j \in Job |-> Waits(j)]
  OBVIOUS
<1> QED
  BY <1>1 DEF Queue!vars, Waits

LEMMA InitQueue == Init => Queue!Init
<1> SUFFICES ASSUME Init PROVE Queue!Init
  OBVIOUS
<1>1. \A j \in Job : Waits(j) = "none" /\ ~(leases[j] > 0)
  BY DEF Init, Waits, Unfinished, NoRow
<1>2. [j \in Job |-> Waits(j)] = [j \in Job |-> "none"]
  BY <1>1
<1>3. [j \in Job |-> leases[j] > 0] = [j \in Job |-> FALSE]
  <2>1. \A j \in Job : (leases[j] > 0) = FALSE
    BY <1>1
  <2> QED
    BY <2>1, Zenon
<1> QED
  BY <1>2, <1>3 DEF Init, Queue!Init, Queue!Job, Job, Waits

\* One job's place changes.
LEMMA OneMoves ==
    ASSUME NEW j \in Job, NEW s, Waits(j)' = s, \A k \in Job \ {j} : Waits(k)' = Waits(k)
    PROVE  [k \in Job |-> Waits(k)]' = [[k \in Job |-> Waits(k)] EXCEPT ![j] = s]
OBVIOUS

LEMMA EnqueueQueue ==
    ASSUME RInv, NEW j \in Job, Enqueue(j) PROVE Queue!Put(j)
<1>1. jobs'[j].state = "queued" /\ \A k \in Job \ {j} : jobs'[k] = jobs[k]
  BY DEF RInv, Inv, Types, Enqueue, NoRow
<1>2. Waits(j)' = "waiting" /\ \A k \in Job \ {j} : Waits(k)' = Waits(k)
  BY <1>1 DEF Waits, Unfinished
<1>3. Waits(j) = "none"
  BY DEF Enqueue, Waits, Unfinished
<1>4. \A L \in Lanes \ LateLanes : j \in L => \A i \in L : i < j => Waits(i) # "none"
  <2> SUFFICES ASSUME NEW L \in Lanes \ LateLanes, j \in L, NEW i \in L, i < j
               PROVE  jobs[i].state # "none"
    BY DEF Waits, Unfinished
  <2>1. L \subseteq Job /\ i \in 1 .. j - 1
    BY JobsAssumption DEF Job
  <2>2. ASSUME NEW M \in LateLanes, {i, j} \subseteq M PROVE FALSE
    BY <2>2, JobsAssumption
  <2> QED
    BY <2>1, <2>2 DEF Enqueue
<1>5. ([k \in Job |-> Waits(k)])' = [[k \in Job |-> Waits(k)] EXCEPT ![j] = "waiting"]
  BY <1>2, OneMoves
<1>6. [k \in Job |-> Waits(k)][j] = "none"
  BY <1>3
<1>7. \A L \in Lanes \ LateLanes : j \in L =>
          \A i \in L : i < j => [k \in Job |-> Waits(k)][i] # "none"
  BY <1>4, JobsAssumption
<1>8. UNCHANGED <<leases, discarded>>
  BY DEF Enqueue
<1>9. UNCHANGED <<[k \in Job |-> leases[k] > 0], discarded>>
  BY <1>8
<1> QED
  BY <1>5, <1>6, <1>7, <1>9 DEF Queue!Put, Waits

\* Rows that keep their state, with the leases and the lanes discarded.
LEMMA Keeps ==
    ASSUME \A k \in Job : jobs'[k].state = jobs[k].state, leases' = leases,
           discarded' = discarded
    PROVE  UNCHANGED Queue!vars
<1>1. \A k \in Job : Waits(k)' = Waits(k)
  BY DEF Waits, Unfinished
<1> QED
  BY <1>1, SameQueue

LEMMA TimeQueue ==
    ASSUME RInv, NEW j \in Job, FallDue(j) \/ GrowOld(j) \/ Lapse(j) \/ LapseUnderWorker(j)
    PROVE  UNCHANGED Queue!vars
<1>1. \A k \in Job : jobs'[k].state = jobs[k].state
  <2>1. jobs \in [Job -> Row]
    BY DEF RInv, Inv, Types
  <2>2. FallDue(j) => \A k \in Job : jobs'[k].state = jobs[k].state
    BY <2>1 DEF Row, FallDue
  <2>3. GrowOld(j) => \A k \in Job : jobs'[k].state = jobs[k].state
    BY <2>1 DEF Row, GrowOld
  <2>4. Lapse(j) \/ LapseUnderWorker(j) => \A k \in Job : jobs'[k].state = jobs[k].state
    BY <2>1 DEF Row, Lapse, LapseUnderWorker
  <2> QED
    BY <2>2, <2>3, <2>4
<1>2. leases' = leases /\ discarded' = discarded
  BY DEF FallDue, GrowOld, Lapse, LapseUnderWorker
<1> QED
  BY <1>1, <1>2, Keeps

LEMMA DiscardQueue ==
    ASSUME RInv, NEW L \in Lanes, DiscardLane(L) PROVE Queue!Discard(L)
<1> DEFINE S == {j \in L : jobs[j].state = "queued"}
<1>1. L \subseteq Job
  BY JobsAssumption
<1>2. \A j \in Job : Waits(j)' = IF j \in S THEN "discarded" ELSE Waits(j)
  <2> SUFFICES ASSUME NEW j \in Job
               PROVE  Waits(j)' = IF j \in S THEN "discarded" ELSE Waits(j)
    OBVIOUS
  <2>1. CASE j \in S
    <3>1. jobs'[j].state = "discarded"
      BY <2>1, <1>1 DEF DiscardLane, RInv, Inv, Types, Row
    <3> QED
      BY <3>1, <2>1 DEF Waits, Unfinished
  <2>2. CASE j \notin S
    <3>1. jobs'[j] = jobs[j]
      BY <2>2 DEF DiscardLane, RInv, Inv, Types
    <3> QED
      BY <3>1, <2>2 DEF Waits, Unfinished
  <2> QED
    BY <2>1, <2>2
<1>3. ([j \in Job |-> Waits(j)])' =
          [j \in Job |-> IF j \in S THEN "discarded" ELSE [k \in Job |-> Waits(k)][j]]
  BY <1>2
<1>4. S \in SUBSET {j \in L : [k \in Job |-> Waits(k)][j] = "waiting"}
  BY <1>1 DEF Waits, Unfinished
<1>5. discarded' = discarded \cup {L} /\ UNCHANGED [j \in Job |-> leases[j] > 0]
  BY DEF DiscardLane
<1> HIDE DEF S
<1> QED
  BY <1>3, <1>4, <1>5 DEF Queue!Discard, Queue!Job, Job, Waits

LEMMA LeaseQueue ==
    ASSUME RInv, NEW d \in Dispatchers, NEW j \in Job, Lease(d, j) \/ LoseLease(d, j)
    PROVE  Queue!Begin(j)
<1>1. /\ Unfinished(j) /\ Head(j)
      /\ jobs' = [jobs EXCEPT ![j] = Leased(j)]
      /\ leases' = [leases EXCEPT ![j] = @ + 1]
      /\ discarded' = discarded
  BY DEF Lease, LoseLease, Leasable, Due
<1>2. Leased(j).state = "running"
  BY DEF Leased, RInv, Inv, Types, Row
<1>3. jobs'[j].state = "running" /\ \A k \in Job \ {j} : jobs'[k] = jobs[k]
  BY <1>1, <1>2 DEF RInv, Inv, Types
<1>4. \A k \in Job : Waits(k)' = Waits(k)
  BY <1>1, <1>3 DEF Waits, Unfinished
<1>5. UNCHANGED [k \in Job |-> Waits(k)]
  BY <1>4
<1>6. (leases'[j] > 0) = TRUE /\ \A k \in Job \ {j} : leases'[k] = leases[k]
  BY <1>1 DEF RInv, Inv, Types
<1>7. ([k \in Job |-> leases[k] > 0])' = [[k \in Job |-> leases[k] > 0] EXCEPT ![j] = TRUE]
  BY <1>6
<1>8. [k \in Job |-> Waits(k)][j] = "waiting"
  BY <1>1 DEF Waits
<1>9. \A i \in Before(j) : [k \in Job |-> Waits(k)][i] # "waiting"
  <2>1. \A i \in Before(j) : i \in Job /\ ~Unfinished(i)
    BY <1>1 DEF Head, Before
  <2>2. \A i \in Job : ~Unfinished(i) => Waits(i) # "waiting"
    BY DEF Waits, Unfinished, RInv, Inv, Types, Row
  <2> QED
    BY <2>1, <2>2
<1> QED
  BY <1>1, <1>5, <1>7, <1>8, <1>9 DEF Queue!Begin, Queue!Before, Before, Queue!Job, Job, Waits

LEMMA OutcomeQueue ==
    ASSUME RInv, NEW d \in Dispatchers, NEW j \in Job, Outcome(d, j)
    PROVE  Queue!End(j) \/ Queue!EndOtherwise(j) \/ UNCHANGED Queue!vars
<1> USE DEF RInv
<1>0. /\ leases' = leases /\ discarded' = discarded /\ Holds(d, j)
      /\ UNCHANGED [k \in Job |-> leases[k] > 0]
  BY DEF Outcome, Record, Holds
<1>1. CASE ~Matches(d, j)
  <2>1. \A k \in Job : jobs'[k].state = jobs[k].state
    BY <1>1 DEF Outcome, Record, Inv, Types
  <2> QED
    BY <1>0, <2>1, Keeps
<1>2. CASE Matches(d, j)
  <2> PICK row \in Row :
        /\ row.state \in {"queued", "succeeded", "discarded"}
        /\ jobs' = [jobs EXCEPT ![j] = row]
    BY <1>2 DEF Outcome, Record
  <2> DEFINE s == IF row.state = "queued" THEN "waiting" ELSE row.state
  <2>1. jobs'[j] = row /\ \A k \in Job \ {j} : jobs'[k] = jobs[k]
    BY DEF Inv, Types
  <2>2. Waits(j)' = s /\ \A k \in Job \ {j} : Waits(k)' = Waits(k)
    BY <2>1 DEF Waits, Unfinished
  <2>3. s \in {"waiting", "succeeded", "discarded"}
    OBVIOUS
  <2> HIDE DEF s
  <2>4. ([k \in Job |-> Waits(k)])' = [[k \in Job |-> Waits(k)] EXCEPT ![j] = s]
    BY <2>2, OneMoves
  <2>5. [k \in Job |-> leases[k] > 0][j]
    BY <1>0 DEF HoldersBegan
  <2>6. CASE Unfinished(j) /\ s = "waiting"
    <3>1. \A k \in Job : Waits(k)' = Waits(k)
      BY <2>2, <2>6 DEF Waits
    <3> QED
      BY <1>0, <3>1, SameQueue
  <2>7. CASE Unfinished(j) /\ s # "waiting"
    <3>1. [k \in Job |-> Waits(k)][j] = "waiting"
      BY <2>7 DEF Waits
    <3> QED
      BY <3>1, <1>0, <2>3, <2>4, <2>5, <2>7 DEF Queue!End, Waits
  <2>8. CASE ~Unfinished(j)
    <3>1. jobs[j].state \in {"succeeded", "discarded"}
      BY <2>8, <1>0 DEF Inv, Types, Row, HeldAttempts, Unfinished
    <3>2. \E L \in discarded : j \in L
      BY <3>1, <1>0, <1>2 DEF Inv, EndedIsLeft, Finished
    <3>3. [k \in Job |-> Waits(k)][j] \in {"succeeded", "discarded"}
      BY <3>1, <2>8 DEF Waits
    <3> QED
      BY <3>2, <3>3, <1>0, <2>3, <2>4, <2>5 DEF Queue!EndOtherwise, Waits
  <2> QED
    BY <2>6, <2>7, <2>8
<1> QED
  BY <1>1, <1>2

LEMMA ReleaseQueue ==
    ASSUME RInv, NEW d \in Dispatchers, Release(d) PROVE UNCHANGED Queue!vars
<1>1. \A k \in Job :
         \/ jobs'[k].state = jobs[k].state
         \/ jobs[k].state = "running" /\ jobs'[k].state = "queued"
  <2>1. jobs' = Released(d) /\ jobs \in [Job -> Row]
    BY DEF Release, RInv, Inv, Types
  <2>2. \A k \in Job :
           \/ jobs'[k] = jobs[k]
           \/ /\ jobs[k].state = "running"
              /\ jobs'[k] = [jobs[k] EXCEPT !.state = "queued", !.lease = "none",
                                            !.attempt = @ - 1]
    BY <2>1 DEF Released
  <2> QED
    BY <2>1, <2>2 DEF Row
<1>2. \A k \in Job : Waits(k)' = Waits(k)
  BY <1>1 DEF Waits, Unfinished
<1>3. leases' = leases /\ discarded' = discarded
  BY DEF Release
<1> QED
  BY <1>2, <1>3, SameQueue

LEMMA HandsQueue ==
    ASSUME RInv, NEW d \in Dispatchers, NEW j \in Job,
           Renew(d, j) \/ Claim(d, j) \/ LoseOutcome(d, j)
    PROVE  UNCHANGED Queue!vars
<1>1. \A k \in Job : jobs'[k].state = jobs[k].state
  BY DEF RInv, Inv, Types, Row, Renew, Claim, LoseOutcome
<1>2. leases' = leases /\ discarded' = discarded
  BY DEF Renew, Claim, LoseOutcome
<1> QED
  BY <1>1, <1>2, Keeps

LEMMA LifeQueue ==
    ASSUME NEW d \in Dispatchers,
           Start(d) \/ Stop(d) \/ Drain(d) \/ FailRelease(d) \/ Leave(d) \/ Crash(d)
    PROVE  UNCHANGED Queue!vars
<1>1. jobs' = jobs /\ leases' = leases /\ discarded' = discarded
  BY DEF Start, Stop, Drain, FailRelease, Leave, Crash
<1> QED
  BY <1>1, Keeps

-----------------------------------------------------------------------------
(* Every step of the queue is a step it promised, or none                  *)

LEMMA NextQueue == RInv /\ [Next]_vars => [Queue!Next]_(Queue!vars)
<1> SUFFICES ASSUME RInv, [Next]_vars PROVE [Queue!Next]_(Queue!vars)
  OBVIOUS
<1>1. CASE Table
  <2>1. ASSUME NEW j \in Job, Enqueue(j) PROVE Queue!Next
    BY <2>1, EnqueueQueue DEF Queue!Next, Queue!Job, Job
  <2>2. ASSUME NEW L \in Lanes, DiscardLane(L) PROVE Queue!Next
    BY <2>2, DiscardQueue DEF Queue!Next
  <2> QED
    BY <1>1, <2>1, <2>2, TimeQueue DEF Table
<1>2. ASSUME NEW d \in Dispatchers, Dispatcher(d) PROVE [Queue!Next]_(Queue!vars)
  <2>1. ASSUME NEW j \in Job, Lease(d, j) \/ LoseLease(d, j) PROVE Queue!Next
    BY <2>1, LeaseQueue DEF Queue!Next, Queue!Job, Job
  <2>2. ASSUME NEW j \in Job, WriteOutcome(d, j) PROVE [Queue!Next]_(Queue!vars)
    BY <2>2, OutcomeStep, OutcomeQueue DEF Queue!Next, Queue!Job, Job, RInv, Inv
  <2> QED
    BY <1>2, <2>1, <2>2, HandsQueue, LifeQueue, ReleaseQueue DEF Dispatcher, WriteOutcome
<1>3. CASE UNCHANGED vars
  BY <1>3, Keeps DEF vars
<1> QED
  BY <1>1, <1>2, <1>3 DEF Next

LEMMA AlwaysRInv == Spec => []RInv
BY InitRInv, NextRInv, PTL DEF Spec

\* The queue of internal/jobs does what its callers are promised, through
\* every lapse, stop, crash and failed write.
THEOREM ImplementsLaneQueue == Spec => QueueSpec
BY InitQueue, NextQueue, AlwaysRInv, PTL DEF Spec, QueueSpec, Queue!Spec
=============================================================================
