-------------------------------- MODULE Jobs --------------------------------
(***************************************************************************)
(* The job queue (internal/jobs): rows in Postgres that any number of      *)
(* dispatchers lease, perform and write an outcome for.  A dispatcher may  *)
(* stop, giving back what it still runs, or crash with work in hand; a     *)
(* lease may lapse under a live worker; a lane runs in order; a capped     *)
(* kind holds a bounded number of live leases.                             *)
(*                                                                         *)
(* Time is abstracted to what the queries compare: a lease is live or has  *)
(* lapsed, a wait is over or not, a job is younger than handBackWindow or  *)
(* not.  What a performer does is the error it returns.  An id is the      *)
(* job's place in its lane's sequence.                                     *)
(***************************************************************************)
EXTENDS Integers, FiniteSets

CONSTANTS
    MaxJobs,         \* bound: how many jobs are ever queued
    Dispatchers,     \* the processes that run RunDispatcher
    Workers,         \* STOOP_JOBS_WORKERS
    MaxAttempts,     \* Options.MaxAttempts
    Lanes,           \* which jobs share a lane: a set of sets of jobs
    LateLanes,       \* lanes whose caller numbers a job before it can queue it
    Capped,          \* which jobs are of one capped kind: the same
    MaxInFlight,     \* Options.MaxInFlight of a capped kind
    MaxLapses,       \* bound: leases that lapse under a live worker
    MaxHalts,        \* bound: stops and crashes
    MaxHandBacks,    \* bound: attempts handed back
    MaxFailedWrites  \* bound: outcome and release writes, and leases, that fail

Job == 1 .. MaxJobs

ASSUME JobsAssumption ==
    /\ {MaxJobs, MaxLapses, MaxHalts, MaxHandBacks, MaxFailedWrites} \subseteq Nat
    /\ {Workers, MaxAttempts, MaxInFlight} \subseteq Nat \ {0}
    /\ Lanes \subseteq SUBSET Job /\ LateLanes \subseteq Lanes /\ Capped \subseteq SUBSET Job
    /\ \A L, M \in Lanes : L = M \/ L \cap M = {}

VARIABLES
    jobs,        \* the jobs table
    discarded,   \* history: lanes whose queued jobs were ever discarded
    process,     \* where each dispatcher is in its life
    work,        \* what each dispatcher has of each job
    leases,      \* history: how many leases each job was ever given
    budget       \* what is left of each bound

vars == <<jobs, discarded, process, work, leases, budget>>

Row == [state : {"none", "queued", "running", "succeeded", "discarded"},
        attempt : Nat, max : Nat, lease : {"none", "live", "lapsed"},
        due : BOOLEAN, young : BOOLEAN]

NoRow == [state |-> "none", attempt |-> 0, max |-> MaxAttempts,
          lease |-> "none", due |-> TRUE, young |-> TRUE]

\* A leased row in a dispatcher's hands: in attempts ("held"), in writing,
\* or taken by shutdown to be released ("drained").
Work == [step : {"none", "held", "writing", "drained"},
         attempt : Nat, max : Nat, lease : Nat]

NoWork == [step |-> "none", attempt |-> 0, max |-> 0, lease |-> 0]

Bounds == {"lapses", "halts", "handBacks", "failedWrites"}

Init ==
    /\ jobs = [j \in Job |-> NoRow]
    /\ discarded = {}
    /\ process = [d \in Dispatchers |-> "up"]
    /\ work = [d \in Dispatchers |-> [j \in Job |-> NoWork]]
    /\ leases = [j \in Job |-> 0]
    /\ budget = [lapses |-> MaxLapses, halts |-> MaxHalts,
                  handBacks |-> MaxHandBacks, failedWrites |-> MaxFailedWrites]

Spend(b) == budget[b] > 0 /\ budget' = [budget EXCEPT ![b] = @ - 1]

-----------------------------------------------------------------------------
(* The table *)

Unfinished(j) == jobs[j].state \in {"queued", "running"}
Finished(j) == jobs[j].state \in {"succeeded", "discarded"}
LiveLease(j) == jobs[j].state = "running" /\ jobs[j].lease = "live"

\* The jobs that go before j in its lane.
Before(j) == {i \in Job : i < j /\ \E L \in Lanes : {i, j} \subseteq L}

\* EnqueueAt, and EnqueueInLane for a job with a lane, which is for now.
\* Webhook lanes number a job as they queue it, but for a Send again, which
\* queues its delivery's old number; an image upload's number is the moment the
\* request arrived, and its bytes are stored first.
Enqueue(j) ==
    /\ jobs[j].state = "none"
    /\ \A i \in 1 .. j - 1 :
          jobs[i].state # "none" \/ \E L \in LateLanes : {i, j} \subseteq L
    /\ \E due \in BOOLEAN :
          /\ due \/ \A L \in Lanes : j \notin L
          /\ jobs' = [jobs EXCEPT ![j] = [NoRow EXCEPT !.state = "queued", !.due = due]]
    /\ UNCHANGED <<discarded, process, work, leases, budget>>

\* not_before passes.
FallDue(j) ==
    /\ jobs[j].state = "queued" /\ ~jobs[j].due
    /\ jobs' = [jobs EXCEPT ![j].due = TRUE]
    /\ UNCHANGED <<discarded, process, work, leases, budget>>

\* handBackWindow passes.
GrowOld(j) ==
    /\ Unfinished(j) /\ jobs[j].young
    /\ jobs' = [jobs EXCEPT ![j].young = FALSE]
    /\ UNCHANGED <<discarded, process, work, leases, budget>>

\* The lane's owner is being deleted: its queued jobs are discarded.  One
\* that is on its way may still be queued.
DiscardLane(L) ==
    /\ L \notin discarded /\ discarded' = discarded \cup {L}
    /\ jobs' = [j \in Job |->
                   IF j \in L /\ jobs[j].state = "queued"
                   THEN [jobs[j] EXCEPT !.state = "discarded", !.lease = "none"]
                   ELSE jobs[j]]
    /\ UNCHANGED <<process, work, leases, budget>>

-----------------------------------------------------------------------------
(* Leasing *)

Tracked(d, j) == work[d][j].step \in {"held", "writing"}
Matches(d, j) == work[d][j].attempt = jobs[j].attempt

\* Slip: the head of a lane is the first of its queued rows.
HeadOfQueued(j) == \A i \in Before(j) : jobs[i].state # "queued"

\* No other unfinished row in the lane goes before.
Head(j) == \A i \in Before(j) : ~Unfinished(i)

\* Slip: only rows nobody leased are taken.
DueUnleased(j) == jobs[j].state = "queued" /\ jobs[j].due

\* LeaseJobs: unfinished, due, and with no lease or a lapsed one.
Due(j) == Unfinished(j) /\ jobs[j].due /\ jobs[j].lease # "live"

\* Slip: a full kind still has room for one.
RoomAtTheCap(j) ==
    \A K \in Capped : j \in K => Cardinality({i \in K : LiveLease(i)}) <= MaxInFlight

\* leaseCapped: a capped kind has room for another live lease.
Room(j) ==
    \A K \in Capped : j \in K => Cardinality({i \in K : LiveLease(i)}) < MaxInFlight

\* Slip: one row more than there are workers.
FreeByOne(d) == Cardinality({j \in Job : Tracked(d, j)}) <= Workers

Free(d) == Cardinality({j \in Job : Tracked(d, j)}) < Workers

\* LeaseJobs takes rows that are due, each its lane's head.
Leasable(d, j) ==
    /\ process[d] = "up" /\ Free(d) /\ ~Tracked(d, j)
    /\ Due(j) /\ Head(j) /\ Room(j)

Leased(j) ==
    [jobs[j] EXCEPT !.state = "running", !.lease = "live", !.attempt = @ + 1]

\* leaseBatch takes one row of its batch: which of those due is not said.
Lease(d, j) ==
    /\ Leasable(d, j)
    /\ jobs' = [jobs EXCEPT ![j] = Leased(j)]
    /\ leases' = [leases EXCEPT ![j] = @ + 1]
    /\ work' = [work EXCEPT ![d][j] = [step |-> "held", attempt |-> jobs[j].attempt + 1,
                                       max |-> jobs[j].max, lease |-> leases[j] + 1]]
    /\ UNCHANGED <<discarded, process, budget>>

\* The lease is committed and its answer is lost (the context ended, the
\* connection broke): the row runs on a lease nobody knows of.
LoseLease(d, j) ==
    /\ Leasable(d, j) /\ Spend("failedWrites")
    /\ jobs' = [jobs EXCEPT ![j] = Leased(j)]
    /\ leases' = [leases EXCEPT ![j] = @ + 1]
    /\ UNCHANGED <<discarded, process, work>>

\* A performer runs and its lease is renewed every half lease; an attempt
\* past the limit is not performed.
Performing(d, j) ==
    /\ work[d][j].step = "held" /\ process[d] \in {"up", "stopping"}
    /\ work[d][j].attempt <= work[d][j].max

Tended(j) ==
    \E d \in Dispatchers :
        Tracked(d, j) /\ Matches(d, j) /\ process[d] # "down"

\* Nobody renews: the lease passes its deadline.
Lapse(j) ==
    /\ LiveLease(j) /\ ~Tended(j)
    /\ jobs' = [jobs EXCEPT ![j].lease = "lapsed"]
    /\ UNCHANGED <<discarded, process, work, leases, budget>>

\* A hung or cut-off worker's renewals fail for a whole lease.
LapseUnderWorker(j) ==
    /\ LiveLease(j) /\ Tended(j) /\ Spend("lapses")
    /\ jobs' = [jobs EXCEPT ![j].lease = "lapsed"]
    /\ UNCHANGED <<discarded, process, work, leases>>

\* ExtendJobLease finds the row running the attempt it was leased for; one
\* that extends a live lease changes nothing seen here.
Renew(d, j) ==
    /\ Performing(d, j) /\ Matches(d, j)
    /\ jobs[j].state = "running" /\ jobs[j].lease = "lapsed"
    /\ jobs' = [jobs EXCEPT ![j].lease = "live"]
    /\ UNCHANGED <<discarded, process, work, leases, budget>>

-----------------------------------------------------------------------------
(* Outcomes *)

\* The performer has returned, and its worker takes the outcome's write.
Claim(d, j) ==
    /\ work[d][j].step = "held" /\ process[d] \in {"up", "stopping"}
    /\ work' = [work EXCEPT ![d][j].step = "writing"]
    /\ UNCHANGED <<jobs, discarded, process, leases, budget>>

Exhausted(d, j) == work[d][j].attempt > work[d][j].max
LastTry(d, j) == work[d][j].attempt >= work[d][j].max

\* Slip: an outcome is written whatever attempt the row is at.
RecordByIdAlone(d, j, row) ==
    /\ work[d][j].step = "writing"
    /\ jobs' = [jobs EXCEPT ![j] = row]
    /\ work' = [work EXCEPT ![d][j] = NoWork]
    /\ UNCHANGED <<discarded, process, leases>>

\* FinishJob, RequeueJob and HandBackJob match id and attempt, nothing else.
Record(d, j, row) ==
    /\ work[d][j].step = "writing"
    /\ jobs' = [jobs EXCEPT ![j] = IF Matches(d, j) THEN row ELSE @]
    /\ work' = [work EXCEPT ![d][j] = NoWork]
    /\ UNCHANGED <<discarded, process, leases>>

Ended(j, state) == [jobs[j] EXCEPT !.state = state, !.lease = "none"]
Requeued(j) == [jobs[j] EXCEPT !.state = "queued", !.lease = "none", !.due = FALSE]

\* No error.
Succeed(d, j) ==
    ~Exhausted(d, j) /\ Record(d, j, Ended(j, "succeeded")) /\ UNCHANGED budget

\* NotAttempted, of a young job: max_attempts rises and the attempt stands.
HandBack(d, j) ==
    /\ ~Exhausted(d, j) /\ jobs[j].young
    /\ Record(d, j, [Requeued(j) EXCEPT !.max = @ + 1])
    /\ Spend("handBacks")

\* Discard, the last try's error, or an attempt past the limit.
GiveUp(d, j) == Record(d, j, Ended(j, "discarded")) /\ UNCHANGED budget

\* Any other error, tried again after its wait.
Retry(d, j) == ~LastTry(d, j) /\ Record(d, j, Requeued(j)) /\ UNCHANGED budget

\* The outcome's write fails: it is logged and the row left running.
LoseOutcome(d, j) ==
    /\ work[d][j].step = "writing" /\ Spend("failedWrites")
    /\ work' = [work EXCEPT ![d][j] = NoWork]
    /\ UNCHANGED <<jobs, discarded, process, leases>>

WriteOutcome(d, j) == Succeed(d, j) \/ HandBack(d, j) \/ GiveUp(d, j) \/ Retry(d, j)

-----------------------------------------------------------------------------
(* A dispatcher's life *)

Start(d) ==
    /\ process[d] = "down" /\ process' = [process EXCEPT ![d] = "up"]
    /\ UNCHANGED <<jobs, discarded, work, leases, budget>>

\* The context ends: no more leases, and the workers have their grace.
Stop(d) ==
    /\ process[d] = "up" /\ Spend("halts")
    /\ process' = [process EXCEPT ![d] = "stopping"]
    /\ UNCHANGED <<jobs, discarded, work, leases>>

\* The grace is over: what no worker has claimed is shutdown's to release,
\* and the workers are cancelled.
Drain(d) ==
    /\ process[d] = "stopping" /\ \E j \in Job : Tracked(d, j)
    /\ process' = [process EXCEPT ![d] = "releasing"]
    /\ work' = [work EXCEPT ![d] = [j \in Job |->
                   IF work[d][j].step = "held"
                   THEN [work[d][j] EXCEPT !.step = "drained"] ELSE work[d][j]]]
    /\ UNCHANGED <<jobs, discarded, leases, budget>>

Drained(d, j) == work[d][j].step = "drained"

\* Slip: rows are released by id, whatever attempt they are at.
ReleasedById(d) ==
    [j \in Job |->
        IF Drained(d, j) /\ jobs[j].state = "running"
        THEN [jobs[j] EXCEPT !.state = "queued", !.lease = "none", !.attempt = @ - 1]
        ELSE jobs[j]]

\* ReleaseJobs: rows running the attempt drained are queued again, and the
\* attempt is given back.
Released(d) ==
    [j \in Job |->
        IF Drained(d, j) /\ jobs[j].state = "running" /\ Matches(d, j)
        THEN [jobs[j] EXCEPT !.state = "queued", !.lease = "none", !.attempt = @ - 1]
        ELSE jobs[j]]

Dropped(d) == [j \in Job |-> IF Drained(d, j) THEN NoWork ELSE work[d][j]]

Release(d) ==
    /\ process[d] = "releasing" /\ process' = [process EXCEPT ![d] = "leaving"]
    /\ jobs' = Released(d)
    /\ work' = [work EXCEPT ![d] = Dropped(d)]
    /\ UNCHANGED <<discarded, leases, budget>>

\* The release fails: the rows stay running until their leases lapse.
FailRelease(d) ==
    /\ process[d] = "releasing" /\ process' = [process EXCEPT ![d] = "leaving"]
    /\ Spend("failedWrites")
    /\ work' = [work EXCEPT ![d] = Dropped(d)]
    /\ UNCHANGED <<jobs, discarded, leases>>

\* Every worker is done within the grace, or has had leaveTimeout: the
\* process ends, with an outcome not yet written if need be.
Leave(d) ==
    /\ \/ process[d] = "stopping" /\ \A j \in Job : ~Tracked(d, j)
       \/ process[d] = "leaving"
    /\ process' = [process EXCEPT ![d] = "down"]
    /\ work' = [work EXCEPT ![d] = [j \in Job |-> NoWork]]
    /\ UNCHANGED <<jobs, discarded, leases, budget>>

Crash(d) ==
    /\ process[d] # "down" /\ Spend("halts")
    /\ process' = [process EXCEPT ![d] = "down"]
    /\ work' = [work EXCEPT ![d] = [j \in Job |-> NoWork]]
    /\ UNCHANGED <<jobs, discarded, leases>>

-----------------------------------------------------------------------------
Table ==
    \/ \E j \in Job : Enqueue(j) \/ FallDue(j) \/ GrowOld(j)
    \/ \E j \in Job : Lapse(j) \/ LapseUnderWorker(j)
    \/ \E L \in Lanes : DiscardLane(L)

Dispatcher(d) ==
    \/ \E j \in Job : \/ Lease(d, j) \/ LoseLease(d, j) \/ Renew(d, j) \/ Claim(d, j)
                      \/ Succeed(d, j) \/ HandBack(d, j) \/ GiveUp(d, j)
                      \/ Retry(d, j) \/ LoseOutcome(d, j)
    \/ Start(d) \/ Stop(d) \/ Drain(d) \/ Release(d) \/ FailRelease(d)
    \/ Leave(d) \/ Crash(d)

Next == Table \/ \E d \in Dispatchers : Dispatcher(d)

Spec == Init /\ [][Next]_vars

\* Deadlines pass, every due row is leased in its turn (the poll is the
\* backstop, the oldest wait first), performers return and their outcomes
\* are written, and a dispatcher that is down is started again.
Fairness ==
    /\ \A j \in Job : WF_vars(FallDue(j)) /\ WF_vars(GrowOld(j)) /\ WF_vars(Lapse(j))
    /\ \A j \in Job : WF_vars(\E d \in Dispatchers : Lease(d, j))
    /\ \A d \in Dispatchers, j \in Job : WF_vars(Claim(d, j)) /\ WF_vars(WriteOutcome(d, j))
    /\ \A d \in Dispatchers : WF_vars(Start(d)) /\ WF_vars(Leave(d))
                              /\ WF_vars(Release(d) \/ FailRelease(d))

FairSpec == Spec /\ Fairness

-----------------------------------------------------------------------------
(* What the queue promises *)

\* A dispatcher never has more attempts in hand than workers to perform them.
WithinWorkers ==
    \A d \in Dispatchers : Cardinality({j \in Job : Tracked(d, j)}) <= Workers

TypeOK ==
    /\ jobs \in [Job -> Row]
    /\ discarded \subseteq Lanes
    /\ process \in [Dispatchers -> {"up", "stopping", "releasing", "leaving", "down"}]
    /\ work \in [Dispatchers -> [Job -> Work]]
    /\ leases \in [Job -> Nat]
    /\ budget \in [Bounds -> Nat]
    /\ WithinWorkers

Holds(d, j) == work[d][j].step # "none"

\* Whoever would write an outcome to a running row holds the lease it runs
\* on: an outcome from a lapsed lease, or a release of one, never lands on a
\* later attempt (jobs.sql: "can never match a later attempt"), though a
\* release gives attempts back.
OutcomeIsCurrent ==
    \A d \in Dispatchers, j \in Job :
        Holds(d, j) /\ jobs[j].state = "running" /\ Matches(d, j)
            => work[d][j].lease = leases[j]

\* A lane's jobs run one at a time, in sequence order: when one runs, all
\* before it are finished (lanes.go), whatever was retried, released or
\* lost.  So for lanes that are numbered in order and not discarded.
LaneInOrder ==
    \A L \in Lanes \ (LateLanes \cup discarded) : \A i, j \in L :
        i < j /\ jobs[j].state = "running" => Finished(i)

\* A job that ended stays as it ended, whoever still performs it; but for a
\* lane that was discarded.
EndedForGood ==
    [][\A j \in Job : Finished(j) /\ (\A L \in discarded : j \notin L)
            => jobs'[j] = jobs[j]]_vars

\* No job is lost: whatever crashes, lapses or fails to be written, each is
\* performed to an end or given up.
JobEnds ==
    \A j \in Job : Unfinished(j) ~> Finished(j)

\* A capped kind is over its cap by no more than the leases that have lapsed
\* under a live worker: each makes room for one lease, and its renewal may
\* then bring it back (caps.go counts live leases, ExtendJobLease does not).
CapOverrun ==
    \A K \in Capped :
        Cardinality({j \in K : LiveLease(j)})
            <= MaxInFlight + (MaxLapses - budget["lapses"])

-----------------------------------------------------------------------------
(* The promise implemented *)

\* A row that is queued or running waits, and one ever leased has begun.
Queue == INSTANCE LaneQueue WITH
    state <- [j \in Job |-> IF Unfinished(j) THEN "waiting" ELSE jobs[j].state],
    begun <- [j \in Job |-> leases[j] > 0]

\* Through leases, lapses, stops and crashes the queue does what LaneQueue
\* promises its callers: no job ends unbegun or twice, and none begins
\* before what waits ahead of it in its lane (dispatcher.go, jobs.sql).
QueueSpec == Queue!Spec

-----------------------------------------------------------------------------
(* Claims the code does not keep *)

\* The outcome of a lease that is no longer the row's latest changes nothing
\* (jobs.sql: "so a stale attempt whose lease lapsed changes nothing").
StaleChangesNothing ==
    [][\A d \in Dispatchers, j \in Job :
            work[d][j].step = "writing" /\ ~(work'[d][j].step = "writing")
                /\ work[d][j].lease < leases[j]
            => jobs'[j] = jobs[j]]_vars

\* One job per lane runs at a time, in any lane (lanes.go), image uploads'
\* among them (image_upload.go: "apply in arrival order").
LaneRunsOne ==
    \A L \in Lanes \ discarded : \A i, j \in L :
        jobs[i].state = "running" /\ jobs[j].state = "running" => i = j

\* A capped kind never holds more live leases than its cap (registry.go).
CapHolds ==
    \A K \in Capped : Cardinality({j \in K : LiveLease(j)}) <= MaxInFlight

=============================================================================
