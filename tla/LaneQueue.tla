----------------------------- MODULE LaneQueue -----------------------------
(***************************************************************************)
(* What the callers of internal/jobs are promised, without dispatchers,    *)
(* leases or attempts: a job waits, is begun at least once before it ends, *)
(* ends once, and is begun only when nothing put before it in its lane     *)
(* still waits.  Module Jobs implements it.                                *)
(*                                                                         *)
(* Discarding a lane is the exception: its waiting jobs may end unbegun,   *)
(* and one whose performer is still at work may end some other way later.  *)
(***************************************************************************)
EXTENDS Integers

CONSTANTS
    MaxJobs,    \* bound: how many jobs are ever put
    Lanes,      \* which jobs share a lane: a set of sets of jobs
    LateLanes   \* lanes that may be given an earlier job later

Job == 1 .. MaxJobs

VARIABLES
    state,      \* each job: none, waiting, succeeded or discarded
    begun,      \* whether it was ever begun
    discarded   \* the lanes discarded

vars == <<state, begun, discarded>>

Init ==
    /\ state = [j \in Job |-> "none"]
    /\ begun = [j \in Job |-> FALSE]
    /\ discarded = {}

\* Jobs that go before j in its lane.
Before(j) == {i \in Job : i < j /\ \E L \in Lanes : {i, j} \subseteq L}

Put(j) ==
    /\ state[j] = "none"
    /\ \A L \in Lanes \ LateLanes : j \in L => \A i \in L : i < j => state[i] # "none"
    /\ state' = [state EXCEPT ![j] = "waiting"]
    /\ UNCHANGED <<begun, discarded>>

Begin(j) ==
    /\ state[j] = "waiting" /\ \A i \in Before(j) : state[i] # "waiting"
    /\ begun' = [begun EXCEPT ![j] = TRUE]
    /\ UNCHANGED <<state, discarded>>

End(j) ==
    /\ state[j] = "waiting" /\ begun[j]
    /\ \E end \in {"succeeded", "discarded"} : state' = [state EXCEPT ![j] = end]
    /\ UNCHANGED <<begun, discarded>>

Discard(L) ==
    /\ discarded' = discarded \cup {L}
    /\ \E S \in SUBSET {j \in L : state[j] = "waiting"} :
          state' = [j \in Job |-> IF j \in S THEN "discarded" ELSE state[j]]
    /\ UNCHANGED begun

EndOtherwise(j) ==
    /\ state[j] \in {"succeeded", "discarded"} /\ begun[j]
    /\ \E L \in discarded : j \in L
    /\ \E end \in {"waiting", "succeeded", "discarded"} : state' = [state EXCEPT ![j] = end]
    /\ UNCHANGED <<begun, discarded>>

Next ==
    \/ \E j \in Job : Put(j) \/ Begin(j) \/ End(j) \/ EndOtherwise(j)
    \/ \E L \in Lanes : Discard(L)

Spec == Init /\ [][Next]_vars
=============================================================================
