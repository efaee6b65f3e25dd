------------------------------ MODULE Webhooks ------------------------------
(***************************************************************************)
(* Outgoing webhooks (internal/integrations): a fan-out turns one event of *)
(* a space into a delivery per hook, and a delivery is tried until the     *)
(* receiver takes it or its attempts are spent.  The log the admin reads   *)
(* is written beside the queue, which knows nothing of it.  How events     *)
(* come to have fan-outs is module HookFeed.                               *)
(*                                                                         *)
(* One space.  Of the job queue this keeps what module Jobs shows of it: a *)
(* lane runs in order, an attempt may die or run on past its lease beside  *)
(* the next one, and only the latest attempt's outcome is written.         *)
(***************************************************************************)
EXTENDS Integers, FiniteSets, Sequences

CONSTANTS
    Hooks,          \* outgoing hooks, all wanting every event of the space
    MaxEvents,      \* bound: events fanned out in the space
    MaxResends,     \* bound: Send again, of any delivery
    MaxAttempts,    \* deliveryAttempts
    DeadToDisable,  \* deadToDisable
    MaxOverlaps,    \* bound: attempts begun beside a running one
    MaxFaults       \* bound: crashes, statements that fail, answers lost

Event == 1 .. MaxEvents
Attempt == 1 .. MaxAttempts

ASSUME WebhooksAssumption ==
    /\ IsFiniteSet(Hooks) /\ {MaxEvents, MaxResends, MaxOverlaps, MaxFaults} \subseteq Nat
    /\ {MaxAttempts, DeadToDisable} \subseteq Nat \ {0}

\* A delivery is named by its event and hook (eventDeliveryID); one sent
\* again has a name of its own.
Delivery == Event \X Hooks \X (0 .. MaxResends)
HookOf(d) == d[2]

VARIABLES
    hook,        \* each hook's row and its life
    fan,         \* each event's fan_out_webhook_event job
    log,         \* the delivery log
    job,         \* each delivery's deliver_webhook job
    try,         \* where each of its attempts is
    accepted,    \* history: deliveries the receiver answered 2xx
    overlaps, faults  \* what is left of the bounds

vars == <<hook, fan, log, job, try, accepted, overlaps, faults>>
queue == <<log, job, try, accepted, overlaps>>

NoRow == [state |-> "none", body |-> FALSE, sequence |-> 0, at |-> 0]

Init ==
    /\ hook = [h \in Hooks |-> [life |-> "none", enabled |-> FALSE, sequence |-> 0]]
    /\ fan = [e \in Event |-> "queued"]
    /\ log = [d \in Delivery |-> NoRow]
    /\ job = [d \in Delivery |-> "none"]
    /\ try = [d \in Delivery |-> [k \in Attempt |-> "idle"]]
    /\ accepted = {}
    /\ overlaps = MaxOverlaps /\ faults = MaxFaults

Fault == faults > 0 /\ faults' = faults - 1
Overlap == overlaps > 0 /\ overlaps' = overlaps - 1

-----------------------------------------------------------------------------
(* Hooks *)

HasRow(h) == hook[h].life \in {"made", "deleting"}
Enabled(h) == HasRow(h) /\ hook[h].enabled

CreateHook(h) ==
    /\ hook[h].life = "none"
    /\ hook' = [hook EXCEPT ![h].life = "made", ![h].enabled = TRUE]
    /\ UNCHANGED <<fan, queue, faults>>

\* UpdateOutgoing, by an admin.
Toggle(h) ==
    /\ hook[h].life = "made"
    /\ hook' = [hook EXCEPT ![h].enabled = ~@]
    /\ UNCHANGED <<fan, queue, faults>>

\* DeleteWebhook: the lane's queued jobs are discarded ...
DiscardLane(h) ==
    /\ hook[h].life = "made"
    /\ hook' = [hook EXCEPT ![h].life = "deleting"]
    /\ job' = [d \in Delivery |->
                  IF HookOf(d) = h /\ job[d] = "queued" /\ \A k \in Attempt : try[d][k] \in {"idle", "over"}
                  THEN "discarded" ELSE job[d]]
    /\ UNCHANGED <<fan, log, try, accepted, overlaps, faults>>

\* ... and the row goes, the log's rows with it.
DeleteHook(h) ==
    /\ hook[h].life = "deleting"
    /\ hook' = [hook EXCEPT ![h].life = "gone"]
    /\ log' = [d \in Delivery |-> IF HookOf(d) = h THEN NoRow ELSE log[d]]
    /\ UNCHANGED <<fan, job, try, accepted, overlaps, faults>>

-----------------------------------------------------------------------------
(* The fan-out *)

Logged(d) == log[d].state # "none"
Count == Cardinality({d \in Delivery : job[d] # "none"})

\* queueDelivery: the row, with its number, and the job in one transaction.
Queued(number) ==
    LET S == DOMAIN number IN
    /\ log' = [d \in Delivery |->
                  IF d \in S THEN [state |-> "pending", body |-> TRUE,
                                   sequence |-> number[d], at |-> Count + 1]
                  ELSE log[d]]
    /\ job' = [d \in Delivery |-> IF d \in S THEN "queued" ELSE job[d]]

\* Slip: a second run of the fan-out does not look for the first one's work.
TakeAll(e) == {h \in Hooks : Enabled(h)}

\* The enabled hooks that have no delivery of the event yet.
Takers(e) == {h \in Hooks : Enabled(h) /\ ~Logged(<<e, h, 0>>)}

\* FanOutWebhookEvent's transaction.
FanOut(e) ==
    /\ hook' = [h \in Hooks |-> IF h \in Takers(e) THEN [hook[h] EXCEPT !.sequence = @ + 1] ELSE hook[h]]
    /\ Queued([d \in {<<e, h, 0>> : h \in Takers(e)} |-> hook'[HookOf(d)].sequence])

\* The head of the space's lane runs; it may commit without its outcome
\* being written, fail, and in the end be discarded.
RunFanOut(e) ==
    /\ fan[e] = "queued" /\ \A f \in Event : f < e => fan[f] # "queued"
    /\ \/ FanOut(e) /\ fan' = [fan EXCEPT ![e] = "done"] /\ UNCHANGED faults
       \/ FanOut(e) /\ UNCHANGED fan /\ Fault
       \/ UNCHANGED <<hook, log, job>> /\ fan' = [fan EXCEPT ![e] = "discarded"] /\ Fault
    /\ UNCHANGED <<try, accepted, overlaps>>

\* An attempt whose lease lapsed runs the transaction after the job is over.
LateFanOut(e) ==
    /\ fan[e] \in {"done", "discarded"} /\ Overlap
    /\ FanOut(e)
    /\ UNCHANGED <<fan, try, accepted, faults>>

-----------------------------------------------------------------------------
(* A delivery *)

Running(d) == {k \in Attempt : try[d][k] \notin {"idle", "over"}}
Made(d) == {k \in Attempt : try[d][k] # "idle"}
Next1(d) == Cardinality(Made(d)) + 1
Moved(d, k, step) == [try EXCEPT ![d][k] = step]

\* The lane runs in sequence order, and what shares one in the order queued.
\* (What a deleted hook's lane still holds is dropped unsent, in any order.)
Ahead(c, d) ==
    /\ HookOf(c) = HookOf(d) /\ job[c] = "queued"
    /\ \/ log[c].sequence < log[d].sequence
       \/ log[c].sequence = log[d].sequence /\ log[c].at < log[d].at

\* Slip: a delivery waiting to be tried again lets the next one past.
NothingTried(d) == \A c \in Delivery : Ahead(c, d) => Made(c) # {}

HeadOfLane(d) == \A c \in Delivery : ~Ahead(c, d)

\* The queue leases the head of the lane.
Lease(d) ==
    LET k == Next1(d) IN
    /\ job[d] = "queued" /\ k \in Attempt /\ HeadOfLane(d)
    /\ IF Running(d) = {} THEN UNCHANGED overlaps ELSE Overlap
    /\ try' = Moved(d, k, "leased")
    /\ UNCHANGED <<hook, fan, log, job, accepted, faults>>

\* tryDelivery: nothing is sent for a hook that is gone or off ...
ReadHook(d, k) ==
    /\ try[d][k] = "leased"
    /\ try' = Moved(d, k, IF Enabled(HookOf(d)) THEN "sending" ELSE "dropped")
    /\ UNCHANGED <<hook, fan, log, job, accepted, overlaps, faults>>

\* ... and what is sent is answered, or fails, up to attemptTimeout later.
\* An answer may be lost on its way back; 410 turns the hook off.
Answer(d, k) ==
    LET failed == IF k < MaxAttempts THEN "again" ELSE "dead" IN
    /\ try[d][k] = "sending"
    /\ \/ /\ try' = Moved(d, k, "ok") /\ accepted' = accepted \cup {d}
          /\ UNCHANGED <<hook, faults>>
       \/ try' = Moved(d, k, failed) /\ UNCHANGED <<hook, accepted, faults>>
       \/ /\ try' = Moved(d, k, failed) /\ accepted' = accepted \cup {d} /\ Fault
          /\ UNCHANGED hook
       \/ /\ try' = Moved(d, k, "dropped")
          /\ hook' = [hook EXCEPT ![HookOf(d)].enabled = FALSE]
          /\ UNCHANGED <<accepted, faults>>
    /\ UNCHANGED <<fan, log, job, overlaps>>

Verdicts == {"ok", "again", "dropped", "dead"}
WrittenUp == [ok |-> "wrote_ok", again |-> "wrote_again", dropped |-> "wrote_dropped", dead |-> "wrote_dead"]

\* Slip: the body goes with the finish, however it finished.
KeepUnfinished(d, v) == v = "again"

\* RecordDeliveryAttempt: a delivered body is not kept.
KeepsBody(d, v) == v # "ok" /\ log[d].body

RowAfter(d, v) ==
    [log[d] EXCEPT !.state = CASE v = "ok" -> "delivered" [] v = "again" -> "pending" [] OTHER -> "dead",
                   !.body = KeepsBody(d, v)]

\* settleDead: the hook's newest finished deliveries were all dead.
AllDead(h) ==
    LET finished == {d \in Delivery : HookOf(d) = h /\ log'[d].state \in {"delivered", "dead"}}
        newest == {d \in finished : Cardinality({c \in finished : log[c].at > log[d].at}) < DeadToDisable}
    IN Cardinality(finished) >= DeadToDisable /\ \A d \in newest : log'[d].state = "dead"

\* recordAttempt, whatever another attempt wrote before; a delivery out of
\* attempts may turn its hook off.
Record(d, k) ==
    LET v == try[d][k] IN
    /\ v \in Verdicts
    /\ log' = IF Logged(d) THEN [log EXCEPT ![d] = RowAfter(d, v)] ELSE log
    /\ hook' = IF v = "dead" /\ AllDead(HookOf(d))
               THEN [hook EXCEPT ![HookOf(d)].enabled = FALSE] ELSE hook
    /\ try' = Moved(d, k, WrittenUp[v])
    /\ UNCHANGED <<fan, job, accepted, overlaps, faults>>

\* The attempt is over, and its outcome written if it is the latest.
Over(d, k, outcome) ==
    /\ try' = Moved(d, k, "over")
    /\ job' = IF Made(d) \subseteq 1 .. k /\ job[d] = "queued" THEN [job EXCEPT ![d] = outcome] ELSE job

\* What registerDeliveries makes of the verdict.
Outcome(d, k) ==
    /\ \E v \in Verdicts :
          /\ try[d][k] = WrittenUp[v]
          /\ Over(d, k, CASE v = "ok" -> "done" [] v = "again" -> "queued" [] OTHER -> "discarded")
    /\ UNCHANGED <<hook, fan, log, accepted, overlaps, faults>>

\* The log row cannot be written: the error is the outcome.
RecordFails(d, k) ==
    /\ try[d][k] \in Verdicts /\ Fault
    /\ Over(d, k, IF k < MaxAttempts THEN "queued" ELSE "discarded")
    /\ UNCHANGED <<hook, fan, log, accepted, overlaps>>

\* The process dies, before or after it wrote the row.
Die(d, k) ==
    /\ k \in Running(d) /\ Fault
    /\ try' = Moved(d, k, "over")
    /\ UNCHANGED <<hook, fan, log, job, accepted, overlaps>>

\* The last lease lapsed; the queue discards the job.
GiveUp(d) ==
    /\ job[d] = "queued" /\ Made(d) = Attempt
    /\ IF Running(d) = {} THEN UNCHANGED overlaps ELSE Overlap
    /\ job' = [job EXCEPT ![d] = "discarded"]
    /\ UNCHANGED <<hook, fan, log, try, accepted, faults>>

\* Slip: a row is judged by its job alone.
JobOver(d) == Logged(d) /\ job[d] # "queued" /\ Running(d) = {}

\* An unfinished row whose job was discarded, or is gone: the queue forgets
\* a done one, long after its last attempt.
IsLost(d) ==
    /\ log[d].state = "pending"
    /\ job[d] = "discarded" \/ (job[d] = "done" /\ Running(d) = {})

\* SweepLostDeliveries
SweepLost(d) ==
    /\ IsLost(d)
    /\ log' = [log EXCEPT ![d].state = "dead"]
    /\ UNCHANGED <<hook, fan, job, try, accepted, overlaps, faults>>

\* RedeliverDelivery: a dead delivery with its body goes again, under a new
\* id and its own sequence.
Redeliver(d) ==
    /\ log[d].state = "dead" /\ log[d].body /\ Enabled(HookOf(d))
    /\ LET c == Cardinality({x \in Delivery : x[3] > 0 /\ job[x] # "none"}) + 1 IN
       c <= MaxResends /\ Queued([x \in {<<d[1], d[2], c>>} |-> log[d].sequence])
    /\ UNCHANGED <<hook, fan, try, accepted, overlaps, faults>>

-----------------------------------------------------------------------------

\* What the dispatchers and the scheduled sweeps do for a delivery.
Tend(d) ==
    \/ Lease(d) \/ GiveUp(d) \/ SweepLost(d)
    \/ \E k \in Attempt : ReadHook(d, k) \/ Answer(d, k) \/ Record(d, k) \/ Outcome(d, k)

Next ==
    \/ \E h \in Hooks : CreateHook(h) \/ Toggle(h) \/ DiscardLane(h) \/ DeleteHook(h)
    \/ \E e \in Event : RunFanOut(e) \/ LateFanOut(e)
    \/ \E d \in Delivery :
          \/ Tend(d) \/ Redeliver(d)
          \/ \E k \in Attempt : RecordFails(d, k) \/ Die(d, k)

Spec == Init /\ [][Next]_vars

\* The dispatchers and the sweeps go on.
FairSpec == Spec /\ WF_vars(\E d \in Delivery : Tend(d))

-----------------------------------------------------------------------------
(* Properties *)

\* Every piece of state has the shape the code gives it.
TypeOK ==
    /\ hook \in [Hooks -> [life : {"none", "made", "deleting", "gone"},
                           enabled : BOOLEAN, sequence : 0 .. MaxEvents]]
    /\ fan \in [Event -> {"queued", "done", "discarded"}]
    /\ log \in [Delivery -> [state : {"none", "pending", "delivered", "dead"},
                             body : BOOLEAN, sequence : 0 .. MaxEvents, at : 0 .. Cardinality(Delivery)]]
    /\ job \in [Delivery -> {"none", "queued", "done", "discarded"}]
    /\ try \in [Delivery -> [Attempt -> {"idle", "leased", "sending", "over"}
                                           \cup Verdicts \cup {WrittenUp[v] : v \in Verdicts}]]
    /\ accepted \subseteq Delivery
    /\ overlaps \in 0 .. MaxOverlaps /\ faults \in 0 .. MaxFaults

\* A hook's sequence numbers are given to one event each and none is
\* skipped, whatever fan-outs ran again, beside each other or not to the end
\* (fanout.go FanOutWebhookEvent, NextOutgoingSequence).
SequenceHasNoHoles ==
    \A h \in Hooks : HasRow(h) =>
        LET first == {d \in Delivery : HookOf(d) = h /\ d[3] = 0 /\ Logged(d)} IN
        /\ {log[d].sequence : d \in first} = 1 .. hook[h].sequence
        /\ Cardinality(first) = hook[h].sequence

\* What the log can no longer send again, the receiver has taken: a body is
\* let go only for a delivery that was answered 2xx, whichever attempt wrote
\* the row last (deliver.go recordAttempt).
BodyOrAccepted ==
    \A d \in Delivery : Logged(d) /\ ~log[d].body => d \in accepted

\* The receiver first takes a hook's events in sequence order, whatever is
\* sent again meanwhile: each after all that it took before.  Excepted is an
\* attempt that ran on past its lease, after the queue had ended its job
\* (docs/architecture/integrations.md "a retry waiting on its backoff holds
\* the lane"; deliver.go tryDelivery).
Original(d) == d[3] = 0 /\ Logged(d)
OutlivedItsJob(d) == job[d] # "queued" /\ overlaps < MaxOverlaps
HeardInOrder ==
    [][\A d \in accepted' \ accepted, e \in accepted :
          Original(d) /\ Original(e) /\ HookOf(d) = HookOf(e)
             => log[e].sequence < log[d].sequence \/ OutlivedItsJob(d)]_vars

\* A delivered row stays delivered: the sweep, the queue, the hook's other
\* deliveries and its being sent again leave it alone, and only another
\* attempt of the same delivery writes over it (deliver.go recordAttempt,
\* sweep.go SweepLostDeliveries).
DeliveredStays ==
    [][\A d \in Delivery :
          log[d].state = "delivered" /\ log'[d].state \notin {"delivered", "none"}
             => Cardinality(Made(d)) > 1]_vars

\* Every delivery the log shows in progress finishes, though its job died at
\* any step or its row was written last by an attempt that was out of date
\* (sweep.go SweepLostDeliveries).
DeliveryEnds ==
    \A d \in Delivery : log[d].state = "pending" ~> log[d].state # "pending"

\* docs/architecture/integrations.md: "A dead item keeps its body and can be
\* sent again from the log; a delivered one has its body cleared."
DeadKeepsItsBody ==
    \A d \in Delivery : log[d].state = "dead" => log[d].body

\* docs/architecture/integrations.md: "The lane keeps one delivery per hook in
\* flight, in sequence order".
OneInFlight ==
    \A c, d \in Delivery :
        Logged(c) /\ Logged(d) /\ HookOf(c) = HookOf(d) /\ Running(c) # {} /\ Running(d) # {} => c = d
=============================================================================
