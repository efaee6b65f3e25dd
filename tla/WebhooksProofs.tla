--------------------------- MODULE WebhooksProofs ---------------------------
(***************************************************************************)
(* Proofs about Webhooks, for any hooks, any bounds and any attempts: that *)
(* a hook's numbers have no holes, that no body is let go before the       *)
(* receiver took it, that a hook is heard in order, and that a delivered   *)
(* row is written over only by another attempt of its delivery.            *)
(***************************************************************************)
EXTENDS Webhooks, FiniteSetTheorems, TLAPS

HookRow == [life : {"none", "made", "deleting", "gone"}, enabled : BOOLEAN, sequence : Nat]
LogRow == [state : {"none", "pending", "delivered", "dead"}, body : BOOLEAN, sequence : Nat, at : Nat]
AttemptStep == {"idle", "leased", "sending", "over"}
                  \cup Verdicts \cup {WrittenUp[v] : v \in Verdicts}
Begun == {"leased", "sending"} \cup Verdicts

Typed ==
    /\ hook \in [Hooks -> HookRow]
    /\ fan \in [Event -> {"queued", "done", "discarded"}]
    /\ log \in [Delivery -> LogRow]
    /\ job \in [Delivery -> {"none", "queued", "done", "discarded"}]
    /\ try \in [Delivery -> [Attempt -> AttemptStep]]
    /\ accepted \subseteq Delivery
    /\ overlaps \in 0 .. MaxOverlaps /\ faults \in 0 .. MaxFaults

\* An attempt that was answered 2xx was taken.
OkIsAccepted == \A d \in Delivery, k \in Attempt : try[d][k] = "ok" => d \in accepted

\* A delivery's attempts are made in order.
InTurn == \A d \in Delivery : \E n \in Nat : Made(d) = 1 .. n

\* A delivered row was written by an attempt that is past its verdict.
DeliveredWasWritten ==
    \A d \in Delivery : log[d].state = "delivered" =>
        \E k \in Attempt : try[d][k] \in {"wrote_ok", "over"}

\* Deliveries sent again, and the numbers given to them.
Resent == {x \in Delivery : x[3] > 0 /\ job[x] # "none"}
ResendsNumbered == \A x \in Resent : x[3] <= Cardinality(Resent)

\* A row has a job, a job's row is there as long as its hook's, and a hook not
\* made has neither.
RowsAndJobs ==
    \A d \in Delivery :
        /\ Logged(d) => job[d] # "none"
        /\ HasRow(HookOf(d)) /\ job[d] # "none" => Logged(d)
        /\ hook[HookOf(d)].life = "none" => job[d] = "none"

NotMade == \A h \in Hooks : hook[h].life = "none" => hook[h].sequence = 0

\* What was tried has a job, and what was accepted was tried.
TriedHasJob ==
    \A d \in Delivery : /\ Made(d) # {} => job[d] # "none"
                        /\ d \in accepted => Made(d) # {}

\* While no attempt has begun beside another, one that runs is the only one of
\* its delivery, whose job is still queued.
Alone ==
    overlaps = MaxOverlaps =>
        \A d \in Delivery : \A k \in Running(d) : job[d] = "queued" /\ Running(d) = {k}

\* A hook's events have a number each, and the job of one is over once a later
\* one is tried.
InLine ==
    \A d, e \in Delivery :
        Original(d) /\ Original(e) /\ HookOf(d) = HookOf(e) =>
            /\ log[d].sequence = log[e].sequence => d = e
            /\ log[d].sequence < log[e].sequence /\ Made(e) # {} => job[d] # "queued"

Inv ==
    /\ TriedHasJob /\ Alone /\ InLine
    /\ Typed /\ OkIsAccepted /\ BodyOrAccepted /\ InTurn /\ DeliveredWasWritten
    /\ ResendsNumbered /\ RowsAndJobs /\ NotMade /\ SequenceHasNoHoles

-----------------------------------------------------------------------------
(* Finite sets *)

LEMMA Bounds ==
    /\ MaxEvents \in Nat /\ MaxResends \in Nat /\ MaxOverlaps \in Nat /\ MaxFaults \in Nat
    /\ MaxAttempts \in Nat \ {0} /\ IsFiniteSet(Hooks)
BY WebhooksAssumption

LEMMA DeliveryIs ==
    /\ \A d \in Delivery : d[1] \in Event /\ HookOf(d) \in Hooks /\ d[3] \in 0 .. MaxResends
                           /\ d = <<d[1], d[2], d[3]>>
    /\ \A e \in Event, h \in Hooks, n \in 0 .. MaxResends :
          <<e, h, n>> \in Delivery /\ HookOf(<<e, h, n>>) = h
BY DEF Delivery, HookOf

LEMMA DeliveryFinite ==
    /\ IsFiniteSet(Delivery)
    /\ \A S \in SUBSET Delivery : IsFiniteSet(S) /\ Cardinality(S) \in Nat
                                  /\ Cardinality(S) <= Cardinality(Delivery)
<1> DEFINE P == (Event \X Hooks) \X (0 .. MaxResends)
           f == [x \in P |-> <<x[1][1], x[1][2], x[2]>>]
<1>1. IsFiniteSet(Event) /\ IsFiniteSet(0 .. MaxResends)
  BY Bounds, FS_Interval DEF Event
<1>2. IsFiniteSet(P)
  BY <1>1, Bounds, FS_Product
<1>3. f \in Surjection(P, Delivery)
  <2>1. f \in [P -> Delivery]
    BY DEF Delivery
  <2>2. ASSUME NEW d \in Delivery PROVE \E x \in P : f[x] = d
    <3>1. <<<<d[1], d[2]>>, d[3]>> \in P /\ d = <<d[1], d[2], d[3]>>
      BY DEF Delivery
    <3>2. f[<<<<d[1], d[2]>>, d[3]>>] = d
      BY <3>1
    <3> QED
      BY <3>1, <3>2
  <2> QED
    BY <2>1, <2>2 DEF Surjection
<1>4. IsFiniteSet(Delivery)
  BY <1>2, <1>3, FS_Surjection
<1> QED
  BY <1>4, FS_Subset, FS_CardinalityType

LEMMA MadeFinite ==
  ASSUME NEW d
  PROVE  IsFiniteSet(Made(d)) /\ Cardinality(Made(d)) \in Nat
<1>1. IsFiniteSet(Attempt)
  BY Bounds, FS_Interval DEF Attempt
<1>2. Made(d) \in SUBSET Attempt
  BY DEF Made
<1> QED
  BY <1>1, <1>2, FS_Subset, FS_CardinalityType

LEMMA CountNat == Count \in Nat
<1>1. {d \in Delivery : job[d] # "none"} \in SUBSET Delivery
  OBVIOUS
<1> QED
  BY <1>1, DeliveryFinite DEF Count

-----------------------------------------------------------------------------
(* What the steps do, one delivery at a time *)

LEMMA Steps ==
    /\ \A v \in Verdicts : v \in AttemptStep /\ WrittenUp[v] \in AttemptStep
    /\ \A v \in Verdicts : WrittenUp[v] \notin {"idle", "over"} \cup Verdicts
    /\ \A v \in Verdicts : WrittenUp[v] = "wrote_ok" <=> v = "ok"
    /\ "over" \in AttemptStep /\ "idle" \notin Verdicts /\ "over" \notin Verdicts
    /\ \A v \in Begun : v \in AttemptStep /\ v \notin {"idle", "wrote_ok", "over"}
    /\ Verdicts \subseteq Begun
BY DEF AttemptStep, Begun, Verdicts, WrittenUp

LEMMA MovedStep ==
  ASSUME Typed, NEW d \in Delivery, NEW k \in Attempt, NEW s \in AttemptStep, try' = Moved(d, k, s)
  PROVE  /\ \A c \in Delivery, l \in Attempt :
               try'[c][l] = IF c = d /\ l = k THEN s ELSE try[c][l]
         /\ try' \in [Delivery -> [Attempt -> AttemptStep]]
<1>1. try[d] \in [Attempt -> AttemptStep] /\ try \in [Delivery -> [Attempt -> AttemptStep]]
  BY DEF Typed
<1>2. try' = [try EXCEPT ![d] = [try[d] EXCEPT ![k] = s]]
  BY DEF Moved
<1>3. [try[d] EXCEPT ![k] = s] \in [Attempt -> AttemptStep]
  BY <1>1
<1>4. try' \in [Delivery -> [Attempt -> AttemptStep]]
  BY <1>1, <1>2, <1>3
<1>5. ASSUME NEW c \in Delivery PROVE try'[c] = IF c = d THEN [try[d] EXCEPT ![k] = s] ELSE try[c]
  BY <1>1, <1>2
<1> QED
  BY <1>1, <1>4, <1>5

\* A fan-out's rows and numbers.
LEMMA FanOutStep ==
  ASSUME Typed, NEW e \in Event, FanOut(e)
  PROVE  /\ \A h \in Hooks :
               hook'[h] = IF h \in Takers(e) THEN [hook[h] EXCEPT !.sequence = @ + 1] ELSE hook[h]
         /\ \A d \in Delivery :
               IF d[1] = e /\ d[3] = 0 /\ HookOf(d) \in Takers(e)
               THEN /\ log'[d] = [state |-> "pending", body |-> TRUE,
                                  sequence |-> hook[HookOf(d)].sequence + 1, at |-> Count + 1]
                    /\ job'[d] = "queued"
               ELSE log'[d] = log[d] /\ job'[d] = job[d]
         /\ hook' = [h \in Hooks |-> hook'[h]]
         /\ log' = [d \in Delivery |-> log'[d]] /\ job' = [d \in Delivery |-> job'[d]]
<1> DEFINE S == {<<e, h, 0>> : h \in Takers(e)}
           number == [d \in S |-> hook'[HookOf(d)].sequence]
<1>1. hook' = [h \in Hooks |-> IF h \in Takers(e) THEN [hook[h] EXCEPT !.sequence = @ + 1] ELSE hook[h]]
  BY DEF FanOut
<1>2. /\ log' = [d \in Delivery |->
                   IF d \in S THEN [state |-> "pending", body |-> TRUE, sequence |-> number[d], at |-> Count + 1]
                   ELSE log[d]]
      /\ job' = [d \in Delivery |-> IF d \in S THEN "queued" ELSE job[d]]
  <2>1. DOMAIN number = S
    OBVIOUS
  <2> HIDE DEF S
  <2>2. Queued(number)
    BY DEF FanOut, S
  <2> HIDE DEF number
  <2> QED
    BY <2>1, <2>2 DEF Queued
<1>3. Takers(e) \subseteq Hooks
  BY DEF Takers
<1>4. ASSUME NEW d \in Delivery PROVE d \in S <=> d[1] = e /\ d[3] = 0 /\ HookOf(d) \in Takers(e)
  BY <1>3, DeliveryIs DEF HookOf
<1>5. ASSUME NEW d \in Delivery, d \in S PROVE number[d] = hook[HookOf(d)].sequence + 1
  <2>1. number[d] = hook'[HookOf(d)].sequence /\ HookOf(d) \in Takers(e)
    BY <1>4, <1>5
  <2>2. hook'[HookOf(d)] = [hook[HookOf(d)] EXCEPT !.sequence = @ + 1] /\ hook[HookOf(d)] \in HookRow
    BY <1>1, <1>3, <2>1 DEF Typed
  <2> QED
    BY <2>1, <2>2 DEF HookRow
<1>6. ASSUME NEW d \in Delivery
      PROVE  IF d[1] = e /\ d[3] = 0 /\ HookOf(d) \in Takers(e)
             THEN /\ log'[d] = [state |-> "pending", body |-> TRUE,
                                sequence |-> hook[HookOf(d)].sequence + 1, at |-> Count + 1]
                  /\ job'[d] = "queued"
             ELSE log'[d] = log[d] /\ job'[d] = job[d]
  <2> HIDE DEF S, number
  <2> QED
    BY <1>2, <1>4, <1>5
<1>7. /\ hook' = [h \in Hooks |-> hook'[h]]
      /\ log' = [d \in Delivery |-> log'[d]] /\ job' = [d \in Delivery |-> job'[d]]
  <2> HIDE DEF S, number
  <2> QED
    BY <1>1, <1>2
<1> QED
  BY <1>1, <1>6, <1>7

\* A dead delivery sent again takes a name no delivery has.
LEMMA RedeliverStep ==
  ASSUME Typed, ResendsNumbered, RowsAndJobs, NEW d \in Delivery, Redeliver(d)
  PROVE  \E n \in Delivery :
            /\ n[3] = Cardinality(Resent) + 1 /\ HookOf(n) = HookOf(d)
            /\ job[n] = "none" /\ ~Logged(n) /\ n # d
            /\ log' = [log EXCEPT ![n] = [state |-> "pending", body |-> TRUE,
                                         sequence |-> log[d].sequence, at |-> Count + 1]]
            /\ job' = [job EXCEPT ![n] = "queued"]
<1> DEFINE c == Cardinality(Resent) + 1
           n == <<d[1], d[2], c>>
           number == [x \in {n} |-> log[d].sequence]
<1>1. Cardinality(Resent) \in Nat
  BY DeliveryFinite DEF Resent
<1>2. c <= MaxResends /\ Queued(number)
  BY DEF Redeliver, Resent
<1>3. n \in Delivery /\ HookOf(n) = HookOf(d) /\ n[3] = c
  BY <1>1, <1>2, Bounds, DeliveryIs DEF HookOf
<1>4. job[n] = "none"
  BY <1>1, <1>3 DEF ResendsNumbered, Resent
<1>5. ~Logged(n) /\ Logged(d)
  BY <1>3, <1>4 DEF RowsAndJobs, Redeliver, Logged
<1>6. DOMAIN number = {n} /\ number[n] = log[d].sequence
  OBVIOUS
<1> HIDE DEF number, n
<1>7. log' = [log EXCEPT ![n] = [state |-> "pending", body |-> TRUE,
                                 sequence |-> log[d].sequence, at |-> Count + 1]]
      /\ job' = [job EXCEPT ![n] = "queued"]
  BY <1>2, <1>3, <1>6 DEF Queued, Typed
<1> QED
  BY <1>3, <1>4, <1>5, <1>7

\* Of the hooks, only whether they are on.
OnlySwitched ==
    /\ hook' \in [Hooks -> HookRow]
    /\ \A h \in Hooks : hook'[h].life = hook[h].life /\ hook'[h].sequence = hook[h].sequence

LEMMA SwitchStep ==
  ASSUME Typed, NEW h \in Hooks, NEW b \in BOOLEAN,
         \/ hook' = [hook EXCEPT ![h].enabled = b]
         \/ hook' = hook
  PROVE  OnlySwitched
BY DEF OnlySwitched, Typed, HookRow

\* An attempt as far as its verdict.
Tries(d, k) == (Lease(d) /\ k = Next1(d)) \/ ReadHook(d, k) \/ Answer(d, k)

LEMMA Tried ==
  ASSUME NEW d \in Delivery, Tend(d)
  PROVE  \/ \E k \in Attempt : Tries(d, k) \/ Record(d, k) \/ Outcome(d, k)
         \/ GiveUp(d) \/ SweepLost(d)
<1>1. Lease(d) => Next1(d) \in Attempt
  BY DEF Lease
<1>2. Lease(d) => Tries(d, Next1(d))
  BY DEF Tries
<1>3. \A k \in Attempt : ReadHook(d, k) \/ Answer(d, k) => Tries(d, k)
  BY DEF Tries
<1> QED
  BY <1>1, <1>2, <1>3 DEF Tend

\* It begins as the next of its delivery, and a delivery it ends in "ok" was
\* accepted.
LEMMA TryStep ==
  ASSUME Typed, NEW d \in Delivery, NEW k \in Attempt, Tries(d, k)
  PROVE  \E v \in Begun :
            /\ try' = Moved(d, k, v)
            /\ v = "ok" => d \in accepted'
            /\ accepted' = accepted \/ (accepted' = accepted \cup {d} /\ try[d][k] = "sending")
            /\ k = Next1(d) \/ try[d][k] \in Begun
            /\ OnlySwitched /\ UNCHANGED <<fan, log, job>>
            /\ overlaps' \in 0 .. MaxOverlaps /\ faults' \in 0 .. MaxFaults
<1> DEFINE h == HookOf(d)
           failed == IF k < MaxAttempts THEN "again" ELSE "dead"
<1>1. h \in Hooks
  BY DeliveryIs
<1>2. hook' = hook => OnlySwitched
  BY DEF OnlySwitched, Typed
<1>3. {"leased", "sending", "ok", "dropped"} \subseteq Begun /\ failed \in Begun /\ failed # "ok"
  BY DEF Begun, Verdicts
<1>4. CASE Lease(d) /\ k = Next1(d)
  <2>1. overlaps' \in 0 .. MaxOverlaps
    BY <1>4, Bounds DEF Lease, Overlap, Typed
  <2>2. try' = Moved(d, k, "leased") /\ UNCHANGED <<hook, fan, log, job, accepted, faults>>
    BY <1>4 DEF Lease
  <2> QED
    BY <1>2, <1>3, <1>4, <2>1, <2>2 DEF Typed
<1>5. CASE ReadHook(d, k)
  <2>1. /\ try[d][k] = "leased" /\ UNCHANGED <<hook, fan, log, job, accepted, overlaps, faults>>
        /\ try' = Moved(d, k, "sending") \/ try' = Moved(d, k, "dropped")
    BY <1>5 DEF ReadHook
  <2> QED
    BY <1>2, <1>3, <2>1 DEF Typed
<1>6. CASE Answer(d, k)
  <2>1. try[d][k] = "sending" /\ UNCHANGED <<fan, log, job, overlaps>>
    BY <1>6 DEF Answer
  <2>2. \/ try' = Moved(d, k, "ok") /\ accepted' = accepted \cup {d} /\ UNCHANGED <<hook, faults>>
        \/ try' = Moved(d, k, failed) /\ UNCHANGED <<hook, accepted, faults>>
        \/ try' = Moved(d, k, failed) /\ accepted' = accepted \cup {d} /\ Fault /\ UNCHANGED hook
        \/ /\ try' = Moved(d, k, "dropped") /\ hook' = [hook EXCEPT ![h].enabled = FALSE]
           /\ UNCHANGED <<accepted, faults>>
    BY <1>6 DEF Answer
  <2>3. OnlySwitched
    BY <1>1, <2>2, SwitchStep
  <2>4. faults' \in 0 .. MaxFaults
    BY <2>2, Bounds DEF Fault, Typed
  <2>5. accepted' = accepted \/ accepted' = accepted \cup {d}
    BY <2>2
  <2>6. \E v \in Begun : try' = Moved(d, k, v) /\ (v = "ok" => d \in accepted')
    <3> HIDE DEF h, failed
    <3> QED
      BY <1>3, <2>2
  <2>7. overlaps' \in 0 .. MaxOverlaps
    BY <2>1 DEF Typed
  <2> QED
    BY <1>3, <2>1, <2>3, <2>4, <2>5, <2>6, <2>7
<1> QED
  BY <1>4, <1>5, <1>6 DEF Tries

\* A verdict is written up, over whatever the row said.
LEMMA RecordStep ==
  ASSUME Typed, NEW d \in Delivery, NEW k \in Attempt, Record(d, k)
  PROVE  /\ try[d][k] \in Verdicts /\ try' = Moved(d, k, WrittenUp[try[d][k]])
         /\ log' = IF Logged(d) THEN [log EXCEPT ![d] = RowAfter(d, try[d][k])] ELSE log
         /\ RowAfter(d, try[d][k]) \in LogRow
         /\ RowAfter(d, try[d][k]).sequence = log[d].sequence
         /\ RowAfter(d, try[d][k]).state # "none"
         /\ RowAfter(d, try[d][k]).state = "delivered" <=> try[d][k] = "ok"
         /\ RowAfter(d, try[d][k]).body <=> try[d][k] # "ok" /\ log[d].body
         /\ OnlySwitched /\ UNCHANGED <<fan, job, accepted, overlaps, faults>>
<1>1. /\ try[d][k] \in Verdicts /\ try' = Moved(d, k, WrittenUp[try[d][k]])
      /\ log' = IF Logged(d) THEN [log EXCEPT ![d] = RowAfter(d, try[d][k])] ELSE log
      /\ UNCHANGED <<fan, job, accepted, overlaps, faults>>
      /\ hook' = [hook EXCEPT ![HookOf(d)].enabled = FALSE] \/ hook' = hook
  BY DEF Record
<1>2. OnlySwitched
  BY <1>1, DeliveryIs, SwitchStep
<1>3. log[d] \in LogRow
  BY DEF Typed
<1>4. /\ RowAfter(d, try[d][k]) \in LogRow
      /\ RowAfter(d, try[d][k]).sequence = log[d].sequence
      /\ RowAfter(d, try[d][k]).state # "none"
      /\ RowAfter(d, try[d][k]).state = "delivered" <=> try[d][k] = "ok"
      /\ RowAfter(d, try[d][k]).body <=> try[d][k] # "ok" /\ log[d].body
  <2> DEFINE v == try[d][k]
             r == log[d]
             st == CASE v = "ok" -> "delivered" [] v = "again" -> "pending" [] OTHER -> "dead"
  <2>1. st \in {"delivered", "pending", "dead"} /\ (st = "delivered" <=> v = "ok")
    OBVIOUS
  <2>2. RowAfter(d, v) = [r EXCEPT !.state = st, !.body = (v # "ok" /\ r.body)]
    BY DEF RowAfter, KeepsBody
  <2> HIDE DEF v, r, st
  <2>3. r \in LogRow
    BY <1>3 DEF r
  <2>4. /\ RowAfter(d, v) \in LogRow /\ RowAfter(d, v).sequence = r.sequence
        /\ RowAfter(d, v).state = st /\ RowAfter(d, v).body = (v # "ok" /\ r.body)
    BY <2>1, <2>2, <2>3 DEF LogRow
  <2> QED
    BY <2>1, <2>4 DEF v, r
<1> QED
  BY <1>1, <1>2, <1>4

\* An attempt that is over: its job, if it was queued, has its outcome.
LEMMA OverStep ==
  ASSUME Typed, NEW d \in Delivery, NEW k \in Attempt, NEW o \in {"queued", "done", "discarded"},
         Over(d, k, o)
  PROVE  /\ try' = Moved(d, k, "over")
         /\ job' \in [Delivery -> {"none", "queued", "done", "discarded"}]
         /\ \A c \in Delivery : /\ job'[c] = "none" <=> job[c] = "none"
                                /\ job'[c] = "queued" => job[c] = "queued"
                                /\ c # d => job'[c] = job[c]
BY DEF Over, Typed

LEMMA OutcomeStep ==
  ASSUME Typed, NEW d \in Delivery, NEW k \in Attempt, Outcome(d, k) \/ RecordFails(d, k)
  PROVE  /\ try' = Moved(d, k, "over")
         /\ job' \in [Delivery -> {"none", "queued", "done", "discarded"}]
         /\ \A c \in Delivery : /\ job'[c] = "none" <=> job[c] = "none"
                                /\ job'[c] = "queued" => job[c] = "queued"
                                /\ c # d => job'[c] = job[c]
         /\ try[d][k] \notin {"idle", "over"}
         /\ UNCHANGED <<hook, fan, log, accepted, overlaps>> /\ faults' \in 0 .. MaxFaults
<1>1. CASE Outcome(d, k)
  <2>1. PICK v \in Verdicts :
           /\ try[d][k] = WrittenUp[v]
           /\ Over(d, k, CASE v = "ok" -> "done" [] v = "again" -> "queued" [] OTHER -> "discarded")
    BY <1>1 DEF Outcome
  <2> DEFINE o == CASE v = "ok" -> "done" [] v = "again" -> "queued" [] OTHER -> "discarded"
  <2>2. o \in {"queued", "done", "discarded"}
    OBVIOUS
  <2>3. UNCHANGED <<hook, fan, log, accepted, overlaps, faults>>
    BY <1>1 DEF Outcome
  <2>4. try[d][k] \notin {"idle", "over"}
    BY <2>1, Steps
  <2> HIDE DEF o
  <2>5. Over(d, k, o)
    BY <2>1 DEF o
  <2> QED
    BY <2>2, <2>3, <2>4, <2>5, OverStep DEF Typed
<1>2. CASE RecordFails(d, k)
  <2> DEFINE o == IF k < MaxAttempts THEN "queued" ELSE "discarded"
  <2>1. try[d][k] \in Verdicts /\ Over(d, k, o) /\ UNCHANGED <<hook, fan, log, accepted, overlaps>>
    BY <1>2 DEF RecordFails
  <2>2. o \in {"queued", "done", "discarded"}
    OBVIOUS
  <2>3. faults' \in 0 .. MaxFaults
    BY <1>2, Bounds DEF RecordFails, Fault, Typed
  <2> HIDE DEF o
  <2> QED
    BY <2>1, <2>2, <2>3, OverStep, Steps
<1> QED
  BY <1>1, <1>2

\* A dead attempt.
LEMMA DieStep ==
  ASSUME Typed, NEW d \in Delivery, NEW k \in Attempt, Die(d, k)
  PROVE  /\ try' = Moved(d, k, "over") /\ try[d][k] \notin {"idle", "over"}
         /\ UNCHANGED <<hook, fan, log, job, accepted, overlaps>> /\ faults' \in 0 .. MaxFaults
<1>1. faults' \in 0 .. MaxFaults
  BY Bounds DEF Die, Fault, Typed
<1> QED
  BY <1>1 DEF Die, Running

-----------------------------------------------------------------------------
(* The initial state *)

LEMMA InitInv == Init => Inv
<1> SUFFICES ASSUME Init PROVE Inv
  OBVIOUS
<1>1. Typed
  BY Bounds DEF Init, Typed, HookRow, LogRow, NoRow, AttemptStep
<1>2. OkIsAccepted /\ DeliveredWasWritten /\ NotMade /\ BodyOrAccepted
  BY DeliveryIs DEF Init, OkIsAccepted, DeliveredWasWritten, NotMade, BodyOrAccepted, NoRow, Logged
<1>3. InTurn
  <2>1. ASSUME NEW d \in Delivery PROVE Made(d) = 1 .. 0
    BY DEF Init, Made
  <2> QED
    BY <2>1 DEF InTurn
<1>4. ResendsNumbered /\ RowsAndJobs
  BY DeliveryIs DEF Init, ResendsNumbered, Resent, RowsAndJobs, NoRow, Logged, HasRow
<1>5. SequenceHasNoHoles
  BY DEF Init, SequenceHasNoHoles, HasRow
<1>6. \A d \in Delivery : Made(d) = {} /\ Running(d) = {} /\ ~Logged(d) /\ d \notin accepted
  BY DEF Init, Made, Running, Logged, NoRow
<1>7. TriedHasJob /\ Alone /\ InLine
  BY <1>6 DEF TriedHasJob, Alone, InLine, Original
<1> QED
  BY <1>1, <1>2, <1>3, <1>4, <1>5, <1>7 DEF Inv

-----------------------------------------------------------------------------
(* Every step keeps the types *)

LEMMA TypedStep ==
  ASSUME Typed, ResendsNumbered, RowsAndJobs, Next
  PROVE  Typed'
<1>1. ASSUME NEW h \in Hooks, CreateHook(h) \/ Toggle(h) \/ DiscardLane(h) \/ DeleteHook(h) PROVE Typed'
  <2>1. CASE CreateHook(h)
    BY <2>1 DEF CreateHook, Typed, queue, HookRow
  <2>2. CASE Toggle(h)
    BY <2>2 DEF Toggle, Typed, queue, HookRow
  <2>3. CASE DiscardLane(h)
    <3>1. job' \in [Delivery -> {"none", "queued", "done", "discarded"}]
      BY <2>3 DEF DiscardLane, Typed
    <3> QED
      BY <2>3, <3>1 DEF DiscardLane, Typed, HookRow
  <2>4. CASE DeleteHook(h)
    <3>1. log' \in [Delivery -> LogRow]
      BY <2>4 DEF DeleteHook, Typed, NoRow, LogRow
    <3> QED
      BY <2>4, <3>1 DEF DeleteHook, Typed, HookRow
  <2> QED
    BY <1>1, <2>1, <2>2, <2>3, <2>4
<1>2. ASSUME NEW e \in Event, RunFanOut(e) \/ LateFanOut(e) PROVE Typed'
  <2>1. /\ fan' \in [Event -> {"queued", "done", "discarded"}]
        /\ UNCHANGED <<try, accepted>>
        /\ overlaps' \in 0 .. MaxOverlaps /\ faults' \in 0 .. MaxFaults
    <3>1. CASE RunFanOut(e)
      BY <3>1, Bounds DEF RunFanOut, Fault, Typed
    <3>2. CASE LateFanOut(e)
      BY <3>2, Bounds DEF LateFanOut, Overlap, Typed
    <3> QED
      BY <1>2, <3>1, <3>2
  <2>2. FanOut(e) \/ UNCHANGED <<hook, log, job>>
    BY <1>2 DEF RunFanOut, LateFanOut
  <2>3. hook' \in [Hooks -> HookRow] /\ log' \in [Delivery -> LogRow]
        /\ job' \in [Delivery -> {"none", "queued", "done", "discarded"}]
    <3>1. CASE FanOut(e)
      <4>1. hook' \in [Hooks -> HookRow]
        <5>1. ASSUME NEW h \in Hooks PROVE hook'[h] \in HookRow
          <6>1. hook[h] \in HookRow
            BY DEF Typed
          <6>2. [hook[h] EXCEPT !.sequence = @ + 1] \in HookRow
            BY <6>1 DEF HookRow
          <6> QED
            BY <3>1, <6>1, <6>2, FanOutStep
        <5> QED
          BY <3>1, <5>1 DEF FanOut
      <4>2. ASSUME NEW d \in Delivery
            PROVE  log'[d] \in LogRow /\ job'[d] \in {"none", "queued", "done", "discarded"}
        <5>1. hook[HookOf(d)].sequence + 1 \in Nat /\ Count + 1 \in Nat
          BY DeliveryIs, CountNat DEF Typed, HookRow
        <5>2. [state |-> "pending", body |-> TRUE,
               sequence |-> hook[HookOf(d)].sequence + 1, at |-> Count + 1] \in LogRow
          BY <5>1 DEF LogRow
        <5> QED
          BY <3>1, <5>2, FanOutStep DEF Typed
      <4>3. log' = [d \in Delivery |-> log'[d]] /\ job' = [d \in Delivery |-> job'[d]]
        BY <3>1, FanOutStep
      <4> QED
        BY <4>1, <4>2, <4>3
    <3> QED
      BY <2>2, <3>1 DEF Typed
  <2> QED
    BY <2>1, <2>3 DEF Typed
<1>3. ASSUME NEW d \in Delivery, NEW k \in Attempt, Tries(d, k) PROVE Typed'
  <2>1. PICK v \in Begun :
            /\ try' = Moved(d, k, v)
            /\ accepted' = accepted \/ accepted' = accepted \cup {d}
            /\ OnlySwitched /\ UNCHANGED <<fan, log, job>>
            /\ overlaps' \in 0 .. MaxOverlaps /\ faults' \in 0 .. MaxFaults
    BY <1>3, TryStep
  <2>2. v \in AttemptStep
    BY Steps
  <2>3. try' \in [Delivery -> [Attempt -> AttemptStep]]
    BY <2>1, <2>2, MovedStep
  <2> QED
    BY <2>1, <2>3 DEF Typed, OnlySwitched
<1>4. ASSUME NEW d \in Delivery, GiveUp(d) PROVE Typed'
  <2>1. overlaps' \in 0 .. MaxOverlaps
    BY <1>4, Bounds DEF GiveUp, Overlap, Typed
  <2> QED
    BY <1>4, <2>1 DEF GiveUp, Typed
<1>5. ASSUME NEW d \in Delivery, SweepLost(d) PROVE Typed'
  <2>1. [log[d] EXCEPT !.state = "dead"] \in LogRow
    BY DEF Typed, LogRow
  <2>2. log' \in [Delivery -> LogRow]
    BY <1>5, <2>1 DEF SweepLost, Typed
  <2> QED
    BY <1>5, <2>2 DEF SweepLost, Typed
<1>6. ASSUME NEW d \in Delivery, NEW k \in Attempt, Record(d, k) PROVE Typed'
  <2>1. try' \in [Delivery -> [Attempt -> AttemptStep]]
    BY <1>6, RecordStep, Steps, MovedStep
  <2>2. log' \in [Delivery -> LogRow]
    BY <1>6, RecordStep DEF Typed
  <2> QED
    BY <1>6, <2>1, <2>2, RecordStep DEF Typed, OnlySwitched
<1>7. ASSUME NEW d \in Delivery, NEW k \in Attempt, Outcome(d, k) \/ RecordFails(d, k) PROVE Typed'
  <2>1. try' \in [Delivery -> [Attempt -> AttemptStep]]
    BY <1>7, OutcomeStep, Steps, MovedStep
  <2> QED
    BY <1>7, <2>1, OutcomeStep DEF Typed
<1>8. ASSUME NEW d \in Delivery, NEW k \in Attempt, Die(d, k) PROVE Typed'
  <2>1. try' \in [Delivery -> [Attempt -> AttemptStep]]
    BY <1>8, DieStep, Steps, MovedStep
  <2> QED
    BY <1>8, <2>1, DieStep DEF Typed
<1>9. ASSUME NEW d \in Delivery, Redeliver(d) PROVE Typed'
  <2>1. PICK n \in Delivery :
            /\ log' = [log EXCEPT ![n] = [state |-> "pending", body |-> TRUE,
                                         sequence |-> log[d].sequence, at |-> Count + 1]]
            /\ job' = [job EXCEPT ![n] = "queued"]
    BY <1>9, RedeliverStep
  <2>2. [state |-> "pending", body |-> TRUE, sequence |-> log[d].sequence, at |-> Count + 1] \in LogRow
    BY CountNat DEF Typed, LogRow
  <2> QED
    BY <1>9, <2>1, <2>2 DEF Redeliver, Typed
<1> QED
  BY <1>1, <1>2, <1>3, <1>4, <1>5, <1>6, <1>7, <1>8, <1>9, Tried DEF Next

-----------------------------------------------------------------------------
(* Every step keeps what the attempts say *)

\* The next attempt is the first that was not made.
LEMMA NextIsFirst ==
  ASSUME InTurn, NEW d \in Delivery
  PROVE  \E n \in Nat : Made(d) = 1 .. n /\ Next1(d) = n + 1
<1>1. PICK n \in Nat : Made(d) = 1 .. n
  BY DEF InTurn
<1>2. Cardinality(1 .. n) = n
  BY FS_Interval
<1> QED
  BY <1>1, <1>2 DEF Next1

\* How an attempt moves: it begins in its turn, and goes from its verdict to
\* what it wrote to its end.
Forward ==
    /\ accepted \subseteq accepted'
    /\ \A d \in Delivery, k \in Attempt :
          /\ try'[d][k] = "ok" => try[d][k] = "ok" \/ d \in accepted'
          /\ try[d][k] # "idle" => try'[d][k] # "idle"
          /\ try[d][k] = "idle" /\ try'[d][k] # "idle" => k = Next1(d)
          /\ try[d][k] \in {"wrote_ok", "over"} => try'[d][k] \in {"wrote_ok", "over"}

LEMMA MovedForward ==
  ASSUME Typed, InTurn, NEW d \in Delivery, NEW k \in Attempt, NEW s \in AttemptStep,
         try' = Moved(d, k, s), s # "idle", accepted \subseteq accepted',
         s = "ok" => d \in accepted',
         \/ k = Next1(d)
         \/ try[d][k] \in Begun
         \/ s = "over" /\ try[d][k] # "idle"
  PROVE  Forward
<1>1. \A c \in Delivery, l \in Attempt : try'[c][l] = IF c = d /\ l = k THEN s ELSE try[c][l]
  BY MovedStep
<1>2. ASSUME k = Next1(d) PROVE try[d][k] = "idle"
  <2>1. PICK n \in Nat : Made(d) = 1 .. n /\ k = n + 1
    BY <1>2, NextIsFirst
  <2>2. k \notin Made(d)
    BY <2>1
  <2> QED
    BY <2>2 DEF Made
<1>3. {"wrote_ok", "over", "idle"} \cap Begun = {}
  BY Steps
<1>4. CASE k = Next1(d)
  BY <1>1, <1>2, <1>3, <1>4 DEF Forward
<1>5. CASE try[d][k] \in Begun
  BY <1>1, <1>3, <1>5 DEF Forward
<1>6. CASE s = "over" /\ try[d][k] # "idle"
  BY <1>1, <1>6 DEF Forward
<1> QED
  BY <1>4, <1>5, <1>6

LEMMA ForwardStep ==
  ASSUME Typed, InTurn, Next
  PROVE  Forward
<1>1. ASSUME UNCHANGED <<try, accepted>> PROVE Forward
  BY <1>1 DEF Forward
<1>2. ASSUME NEW h \in Hooks, CreateHook(h) \/ Toggle(h) \/ DiscardLane(h) \/ DeleteHook(h) PROVE Forward
  BY <1>1, <1>2 DEF CreateHook, Toggle, DiscardLane, DeleteHook, queue
<1>3. ASSUME NEW e \in Event, RunFanOut(e) \/ LateFanOut(e) PROVE Forward
  BY <1>1, <1>3 DEF RunFanOut, LateFanOut
<1>4. ASSUME NEW d \in Delivery, NEW k \in Attempt, Tries(d, k) PROVE Forward
  <2>1. PICK v \in Begun :
            /\ try' = Moved(d, k, v)
            /\ v = "ok" => d \in accepted'
            /\ accepted' = accepted \/ accepted' = accepted \cup {d}
            /\ k = Next1(d) \/ try[d][k] \in Begun
    BY <1>4, TryStep
  <2>2. v \in AttemptStep /\ v # "idle"
    BY Steps
  <2>3. accepted \subseteq accepted'
    BY <2>1
  <2> QED
    BY <2>1, <2>2, <2>3, MovedForward
<1>5. ASSUME NEW d \in Delivery, GiveUp(d) \/ SweepLost(d) \/ Redeliver(d) PROVE Forward
  BY <1>1, <1>5 DEF GiveUp, SweepLost, Redeliver
<1>6. ASSUME NEW d \in Delivery, NEW k \in Attempt, Record(d, k) PROVE Forward
  <2> DEFINE v == try[d][k]
  <2>1. v \in Verdicts /\ try' = Moved(d, k, WrittenUp[v]) /\ accepted' = accepted
    BY <1>6, RecordStep
  <2>2. WrittenUp[v] \in AttemptStep /\ WrittenUp[v] # "idle" /\ WrittenUp[v] # "ok"
    <3>1. "ok" \in Verdicts
      BY DEF Verdicts
    <3> QED
      BY <2>1, <3>1, Steps
  <2> QED
    BY <2>1, <2>2, Steps, MovedForward
<1>7. ASSUME NEW d \in Delivery, NEW k \in Attempt, Outcome(d, k) \/ RecordFails(d, k) \/ Die(d, k) PROVE Forward
  <2>1. try' = Moved(d, k, "over") /\ try[d][k] # "idle" /\ accepted' = accepted
    BY <1>7, OutcomeStep, DieStep
  <2> QED
    BY <2>1, Steps, MovedForward
<1> QED
  BY <1>2, <1>3, <1>4, <1>5, <1>6, <1>7, Tried DEF Next

LEMMA InTurnStep ==
  ASSUME Typed, InTurn, OkIsAccepted, Next
  PROVE  InTurn' /\ OkIsAccepted'
<1>1. Forward
  BY ForwardStep
<1>2. OkIsAccepted'
  BY <1>1 DEF Forward, OkIsAccepted
<1>3. ASSUME NEW d \in Delivery PROVE \E n \in Nat : Made(d)' = 1 .. n
  <2>1. PICK n \in Nat : Made(d) = 1 .. n /\ Next1(d) = n + 1
    BY NextIsFirst
  <2>2. Made(d) \subseteq Made(d)' /\ \A k \in Made(d)' \ Made(d) : k = n + 1
    BY <1>1, <2>1 DEF Forward, Made
  <2>3. CASE n + 1 \in Made(d)'
    <3>1. Made(d)' = (1 .. n) \cup {n + 1}
      BY <2>1, <2>2, <2>3
    <3>2. Made(d)' = 1 .. (n + 1)
      BY <3>1
    <3> QED
      BY <3>2
  <2>4. CASE n + 1 \notin Made(d)'
    BY <2>1, <2>2, <2>4
  <2> QED
    BY <2>3, <2>4
<1> QED
  BY <1>2, <1>3 DEF InTurn

-----------------------------------------------------------------------------
(* Every step keeps what the log says *)

\* What a step may do to a row: nothing, or take it away with its hook; add
\* one, with a body; write up a verdict; let the sweep make it dead.
RowMoves(d) ==
    \/ log'[d] = log[d]
    \/ log'[d].state = "none"
    \/ ~Logged(d) /\ log'[d].state = "pending" /\ log'[d].body
    \/ /\ log[d].state = "pending" /\ log'[d].state = "dead" /\ log'[d].body = log[d].body
    \/ \E k \in Attempt :
          /\ try[d][k] \in Verdicts /\ try'[d][k] = WrittenUp[try[d][k]]
          /\ log'[d].state = "delivered" <=> try[d][k] = "ok"
          /\ log'[d].body <=> try[d][k] # "ok" /\ log[d].body
          /\ Logged(d)

LEMMA RowStep ==
  ASSUME Typed, ResendsNumbered, RowsAndJobs, Next, NEW d \in Delivery
  PROVE  RowMoves(d)
<1>1. ASSUME NEW h \in Hooks, CreateHook(h) \/ Toggle(h) \/ DiscardLane(h) \/ DeleteHook(h) PROVE RowMoves(d)
  BY <1>1 DEF CreateHook, Toggle, DiscardLane, DeleteHook, queue, RowMoves, NoRow
<1>2. ASSUME NEW e \in Event, RunFanOut(e) \/ LateFanOut(e) PROVE RowMoves(d)
  <2>1. CASE FanOut(e)
    <3>1. CASE d[1] = e /\ d[3] = 0 /\ HookOf(d) \in Takers(e)
      <4>1. log'[d] = [state |-> "pending", body |-> TRUE,
                       sequence |-> hook[HookOf(d)].sequence + 1, at |-> Count + 1]
        BY <2>1, <3>1, FanOutStep
      <4>2. d = <<e, HookOf(d), 0>>
        BY <3>1, DeliveryIs DEF HookOf
      <4>3. ~Logged(d)
        BY <3>1, <4>2 DEF Takers
      <4> QED
        BY <4>1, <4>3 DEF RowMoves
    <3>2. CASE ~(d[1] = e /\ d[3] = 0 /\ HookOf(d) \in Takers(e))
      BY <2>1, <3>2, FanOutStep DEF RowMoves
    <3> QED
      BY <3>1, <3>2
  <2>2. CASE UNCHANGED <<hook, log, job>>
    BY <2>2 DEF RowMoves
  <2> QED
    BY <1>2, <2>1, <2>2 DEF RunFanOut, LateFanOut
<1>3. ASSUME NEW c \in Delivery, NEW k \in Attempt, Tries(c, k) PROVE RowMoves(d)
  BY <1>3, TryStep DEF RowMoves
<1>4. ASSUME NEW c \in Delivery, GiveUp(c) PROVE RowMoves(d)
  BY <1>4 DEF GiveUp, RowMoves
<1>5. ASSUME NEW c \in Delivery, SweepLost(c) PROVE RowMoves(d)
  <2>1. log[c] \in LogRow /\ log \in [Delivery -> LogRow]
    BY DEF Typed
  <2>2. log[c].state = "pending" /\ log' = [log EXCEPT ![c] = [log[c] EXCEPT !.state = "dead"]]
    BY <1>5 DEF SweepLost, IsLost
  <2>3. CASE c = d
    BY <2>1, <2>2, <2>3 DEF RowMoves, LogRow
  <2>4. CASE c # d
    BY <2>1, <2>2, <2>4 DEF RowMoves
  <2> QED
    BY <2>3, <2>4
<1>6. ASSUME NEW c \in Delivery, NEW k \in Attempt, Record(c, k) PROVE RowMoves(d)
  <2>1. /\ try[c][k] \in Verdicts /\ try' = Moved(c, k, WrittenUp[try[c][k]])
        /\ log' = IF Logged(c) THEN [log EXCEPT ![c] = RowAfter(c, try[c][k])] ELSE log
        /\ RowAfter(c, try[c][k]).state = "delivered" <=> try[c][k] = "ok"
        /\ RowAfter(c, try[c][k]).body <=> try[c][k] # "ok" /\ log[c].body
    BY <1>6, RecordStep
  <2>2. try'[c][k] = WrittenUp[try[c][k]]
    BY <2>1, Steps, MovedStep
  <2>3. CASE c = d /\ Logged(c)
    <3>1. log'[d] = RowAfter(c, try[c][k])
      BY <2>1, <2>3 DEF Typed
    <3> QED
      BY <2>1, <2>2, <2>3, <3>1 DEF RowMoves
  <2>4. CASE ~(c = d /\ Logged(c))
    BY <2>1, <2>4 DEF RowMoves, Typed
  <2> QED
    BY <2>3, <2>4
<1>7. ASSUME NEW c \in Delivery, NEW k \in Attempt, Outcome(c, k) \/ RecordFails(c, k) \/ Die(c, k)
      PROVE  RowMoves(d)
  BY <1>7, OutcomeStep, DieStep DEF RowMoves
<1>8. ASSUME NEW c \in Delivery, Redeliver(c) PROVE RowMoves(d)
  <2>1. PICK n \in Delivery :
            /\ ~Logged(n)
            /\ log' = [log EXCEPT ![n] = [state |-> "pending", body |-> TRUE,
                                         sequence |-> log[c].sequence, at |-> Count + 1]]
    BY <1>8, RedeliverStep
  <2> QED
    BY <2>1 DEF RowMoves, Typed
<1> QED
  BY <1>1, <1>2, <1>3, <1>4, <1>5, <1>6, <1>7, <1>8, Tried DEF Next

LEMMA WrittenStep ==
  ASSUME Typed, InTurn, ResendsNumbered, RowsAndJobs, OkIsAccepted, BodyOrAccepted, DeliveredWasWritten, Next
  PROVE  BodyOrAccepted' /\ DeliveredWasWritten'
<1>1. Forward /\ \A d \in Delivery : RowMoves(d)
  BY ForwardStep, RowStep
<1>2. ASSUME NEW d \in Delivery, Logged(d)', ~log'[d].body PROVE d \in accepted'
  <2>1. (Logged(d) /\ ~log[d].body) \/ \E k \in Attempt : try[d][k] = "ok"
    BY <1>1, <1>2 DEF RowMoves, Logged
  <2>2. d \in accepted
    BY <2>1 DEF BodyOrAccepted, OkIsAccepted
  <2> QED
    BY <1>1, <2>2 DEF Forward
<1>3. ASSUME NEW d \in Delivery, log'[d].state = "delivered"
      PROVE  \E k \in Attempt : try'[d][k] \in {"wrote_ok", "over"}
  <2>1. log[d].state = "delivered" \/ \E k \in Attempt : try'[d][k] = "wrote_ok"
    <3>1. "ok" \in Verdicts /\ WrittenUp["ok"] = "wrote_ok"
      BY DEF Verdicts, WrittenUp
    <3> QED
      BY <1>1, <1>3, <3>1 DEF RowMoves
  <2>2. ASSUME log[d].state = "delivered"
        PROVE  \E k \in Attempt : try'[d][k] \in {"wrote_ok", "over"}
    BY <1>1, <2>2 DEF DeliveredWasWritten, Forward
  <2> QED
    BY <2>1, <2>2
<1>4. BodyOrAccepted'
  BY <1>2 DEF BodyOrAccepted, Logged
<1> QED
  BY <1>3, <1>4 DEF DeliveredWasWritten

-----------------------------------------------------------------------------
(* Every step keeps the numbers *)

\* A step that makes no row and no job, and takes none away.
Quiet ==
    /\ \A h \in Hooks :
          /\ HasRow(h)' <=> HasRow(h)
          /\ hook'[h].life = "none" <=> hook[h].life = "none"
          /\ hook'[h].sequence = hook[h].sequence
    /\ \A d \in Delivery :
          /\ job'[d] = "none" <=> job[d] = "none"
          /\ log'[d].state = "none" <=> log[d].state = "none"
          /\ log'[d].sequence = log[d].sequence

\* The steps that do.
Makes ==
    \/ \E h \in Hooks : CreateHook(h) \/ DeleteHook(h)
    \/ \E e \in Event : FanOut(e)
    \/ \E d \in Delivery : Redeliver(d)

LEMMA QuietStep ==
  ASSUME Typed, Next
  PROVE  Quiet \/ (Makes /\ UNCHANGED try)
<1>1. ASSUME UNCHANGED <<hook, log, job>> PROVE Quiet
  BY <1>1 DEF Quiet, HasRow
<1>2. ASSUME NEW h \in Hooks, Toggle(h) PROVE Quiet
  BY <1>2 DEF Toggle, queue, Quiet, Typed, HookRow, HasRow
<1>3. ASSUME NEW h \in Hooks, DiscardLane(h) PROVE Quiet
  <2>1. \A g \in Hooks : /\ HasRow(g)' <=> HasRow(g)
                         /\ hook'[g].life = "none" <=> hook[g].life = "none"
                         /\ hook'[g].sequence = hook[g].sequence
    BY <1>3 DEF DiscardLane, Typed, HookRow, HasRow
  <2>2. UNCHANGED log /\ \A d \in Delivery : job'[d] = "none" <=> job[d] = "none"
    BY <1>3 DEF DiscardLane
  <2> QED
    BY <2>1, <2>2 DEF Quiet
<1>4. ASSUME NEW e \in Event, RunFanOut(e) \/ LateFanOut(e)
      PROVE  Quiet \/ (Makes /\ UNCHANGED try)
  BY <1>1, <1>4 DEF RunFanOut, LateFanOut, Makes
<1>5. ASSUME NEW d \in Delivery, NEW k \in Attempt, Tries(d, k) PROVE Quiet
  <2>1. OnlySwitched /\ UNCHANGED <<log, job>>
    BY <1>5, TryStep
  <2> QED
    BY <2>1 DEF OnlySwitched, Quiet, HasRow
<1>6. ASSUME NEW d \in Delivery, GiveUp(d) PROVE Quiet
  BY <1>6 DEF GiveUp, Quiet, Typed, HasRow
<1>7. ASSUME NEW d \in Delivery, SweepLost(d) PROVE Quiet
  <2>1. log[d] \in LogRow /\ log \in [Delivery -> LogRow] /\ UNCHANGED <<hook, job>>
    BY <1>7 DEF SweepLost, Typed
  <2>2. log[d].state = "pending" /\ log' = [log EXCEPT ![d] = [log[d] EXCEPT !.state = "dead"]]
    BY <1>7 DEF SweepLost, IsLost
  <2> QED
    BY <2>1, <2>2 DEF Quiet, LogRow, HasRow
<1>8. ASSUME NEW d \in Delivery, NEW k \in Attempt, Record(d, k) PROVE Quiet
  <2>1. /\ log' = IF Logged(d) THEN [log EXCEPT ![d] = RowAfter(d, try[d][k])] ELSE log
        /\ RowAfter(d, try[d][k]).sequence = log[d].sequence
        /\ RowAfter(d, try[d][k]).state # "none"
        /\ OnlySwitched /\ UNCHANGED job
    BY <1>8, RecordStep
  <2>2. log \in [Delivery -> LogRow]
    BY DEF Typed
  <2> QED
    BY <2>1, <2>2 DEF OnlySwitched, Quiet, HasRow, Logged
<1>9. ASSUME NEW d \in Delivery, NEW k \in Attempt, Outcome(d, k) \/ RecordFails(d, k) PROVE Quiet
  BY <1>9, OutcomeStep DEF Quiet, HasRow
<1>10. ASSUME NEW d \in Delivery, NEW k \in Attempt, Die(d, k) PROVE Quiet
  BY <1>1, <1>10, DieStep
<1>11. ASSUME NEW h \in Hooks, CreateHook(h) \/ DeleteHook(h) PROVE Makes /\ UNCHANGED try
  BY <1>11 DEF CreateHook, DeleteHook, queue, Makes
<1>12. ASSUME NEW d \in Delivery, Redeliver(d) PROVE Makes /\ UNCHANGED try
  BY <1>12 DEF Redeliver, Makes
<1> QED
  BY <1>2, <1>3, <1>4, <1>5, <1>6, <1>7, <1>8, <1>9, <1>10, <1>11, <1>12, Tried DEF Next

\* The deliveries of a hook's events that were not sent again.
First(h) == {d \in Delivery : HookOf(d) = h /\ d[3] = 0 /\ Logged(d)}

LEMMA FirstFinite ==
  ASSUME NEW h
  PROVE  IsFiniteSet(First(h)) /\ Cardinality(First(h)) \in Nat
<1>1. First(h) \in SUBSET Delivery
  BY DEF First
<1> QED
  BY <1>1, DeliveryFinite

\* A hook whose first rows a step leaves alone keeps its numbers.
LEMMA SameNumbers ==
  ASSUME SequenceHasNoHoles, NEW h \in Hooks, HasRow(h), hook'[h].sequence = hook[h].sequence,
         \A d \in Delivery : HookOf(d) = h /\ d[3] = 0 =>
            /\ log'[d].state = "none" <=> log[d].state = "none"
            /\ log'[d].sequence = log[d].sequence
  PROVE  /\ {log'[d].sequence : d \in First(h)'} = 1 .. hook'[h].sequence
         /\ Cardinality(First(h)') = hook'[h].sequence
<1>1. First(h)' = First(h)
  BY DEF First, Logged
<1>2. /\ {log[d].sequence : d \in First(h)} = 1 .. hook[h].sequence
      /\ Cardinality(First(h)) = hook[h].sequence
  BY DEF SequenceHasNoHoles, First
<1>3. \A d \in First(h) : log'[d].sequence = log[d].sequence
  BY DEF First
<1>4. {log'[d].sequence : d \in First(h)} = {log[d].sequence : d \in First(h)}
  BY <1>3
<1> QED
  BY <1>1, <1>2, <1>4

\* The fan-out gives a hook one row and the next number.
LEMMA NextNumber ==
  ASSUME Typed, SequenceHasNoHoles, NEW e \in Event, FanOut(e), NEW h \in Takers(e)
  PROVE  /\ {log'[d].sequence : d \in First(h)'} = 1 .. hook'[h].sequence
         /\ Cardinality(First(h)') = hook'[h].sequence
<1> DEFINE n == <<e, h, 0>>
           q == hook[h].sequence
<1>1. h \in Hooks /\ HasRow(h) /\ ~Logged(n)
  BY DEF Takers, Enabled
<1>2. n \in Delivery /\ HookOf(n) = h /\ n[1] = e /\ n[3] = 0
  BY <1>1, Bounds, DeliveryIs
<1>3. /\ {log[d].sequence : d \in First(h)} = 1 .. q
      /\ Cardinality(First(h)) = q
  BY <1>1 DEF SequenceHasNoHoles, First
<1>4. q \in Nat /\ hook'[h].sequence = q + 1
  BY <1>1, FanOutStep DEF Typed, HookRow
<1>5. log'[n].sequence = q + 1 /\ log'[n].state = "pending"
  <2> HIDE DEF n, q
  <2>1. log'[n] = [state |-> "pending", body |-> TRUE,
                   sequence |-> hook[HookOf(n)].sequence + 1, at |-> Count + 1]
    BY <1>2, FanOutStep
  <2> QED
    BY <1>2, <2>1 DEF q
<1>6. ASSUME NEW d \in Delivery, HookOf(d) = h, d[3] = 0, d # n PROVE log'[d] = log[d]
  <2>1. d[1] # e
    BY <1>6, DeliveryIs DEF HookOf
  <2> QED
    BY <2>1, FanOutStep
<1>7. First(h)' = First(h) \cup {n} /\ n \notin First(h)
  BY <1>1, <1>2, <1>5, <1>6 DEF First, Logged
<1>8. Cardinality(First(h)') = q + 1
  BY <1>3, <1>7, FirstFinite, FS_AddElement
<1>9. \A d \in First(h) : log'[d].sequence = log[d].sequence
  BY <1>6, <1>7 DEF First
<1>10. {log'[d].sequence : d \in First(h)'} = (1 .. q) \cup {q + 1}
  <2>1. {log'[d].sequence : d \in First(h)} = 1 .. q
    BY <1>3, <1>9
  <2> QED
    BY <1>5, <1>7, <2>1
<1>11. (1 .. q) \cup {q + 1} = 1 .. (q + 1)
  BY <1>4
<1> QED
  BY <1>4, <1>8, <1>10, <1>11

LEMMA RowsStep ==
  ASSUME Typed, ResendsNumbered, RowsAndJobs, NotMade, Next
  PROVE  RowsAndJobs' /\ NotMade'
<1>1. \A d \in Delivery : HookOf(d) \in Hooks
  BY DeliveryIs
<1>2. CASE Quiet
  BY <1>1, <1>2 DEF Quiet, RowsAndJobs, NotMade, Logged
<1>3. ASSUME NEW h \in Hooks, CreateHook(h) PROVE RowsAndJobs' /\ NotMade'
  <2>1. hook[h].life = "none" /\ UNCHANGED <<log, job>>
    BY <1>3 DEF CreateHook, queue
  <2>2. \A g \in Hooks : /\ g # h => hook'[g] = hook[g]
                         /\ hook'[h].life = "made"
    BY <1>3 DEF CreateHook, Typed, HookRow
  <2>3. NotMade'
    BY <2>2 DEF NotMade
  <2>4. RowsAndJobs'
    BY <1>1, <2>1, <2>2 DEF RowsAndJobs, HasRow, Logged
  <2> QED
    BY <2>3, <2>4
<1>4. ASSUME NEW h \in Hooks, DeleteHook(h) PROVE RowsAndJobs' /\ NotMade'
  <2>1. \A g \in Hooks : (g # h => hook'[g] = hook[g]) /\ hook'[h].life = "gone"
    BY <1>4 DEF DeleteHook, Typed, HookRow
  <2>2. UNCHANGED job /\ \A d \in Delivery : log'[d] = IF HookOf(d) = h THEN NoRow ELSE log[d]
    BY <1>4 DEF DeleteHook
  <2>3. NotMade'
    BY <2>1 DEF NotMade
  <2>4. RowsAndJobs'
    BY <1>1, <2>1, <2>2 DEF RowsAndJobs, HasRow, Logged, NoRow
  <2> QED
    BY <2>3, <2>4
<1>5. ASSUME NEW e \in Event, FanOut(e) PROVE RowsAndJobs' /\ NotMade'
  <2>1. \A h \in Hooks : hook'[h].life = hook[h].life /\ (h \notin Takers(e) => hook'[h] = hook[h])
    BY <1>5, FanOutStep DEF Typed, HookRow
  <2>2. \A h \in Takers(e) : hook[h].life # "none"
    BY DEF Takers, Enabled, HasRow
  <2>3. ASSUME NEW d \in Delivery
        PROVE  \/ log'[d] = log[d] /\ job'[d] = job[d]
               \/ HookOf(d) \in Takers(e) /\ job'[d] = "queued" /\ log'[d].state = "pending"
    <3>1. CASE d[1] = e /\ d[3] = 0 /\ HookOf(d) \in Takers(e)
      <4>1. /\ log'[d] = [state |-> "pending", body |-> TRUE,
                          sequence |-> hook[HookOf(d)].sequence + 1, at |-> Count + 1]
            /\ job'[d] = "queued"
        BY <1>5, <3>1, FanOutStep
      <4> QED
        BY <3>1, <4>1
    <3>2. CASE ~(d[1] = e /\ d[3] = 0 /\ HookOf(d) \in Takers(e))
      BY <1>5, <3>2, FanOutStep
    <3> QED
      BY <3>1, <3>2
  <2>4. NotMade'
    BY <2>1, <2>2 DEF NotMade
  <2>5. RowsAndJobs'
    BY <1>1, <2>1, <2>2, <2>3 DEF RowsAndJobs, HasRow, Logged
  <2> QED
    BY <2>4, <2>5
<1>6. ASSUME NEW d \in Delivery, Redeliver(d) PROVE RowsAndJobs' /\ NotMade'
  <2>1. PICK n \in Delivery :
            /\ HookOf(n) = HookOf(d)
            /\ log' = [log EXCEPT ![n] = [state |-> "pending", body |-> TRUE,
                                         sequence |-> log[d].sequence, at |-> Count + 1]]
            /\ job' = [job EXCEPT ![n] = "queued"]
    BY <1>6, RedeliverStep
  <2>2. UNCHANGED hook /\ hook[HookOf(n)].life # "none"
    BY <1>6, <2>1 DEF Redeliver, Enabled, HasRow
  <2>3. \A x \in Delivery :
           /\ x # n => log'[x] = log[x] /\ job'[x] = job[x]
           /\ log'[n].state = "pending" /\ job'[n] = "queued"
    BY <2>1 DEF Typed
  <2>4. NotMade'
    BY <2>2 DEF NotMade
  <2>5. RowsAndJobs'
    BY <2>2, <2>3 DEF RowsAndJobs, HasRow, Logged
  <2> QED
    BY <2>4, <2>5
<1> QED
  BY <1>2, <1>3, <1>4, <1>5, <1>6, QuietStep DEF Makes

LEMMA ResendsStep ==
  ASSUME Typed, ResendsNumbered, RowsAndJobs, Next
  PROVE  ResendsNumbered'
<1>1. ASSUME \A d \in Delivery : d[3] > 0 => (job'[d] = "none" <=> job[d] = "none")
      PROVE  ResendsNumbered'
  <2>1. Resent' = Resent
    BY <1>1 DEF Resent
  <2> QED
    BY <2>1 DEF ResendsNumbered
<1>2. CASE Quiet
  BY <1>1, <1>2 DEF Quiet
<1>3. ASSUME NEW h \in Hooks, CreateHook(h) \/ DeleteHook(h) PROVE ResendsNumbered'
  BY <1>1, <1>3 DEF CreateHook, DeleteHook, queue
<1>4. ASSUME NEW e \in Event, FanOut(e) PROVE ResendsNumbered'
  <2>1. ASSUME NEW d \in Delivery, d[3] > 0 PROVE job'[d] = job[d]
    <3>1. d[3] # 0
      BY <2>1
    <3> QED
      BY <1>4, <3>1, FanOutStep
  <2> QED
    BY <1>1, <2>1
<1>5. ASSUME NEW d \in Delivery, Redeliver(d) PROVE ResendsNumbered'
  <2>1. PICK n \in Delivery :
            /\ n[3] = Cardinality(Resent) + 1 /\ job[n] = "none"
            /\ job' = [job EXCEPT ![n] = "queued"]
    BY <1>5, RedeliverStep
  <2>2. IsFiniteSet(Resent) /\ Cardinality(Resent) \in Nat
    BY DeliveryFinite DEF Resent
  <2>3. Resent' = Resent \cup {n} /\ n \notin Resent
    BY <2>1, <2>2 DEF Resent, Typed
  <2>4. Cardinality(Resent') = Cardinality(Resent) + 1
    BY <2>2, <2>3, FS_AddElement
  <2>5. \A x \in Resent : x[3] \in Nat /\ x[3] <= Cardinality(Resent)
    BY DeliveryIs DEF ResendsNumbered, Resent
  <2> QED
    BY <2>1, <2>2, <2>3, <2>4, <2>5 DEF ResendsNumbered
<1> QED
  BY <1>2, <1>3, <1>4, <1>5, QuietStep DEF Makes

LEMMA NumbersStep ==
  ASSUME Typed, ResendsNumbered, RowsAndJobs, NotMade, SequenceHasNoHoles, Next
  PROVE  SequenceHasNoHoles'
<1>1. SUFFICES ASSUME NEW g \in Hooks, HasRow(g)'
               PROVE  /\ {log'[d].sequence : d \in First(g)'} = 1 .. hook'[g].sequence
                      /\ Cardinality(First(g)') = hook'[g].sequence
  BY DEF SequenceHasNoHoles, First
<1> DEFINE Goal == /\ {log'[d].sequence : d \in First(g)'} = 1 .. hook'[g].sequence
                   /\ Cardinality(First(g)') = hook'[g].sequence
<1> HIDE DEF Goal
<1>2. CASE Quiet
  BY <1>1, <1>2, SameNumbers DEF Quiet, Goal
<1>3. ASSUME NEW h \in Hooks, CreateHook(h) PROVE Goal
  <2>1. hook[h].life = "none" /\ UNCHANGED <<log, job>>
    BY <1>3 DEF CreateHook, queue
  <2>2. \A f \in Hooks : (f # h => hook'[f] = hook[f]) /\ hook'[f].sequence = hook[f].sequence
    BY <1>3 DEF CreateHook, Typed, HookRow
  <2>3. CASE g = h
    <3>1. First(g)' = {}
      BY <2>1, <2>3 DEF First, Logged, RowsAndJobs
    <3>2. hook'[g].sequence = 0
      BY <2>1, <2>2, <2>3 DEF NotMade
    <3>3. 1 .. 0 = {} /\ Cardinality({}) = 0
      BY FS_EmptySet
    <3> QED
      BY <3>1, <3>2, <3>3 DEF Goal
  <2>4. CASE g # h
    BY <1>1, <2>1, <2>2, <2>4, SameNumbers DEF Goal, HasRow
  <2> QED
    BY <2>3, <2>4
<1>4. ASSUME NEW h \in Hooks, DeleteHook(h) PROVE Goal
  <2>1. \A f \in Hooks : (f # h => hook'[f] = hook[f]) /\ hook'[h].life = "gone"
    BY <1>4 DEF DeleteHook, Typed, HookRow
  <2>2. \A d \in Delivery : HookOf(d) # h => log'[d] = log[d]
    BY <1>4 DEF DeleteHook
  <2>3. g # h
    BY <1>1, <2>1 DEF HasRow
  <2> QED
    BY <1>1, <2>1, <2>2, <2>3, SameNumbers DEF Goal, HasRow
<1>5. ASSUME NEW e \in Event, FanOut(e) PROVE Goal
  <2>1. CASE g \in Takers(e)
    BY <1>5, <2>1, NextNumber DEF Goal
  <2>2. CASE g \notin Takers(e)
    <3>1. hook'[g] = hook[g] /\ HasRow(g)
      BY <1>1, <1>5, <2>2, FanOutStep DEF HasRow
    <3>2. \A d \in Delivery : HookOf(d) = g => log'[d] = log[d]
      BY <1>5, <2>2, FanOutStep
    <3> QED
      BY <3>1, <3>2, SameNumbers DEF Goal
  <2> QED
    BY <2>1, <2>2
<1>6. ASSUME NEW d \in Delivery, Redeliver(d) PROVE Goal
  <2>1. PICK n \in Delivery :
            /\ n[3] = Cardinality(Resent) + 1
            /\ log' = [log EXCEPT ![n] = [state |-> "pending", body |-> TRUE,
                                         sequence |-> log[d].sequence, at |-> Count + 1]]
    BY <1>6, RedeliverStep
  <2>2. n[3] # 0
    BY <2>1, DeliveryFinite DEF Resent
  <2>3. \A x \in Delivery : x[3] = 0 => log'[x] = log[x]
    BY <2>1, <2>2 DEF Typed
  <2>4. UNCHANGED hook /\ HasRow(g)
    BY <1>1, <1>6 DEF Redeliver, HasRow
  <2> QED
    BY <2>3, <2>4, SameNumbers DEF Goal
<1> QED
  BY <1>2, <1>3, <1>4, <1>5, <1>6, QuietStep DEF Makes, Goal

-----------------------------------------------------------------------------
(* Every step keeps the order of the lane *)

\* An attempt is begun by a lease, and only a new job is queued.
LEMMA LaneMoves ==
  ASSUME Typed, ResendsNumbered, RowsAndJobs, Next, NEW d \in Delivery
  PROVE  /\ job'[d] = "queued" => job[d] \in {"queued", "none"} \/ ~Logged(d)
         /\ Made(d)' # {} => Made(d) # {} \/ (Lease(d) /\ UNCHANGED job)
         /\ Made(d) # {} => Made(d)' # {}
<1>1. ASSUME UNCHANGED try PROVE Made(d)' = Made(d)
  BY <1>1 DEF Made
<1>2. ASSUME NEW h \in Hooks, CreateHook(h) \/ Toggle(h) \/ DiscardLane(h) \/ DeleteHook(h)
      PROVE  UNCHANGED try /\ (job'[d] = "queued" => job[d] = "queued")
  BY <1>2 DEF CreateHook, Toggle, DiscardLane, DeleteHook, queue
<1>3. ASSUME NEW e \in Event, RunFanOut(e) \/ LateFanOut(e)
      PROVE  UNCHANGED try /\ (job'[d] = "queued" => job[d] = "queued" \/ ~Logged(d))
  <2>1. UNCHANGED try /\ (FanOut(e) \/ UNCHANGED job)
    BY <1>3 DEF RunFanOut, LateFanOut
  <2>2. ASSUME FanOut(e), d[1] = e, d[3] = 0, HookOf(d) \in Takers(e) PROVE ~Logged(d)
    <3>1. d = <<e, HookOf(d), 0>>
      BY <2>2, DeliveryIs DEF HookOf
    <3> QED
      BY <2>2, <3>1 DEF Takers
  <2>3. FanOut(e) => job'[d] = job[d] \/ ~Logged(d)
    BY <2>2, FanOutStep
  <2> QED
    BY <2>1, <2>3
<1>4. ASSUME NEW c \in Delivery, GiveUp(c) \/ SweepLost(c) \/ Redeliver(c)
      PROVE  UNCHANGED try /\ (job'[d] = "queued" => job[d] \in {"queued", "none"})
  <2>1. CASE GiveUp(c) \/ SweepLost(c)
    BY <2>1 DEF GiveUp, SweepLost, Typed
  <2>2. CASE Redeliver(c)
    <3>1. PICK n \in Delivery : job[n] = "none" /\ job' = [job EXCEPT ![n] = "queued"]
      BY <2>2, RedeliverStep
    <3> QED
      BY <2>2, <3>1 DEF Redeliver, Typed
  <2> QED
    BY <1>4, <2>1, <2>2
<1>5. ASSUME NEW c \in Delivery, NEW k \in Attempt, NEW v \in AttemptStep,
             try' = Moved(c, k, v), v # "idle", try[c][k] # "idle"
      PROVE  Made(d)' = Made(d)
  BY <1>5, MovedStep DEF Made
<1>6. ASSUME NEW c \in Delivery, NEW k \in Attempt, Tries(c, k)
      PROVE  /\ UNCHANGED job
             /\ Made(d)' # {} => Made(d) # {} \/ Lease(d)
             /\ Made(d) # {} => Made(d)' # {}
  <2>1. PICK v \in Begun : try' = Moved(c, k, v) /\ UNCHANGED job
    BY <1>6, TryStep
  <2>2. v \in AttemptStep /\ v # "idle"
    BY Steps
  <2>3. \A b \in Delivery, l \in Attempt : try'[b][l] = IF b = c /\ l = k THEN v ELSE try[b][l]
    BY <2>1, <2>2, MovedStep
  <2>4. Made(d) # {} => Made(d)' # {}
    BY <2>2, <2>3 DEF Made
  <2>5. Lease(c) \/ try[c][k] # "idle"
    BY <1>6 DEF Tries, ReadHook, Answer
  <2>6. d # c => Made(d)' = Made(d)
    BY <2>3 DEF Made
  <2>7. try[c][k] # "idle" => Made(c) # {}
    BY DEF Made
  <2> QED
    BY <2>1, <2>4, <2>5, <2>6, <2>7
<1>7. ASSUME NEW c \in Delivery, NEW k \in Attempt, Record(c, k)
      PROVE  UNCHANGED job /\ Made(d)' = Made(d)
  BY <1>5, <1>7, RecordStep, Steps
<1>8. ASSUME NEW c \in Delivery, NEW k \in Attempt, Outcome(c, k) \/ RecordFails(c, k) \/ Die(c, k)
      PROVE  (job'[d] = "queued" => job[d] = "queued") /\ Made(d)' = Made(d)
  BY <1>5, <1>8, OutcomeStep, DieStep, Steps
<1> QED
  BY <1>1, <1>2, <1>3, <1>4, <1>6, <1>7, <1>8, Tried DEF Next

\* A delivery is accepted while an attempt of it is being sent.
LEMMA AcceptedStep ==
  ASSUME Typed, Next, NEW d \in accepted'
  PROVE  d \in accepted \/ \E k \in Attempt : try[d][k] = "sending"
<1>1. ASSUME NEW c \in Delivery, NEW k \in Attempt, Tries(c, k)
      PROVE  accepted' = accepted \/ (accepted' = accepted \cup {c} /\ try[c][k] = "sending")
  BY <1>1, TryStep
<1>2. ASSUME NEW c \in Delivery, NEW k \in Attempt,
             Record(c, k) \/ Outcome(c, k) \/ RecordFails(c, k) \/ Die(c, k)
      PROVE  accepted' = accepted
  BY <1>2 DEF Record, Outcome, RecordFails, Die
<1>3. ASSUME NEW c \in Delivery, GiveUp(c) \/ SweepLost(c) \/ Redeliver(c) PROVE accepted' = accepted
  BY <1>3 DEF GiveUp, SweepLost, Redeliver
<1>4. ASSUME NEW e \in Event, RunFanOut(e) \/ LateFanOut(e) PROVE accepted' = accepted
  BY <1>4 DEF RunFanOut, LateFanOut
<1>5. ASSUME NEW h \in Hooks, CreateHook(h) \/ Toggle(h) \/ DiscardLane(h) \/ DeleteHook(h)
      PROVE  accepted' = accepted
  BY <1>5 DEF CreateHook, Toggle, DiscardLane, DeleteHook, queue
<1>6. accepted' = accepted \/ \E c \in Delivery, k \in Attempt : accepted' = accepted \cup {c} /\ try[c][k] = "sending"
  BY <1>1, <1>2, <1>3, <1>4, <1>5, Tried DEF Next
<1> QED
  BY <1>6

LEMMA TriedHasJobStep ==
  ASSUME Typed, ResendsNumbered, RowsAndJobs, TriedHasJob, Next
  PROVE  TriedHasJob'
<1>1. ASSUME NEW d \in Delivery, Made(d)' # {} PROVE job'[d] # "none"
  <2>1. job[d] # "none"
    BY <1>1, LaneMoves DEF TriedHasJob, Lease
  <2>2. CASE Quiet
    BY <2>1, <2>2 DEF Quiet
  <2>3. ASSUME NEW h \in Hooks, CreateHook(h) \/ DeleteHook(h) PROVE job' = job
    BY <2>3 DEF CreateHook, DeleteHook, queue
  <2>4. ASSUME NEW e \in Event, FanOut(e) PROVE job'[d] \in {"queued", job[d]}
    BY <2>4, FanOutStep
  <2>5. ASSUME NEW c \in Delivery, Redeliver(c) PROVE job'[d] \in {"queued", job[d]}
    BY <2>5, RedeliverStep DEF Typed
  <2> QED
    BY <2>1, <2>2, <2>3, <2>4, <2>5, QuietStep DEF Makes
<1>2. ASSUME NEW d \in Delivery, d \in accepted' PROVE Made(d)' # {}
  <2>1. d \in accepted \/ \E k \in Attempt : try[d][k] = "sending"
    BY <1>2, AcceptedStep
  <2>2. Made(d) # {}
    BY <2>1 DEF TriedHasJob, Made
  <2> QED
    BY <2>2, LaneMoves
<1> QED
  BY <1>1, <1>2 DEF TriedHasJob

LEMMA AloneStep ==
  ASSUME Typed, ResendsNumbered, RowsAndJobs, Alone, Next
  PROVE  Alone'
<1> SUFFICES ASSUME overlaps' = MaxOverlaps, NEW d \in Delivery, NEW k \in Running(d)'
             PROVE  job'[d] = "queued" /\ Running(d)' = {k}
  BY DEF Alone
<1> DEFINE Goal == job'[d] = "queued" /\ Running(d)' = {k}
<1> HIDE DEF Goal
<1>1. overlaps' # overlaps - 1 /\ ~Overlap
  BY Bounds DEF Typed, Overlap
<1>2. ASSUME UNCHANGED overlaps, Running(d)' = Running(d), job'[d] \in {"queued", job[d]} PROVE Goal
  BY <1>2 DEF Alone, Goal
<1>3. ASSUME UNCHANGED try PROVE Running(d)' = Running(d)
  BY <1>3 DEF Running
<1>4. ASSUME NEW h \in Hooks, CreateHook(h) \/ Toggle(h) \/ DeleteHook(h) PROVE Goal
  BY <1>2, <1>3, <1>4 DEF CreateHook, Toggle, DeleteHook, queue
<1>5. ASSUME NEW h \in Hooks, DiscardLane(h) PROVE Goal
  <2>1. UNCHANGED <<try, overlaps>> /\ Running(d)' = Running(d)
    BY <1>3, <1>5 DEF DiscardLane
  <2>2. k \in Attempt /\ try[d][k] \notin {"idle", "over"}
    BY <2>1 DEF Running
  <2>3. job'[d] = job[d]
    BY <1>5, <2>2 DEF DiscardLane
  <2> QED
    BY <1>2, <2>1, <2>3
<1>6. ASSUME NEW e \in Event, RunFanOut(e) \/ LateFanOut(e) PROVE Goal
  <2>1. UNCHANGED <<try, overlaps>> /\ (FanOut(e) \/ UNCHANGED job)
    BY <1>1, <1>6 DEF RunFanOut, LateFanOut
  <2>2. job'[d] \in {"queued", job[d]}
    BY <2>1, FanOutStep
  <2> QED
    BY <1>2, <1>3, <2>1, <2>2
<1>7. ASSUME NEW c \in Delivery, GiveUp(c) PROVE Goal
  <2>1. Running(c) = {} /\ UNCHANGED <<try, overlaps>> /\ job' = [job EXCEPT ![c] = "discarded"]
    BY <1>1, <1>7 DEF GiveUp
  <2>2. Running(d)' = Running(d) /\ d # c
    BY <1>3, <2>1
  <2> QED
    BY <1>2, <2>1, <2>2
<1>8. ASSUME NEW c \in Delivery, SweepLost(c) \/ Redeliver(c) PROVE Goal
  <2>1. UNCHANGED <<try, overlaps>>
    BY <1>8 DEF SweepLost, Redeliver
  <2>2. job'[d] \in {"queued", job[d]}
    BY <1>8, RedeliverStep DEF SweepLost, Typed
  <2> QED
    BY <1>2, <1>3, <2>1, <2>2
<1>9. ASSUME NEW c \in Delivery, NEW l \in Attempt, Lease(c), l = Next1(c) PROVE Goal
  <2>1. /\ Running(c) = {} /\ job[c] = "queued" /\ UNCHANGED <<job, overlaps>>
        /\ try' = Moved(c, l, "leased")
    BY <1>1, <1>9 DEF Lease
  <2>2. "leased" \in AttemptStep
    BY DEF AttemptStep
  <2>3. \A b \in Delivery, m \in Attempt : try'[b][m] = IF b = c /\ m = l THEN "leased" ELSE try[b][m]
    BY <2>1, <2>2, MovedStep
  <2>4. CASE c = d
    <3>1. Running(d)' = Running(d) \cup {l}
      BY <2>3, <2>4 DEF Running
    <3> QED
      BY <2>1, <2>4, <3>1 DEF Goal
  <2>5. CASE c # d
    <3>1. Running(d)' = Running(d)
      BY <2>3, <2>5 DEF Running
    <3> QED
      BY <1>2, <2>1, <3>1
  <2> QED
    BY <2>4, <2>5
<1>10. ASSUME NEW c \in Delivery, NEW l \in Attempt, NEW v \in AttemptStep, try' = Moved(c, l, v),
              {v, try[c][l]} \cap {"idle", "over"} = {}
       PROVE  Running(d)' = Running(d)
  <2>1. \A b \in Delivery, m \in Attempt : try'[b][m] = IF b = c /\ m = l THEN v ELSE try[b][m]
    BY <1>10, MovedStep
  <2> QED
    BY <1>10, <2>1 DEF Running
<1>11. ASSUME NEW c \in Delivery, NEW l \in Attempt, ReadHook(c, l) \/ Answer(c, l) PROVE Goal
  <2>1. try[c][l] \in {"leased", "sending"} /\ UNCHANGED <<job, overlaps>>
    BY <1>11 DEF ReadHook, Answer
  <2>2. PICK v \in Begun : try' = Moved(c, l, v)
    BY <1>11, TryStep DEF Tries
  <2> QED
    BY <1>2, <1>10, <2>1, <2>2, Steps
<1>12. ASSUME NEW c \in Delivery, NEW l \in Attempt, Record(c, l) PROVE Goal
  <2>1. try[c][l] \in Verdicts /\ try' = Moved(c, l, WrittenUp[try[c][l]]) /\ UNCHANGED <<job, overlaps>>
    BY <1>12, RecordStep
  <2>2. WrittenUp[try[c][l]] \in AttemptStep /\ {WrittenUp[try[c][l]], try[c][l]} \cap {"idle", "over"} = {}
    BY <2>1, Steps
  <2> QED
    BY <1>2, <1>10, <2>1, <2>2
<1>13. ASSUME NEW c \in Delivery, NEW l \in Attempt, Outcome(c, l) \/ RecordFails(c, l) \/ Die(c, l) PROVE Goal
  <2>1. /\ try' = Moved(c, l, "over") /\ try[c][l] \notin {"idle", "over"} /\ UNCHANGED overlaps
        /\ c # d => job'[d] = job[d]
    BY <1>13, OutcomeStep, DieStep
  <2>2. \A b \in Delivery, m \in Attempt : try'[b][m] = IF b = c /\ m = l THEN "over" ELSE try[b][m]
    BY <2>1, Steps, MovedStep
  <2>3. CASE c = d
    <3>1. k \in Running(d) /\ k # l /\ l \in Running(d)
      BY <2>1, <2>2, <2>3 DEF Running
    <3>2. Running(d) = {l}
      BY <2>1, <3>1 DEF Alone
    <3> QED
      BY <3>1, <3>2
  <2>4. CASE c # d
    <3>1. Running(d)' = Running(d)
      BY <2>2, <2>4 DEF Running
    <3> QED
      BY <1>2, <2>1, <2>4, <3>1
  <2> QED
    BY <2>3, <2>4
<1>14. ASSUME NEW c \in Delivery, NEW l \in Attempt, Tries(c, l) PROVE Goal
  BY <1>9, <1>11, <1>14 DEF Tries
<1> QED
  BY <1>4, <1>5, <1>6, <1>7, <1>8, <1>12, <1>13, <1>14, Tried DEF Next, Goal

LEMMA InLineStep ==
  ASSUME Typed, ResendsNumbered, RowsAndJobs, SequenceHasNoHoles, TriedHasJob, InLine, Next
  PROVE  InLine'
<1> SUFFICES ASSUME NEW d \in Delivery, NEW e \in Delivery,
                    Original(d)', Original(e)', HookOf(d) = HookOf(e)
             PROVE  /\ log'[d].sequence = log'[e].sequence => d = e
                    /\ log'[d].sequence < log'[e].sequence /\ Made(e)' # {} => job'[d] # "queued"
  BY DEF InLine, HookOf
<1> DEFINE Goal == /\ log'[d].sequence = log'[e].sequence => d = e
                   /\ log'[d].sequence < log'[e].sequence /\ Made(e)' # {} => job'[d] # "queued"
<1> HIDE DEF Goal
<1>1. ASSUME Original(d), Original(e), log'[d].sequence = log[d].sequence, log'[e].sequence = log[e].sequence
      PROVE  Goal
  <2>1. log[d].sequence = log[e].sequence => d = e
    BY <1>1 DEF InLine
  <2>2. ASSUME log[d].sequence < log[e].sequence, Made(e) # {} PROVE job'[d] # "queued"
    <3>1. job[d] \notin {"queued", "none"} /\ Logged(d)
      BY <1>1, <2>2 DEF InLine, Original, RowsAndJobs
    <3> QED
      BY <3>1, LaneMoves
  <2>3. ASSUME log[d].sequence < log[e].sequence, Lease(e), UNCHANGED job PROVE job'[d] # "queued"
    <3>1. ~Ahead(d, e)
      BY <2>3 DEF Lease, HeadOfLane
    <3> QED
      BY <2>3, <3>1 DEF Ahead
  <2>4. Made(e)' # {} => Made(e) # {} \/ (Lease(e) /\ UNCHANGED job)
    BY LaneMoves
  <2> QED
    BY <1>1, <2>1, <2>2, <2>3, <2>4 DEF Goal
<1>2. CASE Quiet
  <2>1. log'[d].sequence = log[d].sequence /\ log'[e].sequence = log[e].sequence
    BY <1>2 DEF Quiet
  <2>2. Original(d) /\ Original(e)
    BY <1>2 DEF Quiet, Original, Logged
  <2> QED
    BY <1>1, <2>1, <2>2 DEF Goal
<1>3. ASSUME NEW h \in Hooks, CreateHook(h) PROVE Goal
  BY <1>1, <1>3 DEF CreateHook, queue, Original, Logged
<1>4. ASSUME NEW h \in Hooks, DeleteHook(h) PROVE Goal
  <2>1. \A x \in Delivery : log'[x] \in {NoRow, log[x]}
    BY <1>4 DEF DeleteHook
  <2> QED
    BY <1>1, <2>1 DEF Original, Logged, NoRow
<1>5. ASSUME NEW c \in Delivery, Redeliver(c) PROVE Goal
  <2>1. PICK n \in Delivery :
            /\ n[3] = Cardinality(Resent) + 1
            /\ log' = [log EXCEPT ![n] = [state |-> "pending", body |-> TRUE,
                                         sequence |-> log[c].sequence, at |-> Count + 1]]
    BY <1>5, RedeliverStep
  <2>2. n[3] # 0
    BY <2>1, DeliveryFinite DEF Resent
  <2>3. \A x \in Delivery : x[3] = 0 => log'[x] = log[x]
    BY <2>1, <2>2 DEF Typed
  <2> QED
    BY <1>1, <2>3 DEF Original, Logged
<1>6. ASSUME NEW f \in Event, FanOut(f), UNCHANGED try PROVE Goal
  <2> DEFINE h == HookOf(d)
             New(x) == x[1] = f /\ h \in Takers(f)
  <2>1. d[3] = 0 /\ e[3] = 0 /\ HookOf(e) = h
    BY DEF Original
  <2>2. ASSUME NEW x \in Delivery, x[3] = 0, HookOf(x) = h, ~New(x) PROVE log'[x] = log[x]
    BY <1>6, <2>2, FanOutStep
  <2>3. ASSUME NEW x \in Delivery, x[3] = 0, HookOf(x) = h, New(x)
        PROVE  /\ log'[x].sequence = hook[h].sequence + 1 /\ Made(x) = {}
               /\ x = <<f, h, 0>>
    <3>1. log'[x] = [state |-> "pending", body |-> TRUE,
                     sequence |-> hook[h].sequence + 1, at |-> Count + 1]
      BY <1>6, <2>3, FanOutStep
    <3>2. x = <<f, h, 0>>
      BY <2>3, DeliveryIs DEF HookOf
    <3>3. ~Logged(x) /\ HasRow(h)
      BY <2>3, <3>2 DEF Takers, Enabled
    <3>4. Made(x) = {}
      BY <2>3, <3>3 DEF RowsAndJobs, TriedHasJob
    <3> QED
      BY <3>1, <3>2, <3>4
  <2>4. ASSUME NEW x \in Delivery, x[3] = 0, HookOf(x) = h, Logged(x), h \in Takers(f)
        PROVE  log[x].sequence \in 1 .. hook[h].sequence
    <3>1. h \in Hooks /\ HasRow(h)
      BY <2>4 DEF Takers, Enabled
    <3>2. {log[y].sequence : y \in First(h)} = 1 .. hook[h].sequence
      BY <3>1 DEF SequenceHasNoHoles, First
    <3>3. x \in First(h)
      BY <2>4 DEF First
    <3> QED
      BY <3>2, <3>3
  <2>5. h \in Hooks /\ hook[h].sequence \in Nat /\ Made(e)' = Made(e)
    BY <1>6, DeliveryIs DEF Typed, HookRow, Made
  <2> HIDE DEF h
  <2>6. CASE ~New(d) /\ ~New(e)
    BY <1>1, <2>1, <2>2, <2>5, <2>6 DEF Original, Logged, h
  <2>7. CASE New(d) /\ New(e)
    <3>1. d = e /\ log'[d].sequence = log'[e].sequence /\ log'[d].sequence \in Nat
      BY <2>1, <2>3, <2>5, <2>7 DEF h
    <3> QED
      BY <3>1 DEF Goal
  <2>8. CASE New(e) /\ ~New(d)
    <3>1. log'[d].sequence \in 1 .. hook[h].sequence
      BY <2>1, <2>2, <2>4, <2>8 DEF h, Original, Logged
    <3>2. log'[e].sequence = hook[h].sequence + 1 /\ Made(e)' = {}
      BY <2>1, <2>3, <2>5, <2>8
    <3> QED
      BY <2>5, <3>1, <3>2 DEF Goal
  <2>9. CASE New(d) /\ ~New(e)
    <3>1. log'[e].sequence \in 1 .. hook[h].sequence
      BY <2>1, <2>2, <2>4, <2>9 DEF h, Original, Logged
    <3>2. log'[d].sequence = hook[h].sequence + 1
      BY <2>1, <2>3, <2>9 DEF h
    <3> QED
      BY <2>5, <3>1, <3>2 DEF Goal
  <2> QED
    BY <2>6, <2>7, <2>8, <2>9
<1> QED
  BY <1>2, <1>3, <1>4, <1>5, <1>6, QuietStep DEF Makes, Goal

-----------------------------------------------------------------------------
(* The theorems *)

LEMMA StepInv == Inv /\ [Next]_vars => Inv'
<1> SUFFICES ASSUME Inv, [Next]_vars PROVE Inv'
  OBVIOUS
<1>1. CASE Next
  BY <1>1, TypedStep, InTurnStep, WrittenStep, RowsStep, ResendsStep, NumbersStep,
     TriedHasJobStep, AloneStep, InLineStep DEF Inv
<1>2. CASE UNCHANGED vars
  <2>1. UNCHANGED <<hook, fan, log, job, try, accepted, overlaps, faults>>
    BY <1>2 DEF vars
  <2>2. (Typed /\ OkIsAccepted /\ BodyOrAccepted /\ DeliveredWasWritten /\ NotMade)'
    BY <2>1 DEF Inv, Typed, OkIsAccepted, BodyOrAccepted, DeliveredWasWritten, NotMade, Logged
  <2>3. InTurn'
    BY <2>1 DEF Inv, InTurn, Made
  <2>4. (ResendsNumbered /\ RowsAndJobs)'
    BY <2>1 DEF Inv, ResendsNumbered, Resent, RowsAndJobs, HasRow, Logged
  <2>5. SequenceHasNoHoles'
    BY <2>1 DEF Inv, SequenceHasNoHoles, HasRow, Logged
  <2>6. (TriedHasJob /\ Alone /\ InLine)'
    BY <2>1 DEF Inv, TriedHasJob, Alone, InLine, Made, Running, Original, Logged
  <2> QED
    BY <2>2, <2>3, <2>4, <2>5, <2>6 DEF Inv
<1> QED
  BY <1>1, <1>2

THEOREM Invariant == Spec => []Inv
<1> QED
  BY InitInv, StepInv, PTL DEF Spec

\* A hook's sequence numbers are given to one event each and none is skipped,
\* however many fan-outs of an event run and whichever fail (fanout.go
\* FanOutWebhookEvent).
THEOREM NumbersHaveNoHoles == Spec => []SequenceHasNoHoles
<1>1. Inv => SequenceHasNoHoles
  BY DEF Inv
<1> QED
  BY <1>1, Invariant, PTL

\* A body is let go only for a delivery the receiver answered 2xx, whichever
\* of its attempts wrote the row last (deliver.go recordAttempt).
THEOREM BodyStaysUntilAccepted == Spec => []BodyOrAccepted
<1>1. Inv => BodyOrAccepted
  BY DEF Inv
<1> QED
  BY <1>1, Invariant, PTL

\* Whatever is sent again meanwhile, a hook's events are first taken in the
\* order of their numbers; only an attempt that the queue gave up on, and that
\* ran on, may come after a later event (deliver.go tryDelivery, jobs.sql
\* LeaseJobs, outgoing.go RedeliverDelivery).
THEOREM HooksHeardInOrder == Spec => HeardInOrder
<1>1. ASSUME Inv, [Next]_vars
      PROVE  \A d \in accepted' \ accepted, e \in accepted :
                Original(d) /\ Original(e) /\ HookOf(d) = HookOf(e)
                   => log[e].sequence < log[d].sequence \/ OutlivedItsJob(d)
  <2> SUFFICES ASSUME NEW d \in accepted' \ accepted, NEW e \in accepted,
                      Original(d), Original(e), HookOf(d) = HookOf(e)
               PROVE  log[e].sequence < log[d].sequence \/ OutlivedItsJob(d)
    OBVIOUS
  <2>1. Next /\ d \in Delivery /\ e \in Delivery /\ d # e
    <3>1. CASE Next
      <4>1. Typed'
        BY <1>1, <3>1, TypedStep DEF Inv
      <4> QED
        BY <1>1, <3>1, <4>1 DEF Typed, Inv
    <3>2. CASE UNCHANGED vars
      BY <1>1, <3>2 DEF vars
    <3> QED
      BY <1>1, <3>1, <3>2
  <2>2. PICK k \in Attempt : try[d][k] = "sending"
    BY <1>1, <2>1, AcceptedStep DEF Inv
  <2>3. k \in Running(d) /\ Made(e) # {}
    BY <1>1, <2>1, <2>2 DEF Running, Inv, TriedHasJob
  <2>4. log[d].sequence \in Nat /\ log[e].sequence \in Nat /\ log[d].sequence # log[e].sequence
    BY <1>1, <2>1 DEF Inv, InLine, Typed, LogRow
  <2>5. ASSUME log[d].sequence < log[e].sequence PROVE OutlivedItsJob(d)
    <3>1. job[d] # "queued"
      BY <1>1, <2>1, <2>3, <2>5 DEF Inv, InLine
    <3>2. overlaps # MaxOverlaps /\ overlaps \in 0 .. MaxOverlaps
      BY <1>1, <2>1, <2>3, <3>1 DEF Inv, Alone, Typed
    <3> QED
      BY <3>1, <3>2, Bounds DEF OutlivedItsJob
  <2> QED
    BY <2>4, <2>5
<1> QED
  BY <1>1, Invariant, PTL DEF Spec, HeardInOrder

\* A delivered row is written over only by another attempt of its delivery:
\* not by the sweep, the queue or its being sent again (deliver.go
\* recordAttempt, sweep.go SweepLostDeliveries).
THEOREM DeliveredIsFinal == Spec => DeliveredStays
<1>1. ASSUME Inv, [Next]_vars
      PROVE  \A d \in Delivery :
                log[d].state = "delivered" /\ log'[d].state \notin {"delivered", "none"}
                   => Cardinality(Made(d)) > 1
  <2> SUFFICES ASSUME NEW d \in Delivery,
                      log[d].state = "delivered", log'[d].state \notin {"delivered", "none"}
               PROVE  Cardinality(Made(d)) > 1
    OBVIOUS
  <2>1. CASE Next
    <3>1. RowMoves(d)
      BY <1>1, <2>1, RowStep DEF Inv
    <3>2. PICK k \in Attempt : try[d][k] \in Verdicts
      BY <1>1, <3>1 DEF RowMoves, Logged
    <3>3. PICK l \in Attempt : try[d][l] \in {"wrote_ok", "over"}
      BY <1>1 DEF Inv, DeliveredWasWritten
    <3>4. k # l /\ {k, l} \subseteq Made(d)
      BY <3>2, <3>3 DEF Made, Verdicts
    <3>5. PICK n \in Nat : Made(d) = 1 .. n
      BY <1>1 DEF Inv, InTurn
    <3>6. n > 1 /\ Cardinality(Made(d)) = n
      <4>1. Cardinality(1 .. n) = n
        BY FS_Interval
      <4> QED
        BY <3>4, <3>5, <4>1
    <3> QED
      BY <3>6
  <2>2. CASE UNCHANGED vars
    BY <1>1, <2>2 DEF vars
  <2> QED
    BY <1>1, <2>1, <2>2
<1> QED
  BY <1>1, Invariant, PTL DEF Spec, DeliveredStays
=============================================================================
