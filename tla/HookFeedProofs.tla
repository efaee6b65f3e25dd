--------------------------- MODULE HookFeedProofs ---------------------------
(***************************************************************************)
(* Proofs about HookFeed, for every set of spaces, hooks and stamps and    *)
(* every bound: its types, that a subscriber that listens hears the space  *)
(* of every hook, and that fan-outs are queued in the order the bus        *)
(* published their events.                                                 *)
(***************************************************************************)
EXTENDS HookFeed, TLAPS

(***************************************************************************)
(* Types                                                                   *)
(***************************************************************************)
HookRow == [life : {"none", "inserted", "made", "gone"}, enabled : BOOLEAN]
Sub == [phase : {"listing", "listed", "subscribed", "consuming"},
        topics : SUBSET Spaces, open : BOOLEAN]
Event == [n : 1 .. MaxEvents, space : Spaces, at : Stamps]
FanOut == [event : 1 .. MaxEvents, space : Spaces, sequence : Nat]

LEMMA InitTypes == Init => TypeOK
  BY HookFeedAssumption DEF Init, TypeOK, NewSub

\* A hook's row stays a row.
LEMMA RowKept ==
  ASSUME TypeOK, NEW h \in Hooks, NEW l \in {"none", "inserted", "made", "gone"}
  PROVE  /\ [hook EXCEPT ![h].life = l] \in [Hooks -> HookRow]
         /\ [hook EXCEPT ![h].enabled = ~@] \in [Hooks -> HookRow]
         /\ [hook EXCEPT ![h] = [life |-> l, enabled |-> TRUE]] \in [Hooks -> HookRow]
  BY DEF TypeOK, HookRow

\* What the bus and the hooks' requests do.
LEMMA RequestTypes ==
  ASSUME TypeOK,
         \/ \E h \in Hooks : InsertHook(h) \/ WatchSpace(h) \/ Toggle(h) \/ DeleteHook(h)
         \/ \E s \in Spaces, at \in Stamps : Publish(s, at)
  PROVE  TypeOK'
<1>1. CASE \E h \in Hooks : InsertHook(h) \/ WatchSpace(h) \/ Toggle(h) \/ DeleteHook(h)
  <2> PICK h \in Hooks : InsertHook(h) \/ WatchSpace(h) \/ Toggle(h) \/ DeleteHook(h)
    BY <1>1
  <2>1. hook' \in [Hooks -> HookRow]
    <3>1. CASE InsertHook(h)
      BY <3>1, RowKept DEF InsertHook
    <3>2. CASE WatchSpace(h)
      BY <3>2, RowKept DEF WatchSpace
    <3>3. CASE Toggle(h)
      BY <3>3, RowKept DEF Toggle
    <3>4. CASE DeleteHook(h)
      BY <3>4, RowKept DEF DeleteHook
    <3> QED
      BY <3>1, <3>2, <3>3, <3>4
  <2>2. sub' \in Sub
    <3>1. sub \in Sub /\ HookSpace[h] \in Spaces
      BY HookFeedAssumption DEF TypeOK, Sub
    <3>2. [sub EXCEPT !.topics = @ \cup {HookSpace[h]}] \in Sub
      BY <3>1 DEF Sub
    <3> QED
      BY <3>1, <3>2 DEF InsertHook, WatchSpace, Toggle, DeleteHook
  <2>3. late' \subseteq Hooks
    BY DEF InsertHook, WatchSpace, Toggle, DeleteHook, TypeOK
  <2>4. UNCHANGED <<events, published, last, lane, faults>>
    BY DEF InsertHook, WatchSpace, Toggle, DeleteHook
  <2> QED
    BY <2>1, <2>2, <2>3, <2>4 DEF TypeOK, HookRow, Sub
<1>2. CASE \E s \in Spaces, at \in Stamps : Publish(s, at)
  <2> PICK s \in Spaces, at \in Stamps : Publish(s, at)
    BY <1>2
  <2>1. published' \in 0 .. MaxEvents /\ published + 1 \in 1 .. MaxEvents
    BY HookFeedAssumption DEF Publish, TypeOK
  <2>2. sub' \in Sub
    BY DEF Publish, TypeOK, Sub
  <2>3. [n |-> published + 1, space |-> s, at |-> at] \in Event
    BY <2>1 DEF Event
  <2>0. events \in Seq(Event) /\ Len(events) <= Buffer /\ Buffer \in Nat
    BY HookFeedAssumption DEF TypeOK, Event
  <2>4. events' \in Seq(Event) /\ Len(events') <= Buffer
    BY <2>0, <2>3 DEF Publish, Room
  <2>5. UNCHANGED <<hook, last, lane, late, faults>>
    BY DEF Publish
  <2> QED
    BY <2>1, <2>2, <2>4, <2>5 DEF TypeOK, Event, Sub
<1> QED
  BY <1>1, <1>2

\* What the subscriber does.
LEMMA SubscriberTypes ==
  ASSUME TypeOK,
         ListTopics \/ Subscribe \/ Store \/ Consume \/ Resubscribe \/ Restart
  PROVE  TypeOK'
<1>0. WatchedTopics \subseteq Spaces
  BY HookFeedAssumption DEF WatchedTopics
<1>1. CASE ListTopics \/ Subscribe \/ Store \/ Resubscribe
  <2>0. sub \in Sub
    BY DEF TypeOK, Sub
  <2>1. sub' \in Sub
    <3>1. CASE ListTopics
      BY <1>0, <3>1 DEF ListTopics, NewSub, Sub
    <3>2. CASE Subscribe
      BY <2>0, <3>2 DEF Subscribe, Sub
    <3>3. CASE Store
      BY <2>0, <3>3 DEF Store, Sub
    <3>4. CASE Resubscribe
      BY <3>4 DEF Resubscribe, NewSub, Sub
    <3> QED
      BY <1>1, <3>1, <3>2, <3>3, <3>4
  <2>2. late' \subseteq Hooks
    BY <1>1 DEF ListTopics, Subscribe, Store, Resubscribe, TypeOK
  <2>3. UNCHANGED <<hook, events, published, last, lane, faults>>
    BY <1>1 DEF ListTopics, Subscribe, Store, Resubscribe
  <2> QED
    BY <2>1, <2>2, <2>3 DEF TypeOK, Sub
<1>2. CASE Restart
  BY <1>2, HookFeedAssumption DEF Restart, Fault, TypeOK, NewSub
<1>3. CASE Consume
  <2>0. events \in Seq(Event) /\ Len(events) <= Buffer /\ Buffer \in Nat /\ lane \in Seq(FanOut)
    BY HookFeedAssumption DEF TypeOK, Event, FanOut
  <2>1. Head(events) \in Event /\ events' \in Seq(Event) /\ Len(events') <= Buffer
    BY <1>3, <2>0 DEF Consume
  <2>2. NextSequence(Head(events).at) \in Nat
    <3>1. Head(events).at \in Nat /\ last \in Nat
      BY <2>1, HookFeedAssumption DEF Event, TypeOK
    <3> QED
      BY <3>1 DEF NextSequence
  <2> DEFINE f == [event |-> Head(events).n, space |-> Head(events).space,
                   sequence |-> NextSequence(Head(events).at)]
  <2>5. f \in FanOut
    BY <2>1, <2>2 DEF Event, FanOut
  <2>3. last' \in Nat /\ lane' \in Seq(FanOut)
    <3>1. last' = last \/ last' = NextSequence(Head(events).at)
      BY <1>3 DEF Consume
    <3>2. lane' = lane \/ lane' = Append(lane, f)
      BY <1>3 DEF Consume
    <3>3. Append(lane, f) \in Seq(FanOut)
      BY <2>0, <2>5
    <3> QED
      BY <2>0, <2>2, <3>1, <3>2, <3>3 DEF TypeOK
  <2>4. faults' \in 0 .. MaxFaults
    <3>1. faults' = faults \/ (faults > 0 /\ faults' = faults - 1)
      BY <1>3 DEF Consume, Fault
    <3> QED
      BY <3>1, HookFeedAssumption DEF TypeOK
  <2>6. UNCHANGED <<hook, sub, published, late>>
    BY <1>3 DEF Consume
  <2> QED
    BY <2>1, <2>3, <2>4, <2>6 DEF TypeOK, Event, FanOut
<1> QED
  BY <1>1, <1>2, <1>3

LEMMA NextTypes == TypeOK /\ [Next]_vars => TypeOK'
<1> SUFFICES ASSUME TypeOK, [Next]_vars PROVE TypeOK'
  OBVIOUS
<1>1. CASE Next
  BY <1>1, RequestTypes, SubscriberTypes DEF Next
<1>2. CASE UNCHANGED vars
  BY <1>2 DEF vars, TypeOK
<1> QED
  BY <1>1, <1>2

\* TypeOK holds in every state: the subscription's channel never holds more
\* than its buffer, and no fan-out is queued for an event that was not
\* published (subscriber.go, bus.go Publish).
THEOREM Types == Spec => []TypeOK
  BY InitTypes, NextTypes, PTL DEF Spec

(***************************************************************************)
(* Hooks are heard                                                         *)
(***************************************************************************)

\* From its listing on, a subscription that is open, or is not yet stored,
\* has the space of every hook whose request was answered before.
Covers ==
    sub.phase \in {"listed", "subscribed"} \/ Listening =>
        \A h \in Hooks : hook[h].life = "made" => HookSpace[h] \in sub.topics \/ h \in late

\* A subscription is not open before it is made.
OpenOnceMade == sub.open => sub.phase \in {"subscribed", "consuming"}

HeardInv == TypeOK /\ Covers /\ OpenOnceMade

LEMMA HeardInit == Init => HeardInv
BY InitTypes DEF Init, HeardInv, Covers, OpenOnceMade, NewSub, Listening

LEMMA HeardStep == HeardInv /\ [Next]_vars => HeardInv'
<1> SUFFICES ASSUME HeardInv, [Next]_vars PROVE Covers' /\ OpenOnceMade'
  BY NextTypes DEF HeardInv
<1> USE DEF HeardInv
<1>1. CASE \E h \in Hooks : InsertHook(h) \/ Toggle(h) \/ DeleteHook(h)
  <2> PICK h \in Hooks : InsertHook(h) \/ Toggle(h) \/ DeleteHook(h)
    BY <1>1
  <2>1. \A g \in Hooks : hook'[g].life = "made" => hook[g].life = "made"
    <3>1. CASE InsertHook(h)
      BY <3>1 DEF InsertHook, TypeOK
    <3>2. CASE Toggle(h)
      BY <3>2 DEF Toggle, TypeOK
    <3>3. CASE DeleteHook(h)
      BY <3>3 DEF DeleteHook, TypeOK
    <3> QED
      BY <3>1, <3>2, <3>3
  <2>2. UNCHANGED <<sub, late>>
    BY DEF InsertHook, Toggle, DeleteHook
  <2> QED
    BY <2>1, <2>2 DEF Covers, OpenOnceMade, Listening
<1>2. CASE \E h \in Hooks : WatchSpace(h)
  <2> PICK h \in Hooks : WatchSpace(h)
    BY <1>2
  <2>1. \A g \in Hooks : hook'[g].life = "made" => hook[g].life = "made" \/ g = h
    BY DEF WatchSpace, TypeOK
  <2>2. sub'.phase = sub.phase /\ sub'.open = sub.open /\ sub.topics \subseteq sub'.topics /\ late \subseteq late'
    BY DEF WatchSpace, TypeOK
  <2>3. CASE Listening
    BY <2>1, <2>2, <2>3 DEF WatchSpace, Covers, OpenOnceMade, Listening, TypeOK
  <2>4. CASE ~Listening
    BY <2>1, <2>2, <2>4 DEF WatchSpace, Covers, OpenOnceMade, Listening
  <2> QED
    BY <2>3, <2>4
<1>3. CASE ListTopics
  <2>1. \A h \in Hooks : hook[h].life = "made" => HookSpace[h] \in WatchedTopics
    BY DEF WatchedTopics, HasRow
  <2> QED
    BY <1>3, <2>1 DEF ListTopics, NewSub, Covers, OpenOnceMade
<1>4. CASE Subscribe
  BY <1>4 DEF Subscribe, TypeOK, Covers, OpenOnceMade
<1>5. CASE Store
  BY <1>5 DEF Store, TypeOK, Covers, OpenOnceMade, Listening
<1>6. CASE Consume
  BY <1>6 DEF Consume, Covers, OpenOnceMade, Listening
<1>7. CASE Resubscribe \/ Restart
  BY <1>7 DEF Resubscribe, Restart, NewSub, Covers, OpenOnceMade, Listening
<1>8. CASE \E s \in Spaces, at \in Stamps : Publish(s, at)
  <2>1. UNCHANGED <<hook, late>> /\ sub'.phase = sub.phase /\ sub'.topics = sub.topics
        /\ (sub'.open => sub.open)
    BY <1>8 DEF Publish, TypeOK
  <2> QED
    BY <2>1 DEF Covers, OpenOnceMade, Listening
<1>9. CASE UNCHANGED vars
  BY <1>9 DEF vars, Covers, OpenOnceMade, Listening
<1> QED
  BY <1>1, <1>2, <1>3, <1>4, <1>5, <1>6, <1>7, <1>8, <1>9 DEF Next

\* A subscriber that listens hears the space of every hook whose creation was
\* answered, but one made while its subscription was being replaced
\* (subscriber.go RunSubscriber, watchSpace).
THEOREM HooksAreHeard == Spec => []HookIsHeard
<1>1. HeardInv => HookIsHeard
  BY DEF HeardInv, Covers, HookIsHeard
<1> QED
  BY <1>1, HeardInit, HeardStep, PTL DEF Spec

(***************************************************************************)
(* Fan-outs are queued as events were published                            *)
(***************************************************************************)

\* The channel holds events in the order they were published.
ChannelInOrder ==
    /\ \A i, j \in 1 .. Len(events) : i < j => events[i].n < events[j].n
    /\ \A i \in 1 .. Len(events) : events[i].n <= published

\* The lane's events came before those in the channel ...
LaneBehindChannel ==
    \A i \in 1 .. Len(lane) :
        /\ lane[i].event <= published
        /\ \A j \in 1 .. Len(events) : lane[i].event < events[j].n

\* ... and its sequence numbers rise to the last one given.
LaneInOrder ==
    /\ \A i, j \in 1 .. Len(lane) :
          i < j => lane[i].event < lane[j].event /\ lane[i].sequence < lane[j].sequence
    /\ \A i \in 1 .. Len(lane) : lane[i].sequence <= last

LaneInv == TypeOK /\ ChannelInOrder /\ LaneBehindChannel /\ LaneInOrder

LEMMA LaneInit == Init => LaneInv
BY InitTypes DEF Init, LaneInv, ChannelInOrder, LaneBehindChannel, LaneInOrder

LEMMA Entries ==
  ASSUME LaneInv
  PROVE  /\ events \in Seq(Event) /\ lane \in Seq(FanOut) /\ published \in Nat /\ last \in Nat
         /\ \A i \in 1 .. Len(events) : events[i].n \in Nat /\ events[i].at \in Nat
         /\ \A i \in 1 .. Len(lane) : lane[i].event \in Nat /\ lane[i].sequence \in Nat
<1>1. events \in Seq(Event) /\ lane \in Seq(FanOut) /\ published \in Nat /\ last \in Nat
  BY DEF LaneInv, TypeOK, Event, FanOut
<1>2. \A i \in 1 .. Len(events) : events[i] \in Event
  BY <1>1
<1>3. \A i \in 1 .. Len(lane) : lane[i] \in FanOut
  BY <1>1
<1>4. \A x \in Event : x.n \in Nat /\ x.at \in Nat
  <2>1. Stamps \subseteq Nat /\ 1 .. MaxEvents \subseteq Nat
    BY HookFeedAssumption
  <2> QED
    BY <2>1 DEF Event
<1>5. \A x \in FanOut : x.event \in Nat /\ x.sequence \in Nat
  BY DEF FanOut
<1> QED
  BY <1>1, <1>2, <1>3, <1>4, <1>5

LEMMA LanePublish ==
  ASSUME LaneInv, NEW s \in Spaces, NEW at \in Stamps, Publish(s, at)
  PROVE  (ChannelInOrder /\ LaneBehindChannel /\ LaneInOrder)'
<1> DEFINE e == [n |-> published + 1, space |-> s, at |-> at]
<1>1. events \in Seq(Event) /\ lane \in Seq(FanOut) /\ published \in Nat
  BY DEF LaneInv, TypeOK, Event, FanOut
<1>2. published' = published + 1 /\ UNCHANGED <<lane, last>>
  BY DEF Publish
<1>3. CASE UNCHANGED events
  <2>1. \A i \in 1 .. Len(events) : events[i].n \in Nat
    BY Entries
  <2>2. \A i \in 1 .. Len(lane) : lane[i].event \in Nat
    BY Entries
  <2> QED
    BY <1>1, <1>2, <1>3, <2>1, <2>2 DEF LaneInv, ChannelInOrder, LaneBehindChannel, LaneInOrder
<1>4. CASE events' = Append(events, e)
  <2>1. Len(events') = Len(events) + 1 /\ Len(events) \in Nat
        /\ \A i \in 1 .. Len(events') :
              events'[i] = IF i = Len(events) + 1 THEN e ELSE events[i]
    BY <1>1, <1>4
  <2>2. e.n = published + 1
    OBVIOUS
  <2>3. \A i \in 1 .. Len(events) : events[i].n \in Nat
    BY Entries
  <2>4. \A i \in 1 .. Len(lane) : lane[i].event \in Nat
    BY Entries
  <2>5. ChannelInOrder'
    <3> USE DEF LaneInv, ChannelInOrder
    <3>1. \A i \in 1 .. Len(events') : events'[i].n <= published'
      BY <1>1, <1>2, <2>1, <2>2, <2>3
    <3>2. ASSUME NEW i \in 1 .. Len(events'), NEW j \in 1 .. Len(events'), i < j
          PROVE  events'[i].n < events'[j].n
      <4>1. i \in 1 .. Len(events) /\ events'[i] = events[i]
        BY <2>1, <3>2
      <4>2. CASE j = Len(events) + 1
        <5>1. events'[j].n = published + 1 /\ events[i].n <= published /\ events[i].n \in Nat
          BY <2>1, <2>2, <2>3, <4>1, <4>2
        <5> QED
          BY <1>1, <4>1, <5>1
      <4>3. CASE j # Len(events) + 1
        <5>1. j \in 1 .. Len(events) /\ events'[j] = events[j]
          BY <2>1, <4>3
        <5> QED
          BY <3>2, <4>1, <5>1
      <4> QED
        BY <4>2, <4>3
    <3> QED
      BY <3>1, <3>2
  <2>6. LaneBehindChannel'
    <3>1. ASSUME NEW i \in 1 .. Len(lane)
          PROVE  lane[i].event <= published /\ lane[i].event \in Nat
      BY <2>4 DEF LaneInv, LaneBehindChannel
    <3>2. ASSUME NEW i \in 1 .. Len(lane), NEW j \in 1 .. Len(events')
          PROVE  lane[i].event < events'[j].n
      <4>1. CASE j = Len(events) + 1
        <5>1. events'[j].n = published + 1
          BY <2>1, <2>2, <4>1
        <5> QED
          BY <1>1, <3>1, <5>1
      <4>2. CASE j # Len(events) + 1
        <5>1. j \in 1 .. Len(events) /\ events'[j] = events[j]
          BY <2>1, <4>2
        <5> QED
          BY <5>1 DEF LaneInv, LaneBehindChannel
      <4> QED
        BY <4>1, <4>2
    <3>3. \A i \in 1 .. Len(lane) : lane[i].event <= published + 1
      BY <1>1, <3>1
    <3> QED
      BY <1>2, <3>2, <3>3 DEF LaneBehindChannel
  <2>7. LaneInOrder'
    BY <1>2 DEF LaneInv, LaneInOrder
  <2> QED
    BY <2>5, <2>6, <2>7
<1> QED
  BY <1>3, <1>4 DEF Publish

LEMMA LaneConsume ==
  ASSUME LaneInv, Consume
  PROVE  (ChannelInOrder /\ LaneBehindChannel /\ LaneInOrder)'
<1> DEFINE e == Head(events)
           f == [event |-> e.n, space |-> e.space, sequence |-> NextSequence(e.at)]
<1>1. events \in Seq(Event) /\ lane \in Seq(FanOut) /\ published \in Nat /\ last \in Nat
  BY DEF LaneInv, TypeOK, Event, FanOut
<1>2. UNCHANGED published /\ events # <<>> /\ events' = Tail(events)
  BY DEF Consume
<1>3. Len(events') = Len(events) - 1 /\ e = events[1] /\ Len(events) \in Nat \ {0}
      /\ \A i \in 1 .. Len(events') : events'[i] = events[i + 1]
  BY <1>1, <1>2
<1>4. \A i \in 1 .. Len(events) : events[i].n \in Nat /\ events[i].at \in Nat
  BY Entries
<1>5. \A i \in 1 .. Len(lane) : lane[i].event \in Nat /\ lane[i].sequence \in Nat
  BY Entries
<1>6. NextSequence(e.at) \in Nat /\ NextSequence(e.at) > last
  BY <1>1, <1>3, <1>4 DEF NextSequence
<1>7. last' \in Nat /\ last' >= last /\ (lane' = lane \/ (lane' = Append(lane, f) /\ last' = NextSequence(e.at)))
  BY <1>1, <1>6 DEF Consume
<1>8. ChannelInOrder'
  <2> USE DEF LaneInv, ChannelInOrder
  <2>1. \A i \in 1 .. Len(events') : events'[i].n <= published'
    BY <1>1, <1>2, <1>3, <1>4
  <2>2. ASSUME NEW i \in 1 .. Len(events'), NEW j \in 1 .. Len(events'), i < j
        PROVE  events'[i].n < events'[j].n
    <3>1. i + 1 \in 1 .. Len(events) /\ j + 1 \in 1 .. Len(events) /\ i + 1 < j + 1
      BY <1>3, <2>2
    <3>2. events'[i] = events[i + 1] /\ events'[j] = events[j + 1]
      BY <1>3
    <3> QED
      BY <3>1, <3>2
  <2> QED
    BY <2>1, <2>2
<1>9. CASE lane' = lane
  <2>1. LaneBehindChannel'
    BY <1>1, <1>2, <1>3, <1>9 DEF LaneInv, LaneBehindChannel
  <2>2. LaneInOrder'
    BY <1>1, <1>5, <1>7, <1>9 DEF LaneInv, LaneInOrder
  <2> QED
    BY <1>8, <2>1, <2>2
<1>10. CASE lane' = Append(lane, f) /\ last' = NextSequence(e.at)
  <2>1. Len(lane') = Len(lane) + 1 /\ Len(lane) \in Nat
        /\ \A i \in 1 .. Len(lane') : lane'[i] = IF i = Len(lane) + 1 THEN f ELSE lane[i]
    BY <1>1, <1>10
  <2>2. f.event = e.n /\ f.sequence = last' /\ last' > last
    BY <1>6, <1>10
  <2>3. /\ e.n <= published /\ e.n \in Nat
        /\ \A j \in 1 .. Len(events') : e.n < events'[j].n
        /\ \A i \in 1 .. Len(lane) : lane[i].event < e.n
    BY <1>3, <1>4 DEF LaneInv, ChannelInOrder, LaneBehindChannel
  <2>4. LaneBehindChannel'
    BY <1>2, <1>3, <2>1, <2>2, <2>3 DEF LaneInv, LaneBehindChannel
  <2>5. LaneInOrder'
    <3> USE DEF LaneInv, LaneInOrder
    <3> HIDE DEF f
    <3>0. f.event \in Nat /\ f.sequence \in Nat
      BY <1>6, <1>10, <2>2, <2>3
    <3>1. ASSUME NEW i \in 1 .. Len(lane')
          PROVE  lane'[i].sequence <= last'
      <4>1. CASE i = Len(lane) + 1
        BY <1>7, <2>1, <2>2, <4>1
      <4>2. CASE i \in 1 .. Len(lane)
        BY <1>1, <1>5, <1>7, <2>1, <4>2
      <4> QED
        BY <2>1, <4>1, <4>2
    <3>2. ASSUME NEW i \in 1 .. Len(lane'), NEW j \in 1 .. Len(lane'), i < j
          PROVE  lane'[i].event < lane'[j].event /\ lane'[i].sequence < lane'[j].sequence
      <4>1. i \in 1 .. Len(lane) /\ lane'[i] = lane[i]
        BY <2>1, <3>2
      <4>2. CASE j = Len(lane) + 1
        <5>1. lane'[j] = f
          BY <2>1, <4>2
        <5>2. lane[i].sequence <= last /\ lane[i].event < e.n
          BY <2>3, <4>1
        <5> QED
          BY <1>1, <1>5, <1>7, <2>2, <2>3, <3>0, <4>1, <5>1, <5>2
      <4>3. CASE j \in 1 .. Len(lane)
        BY <2>1, <3>2, <4>1, <4>3
      <4> QED
        BY <2>1, <4>2, <4>3
    <3> QED
      BY <3>1, <3>2
  <2> QED
    BY <1>8, <2>4, <2>5
<1> QED
  BY <1>7, <1>9, <1>10

LEMMA LaneStep == LaneInv /\ [Next]_vars => LaneInv'
<1> SUFFICES ASSUME LaneInv, [Next]_vars
             PROVE  (ChannelInOrder /\ LaneBehindChannel /\ LaneInOrder)'
  BY NextTypes DEF LaneInv
<1> USE DEF ChannelInOrder, LaneBehindChannel, LaneInOrder
<1>1. CASE \E s \in Spaces, at \in Stamps : Publish(s, at)
  BY <1>1, LanePublish
<1>2. CASE Consume
  BY <1>2, LaneConsume
<1>3. CASE Restart
  BY <1>3 DEF Restart, LaneInv
<1>4. CASE UNCHANGED <<events, published, last, lane>>
  BY <1>4 DEF LaneInv
<1> QED
  BY <1>1, <1>2, <1>3, <1>4
  DEF Next, vars, InsertHook, WatchSpace, Toggle, DeleteHook, ListTopics, Subscribe, Store, Resubscribe

\* The fan-outs of a space are queued, and numbered, in the order the bus
\* published their events, whatever their stamps are and however often the
\* subscription was dropped (subscriber.go nextSequence).
THEOREM LanesInOrder == Spec => []LaneAsPublished
<1>1. LaneInv => LaneAsPublished
  BY DEF LaneInv, LaneInOrder, LaneAsPublished
<1> QED
  BY <1>1, LaneInit, LaneStep, PTL DEF Spec
=============================================================================
