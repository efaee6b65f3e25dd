------------------------------ MODULE HookFeed ------------------------------
(***************************************************************************)
(* The subscriber of outgoing webhooks (internal/integrations/             *)
(* subscriber.go): it listens on the event bus for every space that has a  *)
(* hook, and queues one fan-out job per event a hook wants, in the space's *)
(* lane.  What a fan-out makes of the event is module Webhooks.            *)
(*                                                                         *)
(* The bus drops a subscriber that falls behind, and the subscriber then   *)
(* lists the spaces and subscribes afresh; a hook made meanwhile adds its  *)
(* own space to whatever subscription it finds stored.                     *)
(***************************************************************************)
EXTENDS Integers, FiniteSets, Sequences

CONSTANTS
    Spaces, Hooks,
    HookSpace,      \* the space each hook is in
    Stamps,         \* the times events are stamped with
    MaxEvents,      \* bound: events published
    Buffer,         \* subscriptionBuffer
    MaxFaults       \* bound: restarts, and inserts that fail

ASSUME HookFeedAssumption ==
    /\ HookSpace \in [Hooks -> Spaces]
    /\ Stamps \subseteq Nat /\ {MaxEvents, MaxFaults} \subseteq Nat /\ Buffer \in Nat \ {0}

VARIABLES
    hook,       \* each hook's row
    sub,        \* RunSubscriber: what it is doing, and its subscription
    events,     \* what is in the subscription's channel
    published,  \* history: how many events were published
    last,       \* subs.lastSequence
    lane,       \* history: the fan-outs queued since the process started
    late,       \* history: hooks made while a subscription was being replaced
    faults      \* what is left of the bound

vars == <<hook, sub, events, published, last, lane, late, faults>>

Listening == sub.phase = "consuming" /\ sub.open

NewSub == [phase |-> "listing", topics |-> {}, open |-> FALSE]

Init ==
    /\ hook = [h \in Hooks |-> [life |-> "none", enabled |-> FALSE]]
    /\ sub = NewSub
    /\ events = <<>> /\ published = 0
    /\ last = 0 /\ lane = <<>> /\ late = {}
    /\ faults = MaxFaults

Fault == faults > 0 /\ faults' = faults - 1

-----------------------------------------------------------------------------
(* Hooks *)

HasRow(h) == hook[h].life \in {"inserted", "made"}

\* ListEnabledOutgoingWebhooksBySpace
EnabledIn(s) == {h \in Hooks : HookSpace[h] = s /\ HasRow(h) /\ hook[h].enabled}

\* CreateOutgoing: the row first ...
InsertHook(h) ==
    /\ hook[h].life = "none"
    /\ hook' = [hook EXCEPT ![h] = [life |-> "inserted", enabled |-> TRUE]]
    /\ UNCHANGED <<sub, events, published, last, lane, late, faults>>

\* ... then watchSpace, on the subscription stored.  Until the next is stored
\* that is the last one, and Add does nothing to a closed one.
WatchSpace(h) ==
    /\ hook[h].life = "inserted"
    /\ hook' = [hook EXCEPT ![h].life = "made"]
    /\ sub' = IF Listening THEN [sub EXCEPT !.topics = @ \cup {HookSpace[h]}] ELSE sub
    /\ late' = IF sub.phase \in {"listed", "subscribed"} /\ HookSpace[h] \notin sub.topics THEN late \cup {h} ELSE late
    /\ UNCHANGED <<events, published, last, lane, faults>>

\* UpdateOutgoing, or a delivery that turns its hook off.
Toggle(h) ==
    /\ hook[h].life = "made"
    /\ hook' = [hook EXCEPT ![h].enabled = ~@]
    /\ UNCHANGED <<sub, events, published, last, lane, late, faults>>

\* DeleteWebhook; the topic stays.
DeleteHook(h) ==
    /\ hook[h].life = "made"
    /\ hook' = [hook EXCEPT ![h].life = "gone"]
    /\ UNCHANGED <<sub, events, published, last, lane, late, faults>>

-----------------------------------------------------------------------------
(* RunSubscriber *)

\* Slip: a space is watched while a hook there is on.
EnabledTopics == {s \in Spaces : EnabledIn(s) # {}}

\* watchedTopics: the space of every hook, one that is off included.
WatchedTopics == {HookSpace[h] : h \in {x \in Hooks : HasRow(x)}}

\* (A listing that fails is tried again after five seconds.)
ListTopics ==
    /\ sub.phase = "listing"
    /\ sub' = [NewSub EXCEPT !.phase = "listed", !.topics = WatchedTopics]
    /\ UNCHANGED <<hook, events, published, last, lane, late, faults>>

Subscribe ==
    /\ sub.phase = "listed"
    /\ sub' = [sub EXCEPT !.phase = "subscribed", !.open = TRUE]
    /\ UNCHANGED <<hook, events, published, last, lane, late, faults>>

Store ==
    /\ sub.phase = "subscribed"
    /\ sub' = [sub EXCEPT !.phase = "consuming"]
    /\ UNCHANGED <<hook, events, published, last, lane, late, faults>>

\* Slip: the fan-out is queued at the event's own time.
AtItsTime(at) == at

\* nextSequence
NextSequence(at) == IF at > last + 1 THEN at ELSE last + 1

\* consume and enqueue: one fan-out in the space's lane if an enabled hook
\* wants the event; one that cannot be queued is logged and lost.
Consume ==
    /\ sub.phase = "consuming" /\ events # <<>>
    /\ events' = Tail(events)
    /\ LET e == Head(events) IN
       IF EnabledIn(e.space) = {} THEN UNCHANGED <<last, lane, faults>>
       ELSE /\ last' = NextSequence(e.at)
            /\ \/ /\ lane' = Append(lane, [event |-> e.n, space |-> e.space, sequence |-> NextSequence(e.at)])
                  /\ UNCHANGED faults
               \/ UNCHANGED lane /\ Fault
    /\ UNCHANGED <<hook, sub, published, late>>

\* The channel is closed and drained: start over.  The old subscription
\* stays stored, closed.
Resubscribe ==
    /\ sub.phase = "consuming" /\ ~sub.open /\ events = <<>>
    /\ sub' = NewSub /\ late' = {}
    /\ UNCHANGED <<hook, events, published, last, lane, faults>>

\* The process ends and another starts.
Restart ==
    /\ Fault
    /\ sub' = NewSub /\ events' = <<>>
    /\ last' = 0 /\ lane' = <<>> /\ late' = {}
    /\ UNCHANGED <<hook, published>>

-----------------------------------------------------------------------------
(* The bus *)

\* Slip: one event more than the channel holds.
OneMore == Len(events) <= Buffer

Room == Len(events) < Buffer

\* Publish: handed to the subscription, or the subscription is dropped.  The
\* publisher stamped the event before: stamps need not be in order.
Publish(s, at) ==
    /\ published < MaxEvents /\ published' = published + 1
    /\ IF ~sub.open \/ s \notin sub.topics THEN UNCHANGED <<sub, events>>
       ELSE IF Room
            THEN events' = Append(events, [n |-> published + 1, space |-> s, at |-> at]) /\ UNCHANGED sub
            ELSE sub' = [sub EXCEPT !.open = FALSE] /\ UNCHANGED events
    /\ UNCHANGED <<hook, last, lane, late, faults>>

Next ==
    \/ \E h \in Hooks : InsertHook(h) \/ WatchSpace(h) \/ Toggle(h) \/ DeleteHook(h)
    \/ ListTopics \/ Subscribe \/ Store \/ Consume \/ Resubscribe \/ Restart
    \/ \E s \in Spaces, at \in Stamps : Publish(s, at)

Spec == Init /\ [][Next]_vars

\* RunSubscriber's goroutine goes on.
FairSpec ==
    Spec /\ WF_vars(ListTopics) /\ WF_vars(Subscribe) /\ WF_vars(Store)
         /\ WF_vars(Consume) /\ WF_vars(Resubscribe)

-----------------------------------------------------------------------------
(* Properties *)

\* Every piece of state has the shape the code gives it; the channel never
\* holds more than its buffer.
TypeOK ==
    /\ hook \in [Hooks -> [life : {"none", "inserted", "made", "gone"}, enabled : BOOLEAN]]
    /\ sub \in [phase : {"listing", "listed", "subscribed", "consuming"},
                topics : SUBSET Spaces, open : BOOLEAN]
    /\ events \in Seq([n : 1 .. MaxEvents, space : Spaces, at : Stamps]) /\ Len(events) <= Buffer
    /\ published \in 0 .. MaxEvents /\ last \in Nat
    /\ lane \in Seq([event : 1 .. MaxEvents, space : Spaces, sequence : Nat])
    /\ late \subseteq Hooks /\ faults \in 0 .. MaxFaults

\* Once CreateOutgoing has answered, a subscriber that is listening hears the
\* hook's space, whatever was turned off, deleted or dropped before.  The one
\* hook missed is one made between a listing and the moment its subscription
\* was stored (subscriber.go RunSubscriber, watchSpace).
HookIsHeard ==
    Listening => \A h \in Hooks : hook[h].life = "made" => HookSpace[h] \in sub.topics \/ h \in late

\* A space's fan-outs are queued in the order the bus published the events,
\* and their lane runs them so, though publishers stamp events before they
\* publish them and a dropped subscription is replaced between two events
\* (subscriber.go nextSequence).
LaneAsPublished ==
    \A i, j \in 1 .. Len(lane) :
        i < j /\ lane[i].space = lane[j].space =>
            lane[i].event < lane[j].event /\ lane[i].sequence < lane[j].sequence

\* A hook is heard in the end, through drops and restarts, unless it is
\* deleted or was made in that gap (subscriber.go RunSubscriber).
HeardInTheEnd ==
    \A h \in Hooks :
        hook[h].life = "made" ~>
            (sub.open /\ HookSpace[h] \in sub.topics) \/ h \in late \/ hook[h].life = "gone"
=============================================================================
