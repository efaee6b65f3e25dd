-------------------------- MODULE ChannelLogProofs --------------------------
(***************************************************************************)
(* Theorems about ChannelLog, for every value of its constants.            *)
(***************************************************************************)
EXTENDS ChannelLog, TLAPS

-----------------------------------------------------------------------------
(* The helpers are total on the types they are used at.                    *)

LEMMA FreshType == ASSUME NEW n \in Nat PROVE Fresh(n) \in Row /\ Fresh(n).seq = n
<1>1. \A p \in Parts : Blank[p] \in Values
  BY DEF Blank, Parts, Values
<1>2. \A p \in Parts : WrittenAt(n, Blank[p]) \in Part
  BY <1>1 DEF WrittenAt, Part
<1> QED
  BY <1>2 DEF Fresh, Row

LEMMA NoRowType == NoRow \in Row /\ NoRow.seq = 0 /\ NoRows \in [Msgs -> Row]
BY FreshType DEF NoRow, NoRows

LEMMA WithPartType ==
    ASSUME NEW r \in Row, NEW n \in Nat, NEW p \in Parts, NEW v \in Part
    PROVE  WithPart(r, n, p, v) \in Row /\ WithPart(r, n, p, v).seq = n
BY DEF WithPart, Row

LEMMA WrittenAtType ==
    ASSUME NEW n \in Nat, NEW v \in Values PROVE WrittenAt(n, v) \in Part
BY DEF WrittenAt, Part

LEMMA TombstoneType ==
    ASSUME NEW r \in Row, NEW n \in Nat
    PROVE  Tombstone(r, n) \in Row /\ Tombstone(r, n).seq = n /\ Deleted(Tombstone(r, n))
<1>1. WrittenAt(n, "gone") \in Part /\ WrittenAt(n, "none") \in Part
  BY WrittenAtType DEF Values
<1>2. r.part \in [Parts -> Part]
  BY DEF Row
<1> QED
  BY <1>1, <1>2 DEF Tombstone, Row, Deleted, WrittenAt, Parts

LEMMA MergedType ==
    ASSUME NEW held \in [Msgs -> Row], NEW copies \in [Msgs -> Row], NEW b \in BOOLEAN,
           NEW f \in Nat
    PROVE  AboveFloor(Merged(held, copies, b), f) \in [Msgs -> Row]
BY NoRowType DEF Merged, AboveFloor

LEMMA HigherType ==
    ASSUME NEW a \in Nat, NEW b \in Nat
    PROVE  Higher(a, b) \in Nat /\ Higher(a, b) >= a /\ Higher(a, b) >= b
BY DEF Higher

LEMMA ChangedType ==
    ASSUME NEW e \in Event, NEW held \in Row
    PROVE  Changed(e, held) \in Row
BY NoRowType, TombstoneType, WithPartType DEF Changed, Event

LEMMA EventTypes ==
    ASSUME NEW m \in Msgs, NEW n \in Nat
    PROVE  /\ \A r \in Row : RowEvent(m, r) \in Event
           /\ DeletedEvent(m, n) \in Event
           /\ \A p \in Parts, v \in Part : PatchEvent(m, n, p, v) \in Event
<1>1. "content" \in Parts /\ WrittenAt(n, "gone") \in Part
  BY WrittenAtType DEF Parts, Values
<1> QED
  BY <1>1, NoRowType DEF RowEvent, DeletedEvent, PatchEvent, Event, Kinds, Row

LEMMA IdleType == Idle \in Request
BY NoRowType DEF Idle, Request, Steps

LEMMA AskedType ==
    ASSUME NEW n \in Nat PROVE Asked(n) \in Request
BY NoRowType DEF Asked, Idle, Request, Steps

LEMMA CountedType ==
    ASSUME TypeOK, NEW q \in Request PROVE Counted(q) \in Request
BY DEF Counted, Request, Steps, TypeOK

LEMMA ListedType ==
    ASSUME TypeOK, NEW q \in Request, NEW ms, NEW more \in BOOLEAN
    PROVE  Listed(q, ms, more) \in Request
<1>1. [m \in Msgs |-> IF m \in ms THEN messages[m] ELSE NoRow] \in [Msgs -> Row]
  BY NoRowType DEF TypeOK
<1> QED
  BY <1>1 DEF Listed, Request, Steps, TypeOK

\* The position the last page leads to is a seq at or past the lowest allowed.
LEMMA HighestType ==
    ASSUME run \in Request, NEW low \in SUBSET Nat, NEW n \in Highest(low)
    PROVE  n \in Nat /\ \A k \in low : k <= n
<1>1. \A m \in Msgs : run.rows[m].seq \in Nat
  BY DEF Request, Row
<1> QED
  BY <1>1 DEF Highest

-----------------------------------------------------------------------------
(* The type invariant.                                                     *)

LEMMA InitType == Init => TypeOK
<1> SUFFICES ASSUME Init PROVE TypeOK
  OBVIOUS
<1>1. made \in 0 .. MaxMsg /\ Buffer \in Nat
  BY BoundsAssumption DEF Init
<1>2. wire \in Seq(Event) /\ Len(wire) <= Buffer
  BY <1>1 DEF Init
<1>3. load \in [Loads -> Request] /\ run \in Request
  BY IdleType DEF Init
<1>4. messages \in [Msgs -> Row] /\ rows \in [Msgs -> Row]
  BY NoRowType DEF Init
<1> QED
  BY <1>1, <1>2, <1>3, <1>4 DEF Init, TypeOK

\* What every write to an existing or a new row leaves behind.
LEMMA CommitType ==
    ASSUME TypeOK, NEW m \in Msgs, NEW r \in Row,
           NEW told \in SUBSET Event, NEW reloads \in SUBSET {"edit", "react"},
           Commit(m, r, told, reloads), made' \in 0 .. MaxMsg
    PROVE  TypeOK'
<1>1. channelSeq' \in Nat /\ messages' \in [Msgs -> Row]
  BY DEF Commit, TypeOK, Row
<1>2. outbox' \in SUBSET Outgoing
  BY DEF Commit, TypeOK, Outgoing, Row
<1>3. reloading' \in SUBSET Reload
  <2>1. \A k \in reloads : [msg |-> m, seq |-> r.seq, kind |-> k] \in Reload
    BY DEF Reload, Row
  <2> QED
    BY <2>1 DEF Commit, TypeOK
<1> QED
  BY <1>1, <1>2, <1>3 DEF Commit, TypeOK, log, history

LEMMA ServerType == TypeOK /\ Server => TypeOK'
<1> SUFFICES ASSUME TypeOK, Server PROVE TypeOK'
  OBVIOUS
<1>0. NextSeq \in Nat /\ channelSeq \in Nat /\ messages \in [Msgs -> Row]
  BY DEF TypeOK, NextSeq
<1>v. \A v \in Values : WrittenAt(NextSeq, v) \in Part
  BY <1>0, WrittenAtType
<1>p. {"content", "reactions", "pin"} \subseteq Parts
      /\ {"text", "gone", "some", "on", "off"} \subseteq Values
  BY DEF Parts, Values
<1>1. CASE SendMessage
  <2>1. made + 1 \in Msgs /\ made' \in 0 .. MaxMsg
    BY <1>1, BoundsAssumption DEF SendMessage, Msgs, TypeOK
  <2>2. Fresh(NextSeq) \in Row
    BY <1>0, FreshType
  <2>3. RowEvent(made + 1, Fresh(NextSeq)) \in Event
    BY <2>1, <2>2, <1>0, EventTypes
  <2> QED
    BY <1>1, <2>1, <2>2, <2>3, CommitType DEF SendMessage
<1>2. ASSUME NEW m \in Msgs,
             \/ EditMessage(m) \/ ToggleReaction(m) \/ PinMessage(m)
             \/ UnpinMessage(m) \/ DeleteMessage(m)
      PROVE  TypeOK'
  <2>0. messages[m] \in Row /\ made \in 0 .. MaxMsg
    BY DEF TypeOK
  <2>1. CASE EditMessage(m)
    <3>1. WithPart(messages[m], NextSeq, "content", WrittenAt(NextSeq, "text")) \in Row
      BY <1>0, <1>v, <1>p, <2>0, WithPartType
    <3> QED
      BY <2>0, <2>1, <3>1, CommitType DEF EditMessage
  <2>2. CASE ToggleReaction(m)
    <3>1. WithPart(messages[m], NextSeq, "reactions", WrittenAt(NextSeq, "some")) \in Row
      BY <1>0, <1>v, <1>p, <2>0, WithPartType
    <3> QED
      BY <2>0, <2>2, <3>1, CommitType DEF ToggleReaction
  <2>3. CASE PinMessage(m)
    <3>1. WithPart(messages[m], NextSeq, "pin", WrittenAt(NextSeq, "on")) \in Row
      BY <1>0, <1>v, <1>p, <2>0, WithPartType
    <3>2. PinEvent(m, "on") \in Event
      BY <1>0, <1>v, <1>p, EventTypes DEF PinEvent
    <3> QED
      BY <2>0, <2>3, <3>1, <3>2, CommitType DEF PinMessage
  <2>4. CASE UnpinMessage(m)
    <3>1. WithPart(messages[m], NextSeq, "pin", WrittenAt(NextSeq, "off")) \in Row
      BY <1>0, <1>v, <1>p, <2>0, WithPartType
    <3>2. PinEvent(m, "off") \in Event
      BY <1>0, <1>v, <1>p, EventTypes DEF PinEvent
    <3> QED
      BY <2>0, <2>4, <3>1, <3>2, CommitType DEF UnpinMessage
  <2>5. CASE DeleteMessage(m)
    <3>1. Tombstone(messages[m], NextSeq) \in Row
      BY <1>0, <2>0, TombstoneType
    <3>2. WithPart(Tombstone(messages[m], NextSeq), NextSeq,
                   "pin", WrittenAt(NextSeq, "off")) \in Row
      BY <1>0, <1>v, <1>p, <3>1, WithPartType
    <3>3. DeletedEvent(m, NextSeq) \in Event
      BY <1>0, EventTypes
    <3> QED
      BY <2>0, <2>5, <3>2, <3>3, CommitType DEF DeleteMessage
  <2> QED
    BY <1>2, <2>1, <2>2, <2>3, <2>4, <2>5
<1>3. CASE MoveCutoff
  BY <1>3 DEF MoveCutoff, TypeOK, delivery, log, history
<1>4. CASE ListExpired
  BY <1>4 DEF ListExpired, TypeOK, delivery, log, history
<1>5. CASE SweepChannel
  BY <1>5, NoRowType DEF SweepChannel, TypeOK, delivery, log, history
<1> QED
  BY <1>1, <1>2, <1>3, <1>4, <1>5 DEF Server

LEMMA ReloadedType ==
    ASSUME TypeOK, NEW w \in reloading PROVE Reloaded(w) \in Event
<1>1. w \in Reload /\ w.msg \in Msgs /\ w.seq \in Nat /\ messages[w.msg] \in Row
  BY DEF TypeOK, Reload
<1>2. "reactions" \in Parts /\ messages[w.msg].part["reactions"] \in Part
  BY <1>1 DEF Parts, Row
<1>3. RowEvent(w.msg, messages[w.msg]) \in Event
  BY <1>1, EventTypes
<1>4. PatchEvent(w.msg, w.seq, "reactions", messages[w.msg].part["reactions"]) \in Event
  BY <1>1, <1>2, EventTypes
<1> QED
  BY <1>3, <1>4 DEF Reloaded

LEMMA DeliveryType == TypeOK /\ Delivery => TypeOK'
<1> SUFFICES ASSUME TypeOK, Delivery PROVE TypeOK'
  OBVIOUS
<1> USE DEF server, log, history
<1>1. ASSUME NEW w \in reloading, ReloadRow(w) PROVE TypeOK'
  <2>1. [of |-> w.seq, event |-> Reloaded(w)] \in Outgoing
    BY ReloadedType DEF TypeOK, Outgoing, Reload
  <2> QED
    BY <1>1, <2>1 DEF ReloadRow, TypeOK
<1>2. ASSUME NEW w \in reloading, LoseEvent(w) PROVE TypeOK'
  BY <1>2 DEF LoseEvent, TypeOK
<1>3. ASSUME NEW o \in outbox, Publish(o) PROVE TypeOK'
  <2>1. o.event \in Event
    BY DEF TypeOK, Outgoing
  <2>2. wire' \in Seq(Event) /\ Len(wire') <= Buffer
    <3>1. wire \in Seq(Event) /\ Len(wire) <= Buffer
      BY DEF TypeOK
    <3>2. wire' = wire \/ (Len(wire) < Buffer /\ wire' = Append(wire, o.event))
      BY <1>3 DEF Publish
    <3> QED
      BY <2>1, <3>1, <3>2, BoundsAssumption
  <2> QED
    BY <1>3, <2>2 DEF Publish, TypeOK
<1>4. CASE Connect
  <2>1. wire' \in Seq(Event) /\ Len(wire') <= Buffer
    BY <1>4, BoundsAssumption DEF Connect
  <2> QED
    BY <1>4, <2>1 DEF Connect, TypeOK
<1>5. CASE Disconnect
  <2>1. wire' \in Seq(Event) /\ Len(wire') <= Buffer
    BY <1>5, BoundsAssumption DEF Disconnect
  <2> QED
    BY <1>5, <2>1 DEF Disconnect, TypeOK
<1>6. CASE ReceiveReady
  <2>1. run' \in Request
    BY <1>6, AskedType DEF ReceiveReady, StartsRun, TypeOK
  <2> QED
    BY <1>6, <2>1 DEF ReceiveReady, TypeOK
<1>7. CASE ReceiveEvent
  <2>1. Head(wire) \in Event /\ wire' \in Seq(Event) /\ Len(wire') <= Buffer
    BY <1>7, BoundsAssumption DEF ReceiveEvent, TypeOK
  <2> DEFINE e == Head(wire)
  <2>2. e.msg \in Msgs /\ e.seq \in Nat /\ Changed(e, rows[e.msg]) \in Row
    BY <2>1, ChangedType DEF Event, TypeOK
  <2>3. /\ rows' \in [Msgs -> Row] /\ seenSeq' \in Nat /\ seq' \in Nat
        /\ needsCatchUp' \in BOOLEAN /\ vouched' \in SUBSET Msgs
    <3>1. CASE hasPage /\ e.seq <= seq
      BY <1>7, <3>1 DEF ReceiveEvent, TypeOK
    <3>2. CASE ~(hasPage /\ e.seq <= seq)
      BY <1>7, <3>2, <2>2, HigherType DEF ReceiveEvent, ApplyEvent, TypeOK
    <3> QED
      BY <3>1, <3>2
  <2>4. run' \in Request
    BY <1>7, <2>3, AskedType DEF ReceiveEvent, StartsRun, TypeOK
  <2> QED
    BY <1>7, <2>1, <2>3, <2>4 DEF ReceiveEvent, TypeOK
<1> QED
  BY <1>1, <1>2, <1>3, <1>4, <1>5, <1>6, <1>7 DEF Delivery

LEMMA TakeRowsType ==
    ASSUME TypeOK, NEW q \in Request, TakeRows(q)
    PROVE  floor' \in Nat /\ rows' \in [Msgs -> Row]
<1>1. q.rows \in [Msgs -> Row] /\ q.floor \in Nat
  BY DEF Request
<1>2. floor' \in Nat
  BY <1>1, HigherType DEF TakeRows, TypeOK
<1> QED
  BY <1>1, <1>2, MergedType DEF TakeRows, TypeOK

LEMMA PageType == ASSUME TypeOK, NEW l \in Loads, Page(l) PROVE TypeOK'
<1> USE DEF Outside, server, delivery, log, history
<1>0. load \in [Loads -> Request] /\ load[l] \in Request /\ Idle \in Request
  BY IdleType DEF TypeOK
<1>r. load[l].top \in Nat /\ load[l].conn \in Nat /\ Won(load[l]) \in SUBSET Msgs
  BY <1>0 DEF Request, Won
<1>1. CASE AskPage(l)
  <2>1. [Idle EXCEPT !.early = ~hasPage] \in Request
    BY <1>0 DEF Request
  <2>2. Counted([Idle EXCEPT !.early = ~hasPage]) \in Request
    BY <2>1, CountedType
  <2> QED
    BY <1>1, <2>2 DEF AskPage, TypeOK
<1>2. CASE ListPage(l)
  <2>1. \A ms : Listed(load[l], ms, FALSE) \in Request
    BY <1>0, ListedType
  <2>2. load' \in [Loads -> Request]
    BY <1>0, <1>2, <2>1 DEF ListPage
  <2> QED
    BY <1>2, <2>2 DEF ListPage, TypeOK
<1>3. CASE OpenFirst(l)
  <2>1. floor' \in Nat /\ rows' \in [Msgs -> Row]
    BY <1>0, <1>3, TakeRowsType DEF OpenFirst
  <2>2. seq' \in Nat /\ needsCatchUp' \in BOOLEAN /\ posConn' \in Nat
    BY <1>3, <1>r DEF OpenFirst, Positioned
  <2>3. run' \in Request
    BY <1>3, <2>2, AskedType DEF OpenFirst, StartsRun, TypeOK
  <2>4. load' \in [Loads -> Request] /\ vouched' \in SUBSET Msgs
    BY <1>0, <1>3, <1>r DEF OpenFirst, TypeOK
  <2> QED
    BY <1>3, <2>1, <2>2, <2>3, <2>4 DEF OpenFirst, TypeOK
<1>4. CASE TakePage(l)
  <2>1. floor' \in Nat /\ rows' \in [Msgs -> Row]
    BY <1>0, <1>4, TakeRowsType DEF TakePage
  <2>3. run' \in Request
    BY <1>4, AskedType DEF TakePage, StartsRun, TypeOK
  <2>4. load' \in [Loads -> Request] /\ vouched' \in SUBSET Msgs
    BY <1>0, <1>4, <1>r DEF TakePage, TypeOK
  <2> QED
    BY <1>4, <2>1, <2>3, <2>4 DEF TakePage, TypeOK
<1>5. CASE DropPage(l)
  <2>1. run' \in Request
    BY <1>5, AskedType DEF DropPage, StartsRun, TypeOK
  <2> QED
    BY <1>0, <1>5, <2>1 DEF DropPage, TypeOK
<1>6. CASE FailPage(l)
  BY <1>0, <1>6 DEF FailPage, TypeOK
<1> QED
  BY <1>1, <1>2, <1>3, <1>4, <1>5, <1>6 DEF Page

LEMMA CatchUpType == TypeOK /\ CatchUp => TypeOK'
<1> SUFFICES ASSUME TypeOK, CatchUp PROVE TypeOK'
  OBVIOUS
<1> USE DEF Outside, server, delivery, log, history
<1>0. run \in Request /\ Idle \in Request /\ seq \in Nat
  BY IdleType DEF TypeOK
<1>r. run.top \in Nat /\ run.since \in Nat /\ run.conn \in Nat
      /\ Won(run) \in SUBSET Msgs
  BY <1>0 DEF Request, Won
<1>1. CASE CountChanges
  BY <1>0, <1>1, CountedType DEF CountChanges, TypeOK
<1>2. CASE ListChanges
  <2>1. run' \in Request
    BY <1>0, <1>2, ListedType DEF ListChanges
  <2> QED
    BY <1>2, <2>1 DEF ListChanges, TypeOK
<1>3. CASE MergeChanges
  <2>1. floor' \in Nat /\ rows' \in [Msgs -> Row]
    BY <1>0, <1>3, TakeRowsType DEF MergeChanges
  <2>2. PICK n \in Highest({run.since}) : run' = Asked(n)
    BY <1>3 DEF MergeChanges
  <2>3. run' \in Request
    BY <1>0, <1>r, <2>2, HighestType, AskedType
  <2>4. vouched' \in SUBSET Msgs
    BY <1>3, <1>r DEF MergeChanges, TypeOK
  <2> QED
    BY <1>3, <2>1, <2>3, <2>4 DEF MergeChanges, TypeOK
<1>4. CASE CaughtUp
  <2>1. floor' \in Nat /\ rows' \in [Msgs -> Row]
    BY <1>0, <1>4, TakeRowsType DEF CaughtUp
  <2>2. PICK n \in Highest({seq, run.top}) : Positioned(n)
    BY <1>4 DEF CaughtUp
  <2>3. n \in Nat
    BY <1>0, <1>r, HighestType
  <2>4. seq' \in Nat /\ needsCatchUp' \in BOOLEAN
    BY <2>2, <2>3 DEF Positioned
  <2>5. run' \in Request
    BY <1>0, <1>4, <2>4, AskedType DEF CaughtUp
  <2>6. vouched' \in SUBSET Msgs /\ posConn' \in Nat
    BY <1>4, <1>r DEF CaughtUp, TypeOK
  <2> QED
    BY <1>4, <2>1, <2>4, <2>5, <2>6 DEF CaughtUp, TypeOK
<1>5. CASE FailChanges
  <2>1. [Idle EXCEPT !.step = "backoff"] \in Request
    BY <1>0 DEF Request, Steps
  <2> QED
    BY <1>0, <1>5, <2>1 DEF FailChanges, TypeOK
<1>6. CASE RefuseChanges
  BY <1>0, <1>6 DEF RefuseChanges, TypeOK
<1>7. CASE RetryChanges
  BY <1>0, <1>7, AskedType DEF RetryChanges, TypeOK
<1> QED
  BY <1>1, <1>2, <1>3, <1>4, <1>5, <1>6, <1>7 DEF CatchUp

LEMMA TypeStep == TypeOK /\ [Next]_vars => TypeOK'
<1> SUFFICES ASSUME TypeOK, [Next]_vars PROVE TypeOK'
  OBVIOUS
<1>1. CASE Server
  BY <1>1, ServerType
<1>2. CASE Delivery
  BY <1>2, DeliveryType
<1>3. ASSUME NEW l \in Loads, Page(l) PROVE TypeOK'
  BY <1>3, PageType
<1>4. CASE CatchUp
  BY <1>4, CatchUpType
<1>5. CASE Forget
  <2>1. load' \in [Loads -> Request] /\ run' \in Request /\ rows' \in [Msgs -> Row]
    BY <1>5, NoRowType, IdleType DEF Forget
  <2>2. UNCHANGED <<server, delivery>>
    BY <1>5 DEF Forget, Outside
  <2>3. forgets' \in Nat /\ vouched' \in SUBSET Msgs
    BY <1>5 DEF Forget, TypeOK
  <2> QED
    BY <1>5, <2>1, <2>2, <2>3 DEF Forget, TypeOK, server, delivery
<1>6. CASE UNCHANGED vars
  BY <1>6 DEF vars, TypeOK, server, delivery, log, history
<1> QED
  BY <1>1, <1>2, <1>3, <1>4, <1>5, <1>6 DEF Next

\* Every variable keeps its type; among them, the subscription never holds
\* more than its buffer (bus.go, subscriptionBuffer).
THEOREM TypeCorrect == Spec => []TypeOK
BY InitType, TypeStep, PTL DEF Spec

-----------------------------------------------------------------------------
(* The position and the debt.                                              *)

Position == <<seq, seenSeq, needsCatchUp, hasPage>>

\* What an event with seq n does to them: it follows the position and moves it
\* on, or a catch-up is owed.
Sees(n) ==
    /\ seenSeq' = Higher(seenSeq, n) /\ UNCHANGED hasPage
    /\ \/ n = seq + 1 /\ seq' = n /\ UNCHANGED needsCatchUp
       \/ seq' = seq /\ (hasPage => needsCatchUp')

\* Only four steps touch the position or the debt: Ready, an event, the first
\* page and the last page of a catch-up (and Forget starts over).
LEMMA PositionMoves ==
    ASSUME TypeOK, [Next]_vars, ~Forget
    PROVE  \/ UNCHANGED Position
           \/ needsCatchUp' /\ UNCHANGED <<seq, seenSeq, hasPage>>
           \/ \E n \in Nat : Sees(n)
           \/ ~hasPage /\ Positioned(seq') /\ UNCHANGED seenSeq
           \/ seq' >= seq /\ Positioned(seq') /\ UNCHANGED <<seenSeq, hasPage>>
<1> USE DEF Outside, server, delivery, log, history, Position
<1>1. CASE Server
  <2>1. ASSUME NEW m, NEW r, NEW told, NEW reloads, Commit(m, r, told, reloads)
        PROVE  UNCHANGED Position
    BY <2>1 DEF Commit
  <2>2. CASE SendMessage
    BY <2>1, <2>2 DEF SendMessage
  <2>3. ASSUME NEW m \in Msgs, EditMessage(m) \/ ToggleReaction(m) \/ PinMessage(m)
                               \/ UnpinMessage(m) \/ DeleteMessage(m)
        PROVE  UNCHANGED Position
    BY <2>1, <2>3 DEF EditMessage, ToggleReaction, PinMessage, UnpinMessage, DeleteMessage
  <2>4. CASE MoveCutoff \/ ListExpired \/ SweepChannel
    BY <2>4 DEF MoveCutoff, ListExpired, SweepChannel
  <2> QED
    BY <1>1, <2>2, <2>3, <2>4 DEF Server
<1>2. CASE Delivery
  <2>1. CASE ReceiveEvent
    <3>1. Head(wire) \in Event
      BY <2>1 DEF ReceiveEvent, TypeOK
    <3>2. Head(wire).seq \in Nat
      BY <3>1 DEF Event
    <3>3. CASE hasPage /\ Head(wire).seq <= seq
      BY <2>1, <3>3 DEF ReceiveEvent
    <3>4. CASE ~(hasPage /\ Head(wire).seq <= seq)
      <4>1. ApplyEvent(Head(wire)) /\ UNCHANGED hasPage
        BY <2>1, <3>4 DEF ReceiveEvent
      <4>2. Sees(Head(wire).seq)
        BY <4>1 DEF ApplyEvent, Sees, TypeOK
      <4> QED
        BY <3>2, <4>2
    <3> QED
      BY <3>3, <3>4
  <2> QED
    BY <1>2, <2>1 DEF Delivery, ReloadRow, LoseEvent, Publish, Connect, Disconnect,
                      ReceiveReady
<1>3. ASSUME NEW l \in Loads, Page(l)
      PROVE  UNCHANGED Position \/ (~hasPage /\ Positioned(seq') /\ UNCHANGED seenSeq)
  BY <1>3 DEF Page, AskPage, ListPage, OpenFirst, TakePage, DropPage, FailPage, Positioned
<1>4. CASE CatchUp
  <2>1. CASE CaughtUp
    <3>1. run \in Request /\ {seq, run.top} \in SUBSET Nat
      BY DEF TypeOK, Request
    <3>2. PICK n \in Highest({seq, run.top}) : Positioned(n)
      BY <2>1 DEF CaughtUp
    <3>3. n >= seq /\ seq' = n
      BY <3>1, <3>2, HighestType DEF Positioned
    <3> QED
      BY <2>1, <3>2, <3>3 DEF CaughtUp
  <2> QED
    BY <1>4, <2>1 DEF CatchUp, CountChanges, ListChanges, MergeChanges, FailChanges,
                      RefuseChanges, RetryChanges
<1>5. CASE UNCHANGED vars
  BY <1>5 DEF vars
<1> QED
  BY <1>1, <1>2, <1>3, <1>4, <1>5 DEF Next

LEMMA GapStep == TypeOK /\ GapIsOwed /\ [Next]_vars => GapIsOwed'
<1> SUFFICES ASSUME TypeOK, GapIsOwed, [Next]_vars PROVE GapIsOwed'
  OBVIOUS
<1>1. CASE Forget
  BY <1>1 DEF Forget, GapIsOwed
<1>2. CASE ~Forget
  <2>1. ASSUME NEW n \in Nat, Sees(n) PROVE GapIsOwed'
    \* An event that follows the position leaves any gap above it as it was.
    BY <2>1 DEF Sees, Higher, GapIsOwed, TypeOK
  <2>2. CASE Positioned(seq') /\ UNCHANGED seenSeq
    BY <2>2 DEF Positioned, GapIsOwed
  <2>3. CASE needsCatchUp' /\ UNCHANGED <<seq, seenSeq, hasPage>>
    BY <2>3 DEF GapIsOwed
  <2>4. CASE UNCHANGED Position
    BY <2>4 DEF Position, GapIsOwed
  <2> QED
    BY <1>2, <2>1, <2>2, <2>3, <2>4, PositionMoves
<1> QED
  BY <1>1, <1>2

\* A seq seen above the position always leaves a catch-up owed (position.ts):
\* no answer, however late or early, forgets an event it does not reach.
THEOREM GapAlwaysOwed == Spec => []GapIsOwed
<1>1. Init => GapIsOwed
  BY DEF Init, GapIsOwed
<1> QED
  BY <1>1, TypeCorrect, GapStep, PTL DEF Spec

\* The position never goes back while the log has a page (catchUp.ts).
THEOREM PositionNeverFalls == Spec => PositionStands
<1>1. ASSUME TypeOK, [Next]_vars
      PROVE  [hasPage /\ hasPage' => seq <= seq']_<<hasPage, seq>>
  <2>1. CASE Forget
    BY <2>1 DEF Forget
  <2>2. CASE ~Forget
    BY <1>1, <2>2, PositionMoves DEF Position, Sees, TypeOK
  <2> QED
    BY <2>1, <2>2
<1> QED
  BY <1>1, TypeCorrect, PTL DEF Spec, PositionStands

-----------------------------------------------------------------------------
(* What every copy and every event in the system says of its message: that *)
(* it was there, or gone, at a seq.  Only a write to the message adds to    *)
(* what is said; all the rest passes on what was said before.              *)

Is(gone) == IF gone THEN "gone" ELSE "text"
Says(m, n, is) == [msg |-> m, seq |-> n, is |-> is]

CopySays(m, r) == Says(m, r.seq, Is(Deleted(r)))
EventSays(e) ==
    Says(e.msg, e.seq, Is(e.kind = "deleted" \/ (e.kind = "row" /\ Deleted(e.row))))
Of(copies) == {CopySays(m, copies[m]) : m \in {k \in Msgs : Exists(copies[k])}}

Said ==
    UNION {Of(messages), Of(rows), Of(run.rows), UNION {Of(load[l].rows) : l \in Loads},
           {Says(w.msg, w.seq, "text") : w \in reloading},
           {EventSays(o.event) : o \in outbox},
           {EventSays(wire[i]) : i \in 1 .. Len(wire)}}

\* A row event's seq is its row's, and a patch never touches the content.
Sound(e) ==
    /\ e.kind = "row" => e.row.seq = e.seq /\ Exists(e.row)
    /\ e.kind = "patch" => e.p # "content"

EventsSound ==
    /\ \A o \in outbox : Sound(o.event)
    /\ \A i \in 1 .. Len(wire) : Sound(wire[i])

\* Nothing said of a message is ahead of it, and the unsent are not spoken of.
SaidFits ==
    \A s \in Said : /\ s.seq <= channelSeq /\ s.msg <= made
                    /\ Exists(messages[s.msg]) => s.seq <= messages[s.msg].seq

\* Deletion is the last thing said of a message.
DeletionIsLast ==
    \A s, t \in Said : s.msg = t.msg /\ s.is = "gone" /\ s.seq <= t.seq => t.is = "gone"

PositionsFit ==
    /\ seq <= channelSeq /\ seenSeq <= channelSeq /\ run.top <= channelSeq
    /\ \A l \in Loads : load[l].top <= channelSeq

PinnedIsLive == \A m \in Msgs : Pinned(messages[m]) => Live(messages[m])

\* The inductive invariant under NotAhead and StaysDeleted.
SaidInv ==
    TypeOK /\ EventsSound /\ SaidFits /\ DeletionIsLast /\ PositionsFit /\ PinnedIsLive

LEMMA SaidParts ==
    /\ Of(messages) \subseteq Said /\ Of(rows) \subseteq Said /\ Of(run.rows) \subseteq Said
    /\ \A l \in Loads : Of(load[l].rows) \subseteq Said
    /\ \A w \in reloading : Says(w.msg, w.seq, "text") \in Said
    /\ \A o \in outbox : EventSays(o.event) \in Said
    /\ \A i \in 1 .. Len(wire) : EventSays(wire[i]) \in Said
BY DEF Said

LEMMA SaidFrom ==
    ASSUME NEW S,
           Of(messages') \subseteq S, Of(rows') \subseteq S, Of(run'.rows) \subseteq S,
           \A l \in Loads : Of(load'[l].rows) \subseteq S,
           \A w \in reloading' : Says(w.msg, w.seq, "text") \in S,
           \A o \in outbox' : EventSays(o.event) \in S,
           \A i \in 1 .. Len(wire') : EventSays(wire'[i]) \in S
    PROVE  Said' \subseteq S
BY DEF Said

LEMMA OfCopies ==
    ASSUME NEW copies, NEW S,
           \A m \in Msgs : Exists(copies[m]) => CopySays(m, copies[m]) \in S
    PROVE  Of(copies) \subseteq S
BY DEF Of

LEMMA CopyInOf ==
    ASSUME NEW copies, NEW m \in Msgs, Exists(copies[m])
    PROVE  CopySays(m, copies[m]) \in Of(copies)
BY DEF Of

LEMMA NoRowSays == ~Exists(NoRow) /\ Of(NoRows) = {}
<1>1. ~Exists(NoRow)
  BY NoRowType DEF Exists
<1> QED
  BY <1>1 DEF Of, NoRows

LEMMA IdleSays ==
    /\ Of(Idle.rows) = {}
    /\ \A n : Of(Asked(n).rows) = {}
    /\ \A q \in Request : Counted(q).rows = q.rows /\ Counted(q).top = channelSeq
BY NoRowSays DEF Idle, Asked, Counted, Request

LEMMA ListedSays ==
    ASSUME TypeOK, NEW q \in Request, NEW ms, NEW more
    PROVE  Of(Listed(q, ms, more).rows) \subseteq Of(messages) /\ Listed(q, ms, more).top = q.top
<1>1. Listed(q, ms, more).rows = [m \in Msgs |-> IF m \in ms THEN messages[m] ELSE NoRow]
  BY DEF Listed, Request
<1>2. Of(Listed(q, ms, more).rows) \subseteq Of(messages)
  BY <1>1, NoRowSays, CopyInOf, OfCopies
<1> QED
  BY <1>2 DEF Listed, Request

\* Every row held after an answer was held before it or came with it, and a
\* row still held is at least as new.
LEMMA TakenSays ==
    ASSUME TypeOK, NEW q \in Request, TakeRows(q)
    PROVE  /\ Of(rows') \subseteq Of(rows) \cup Of(q.rows)
           /\ \A m \in Msgs : Exists(rows'[m]) => rows[m].seq <= rows'[m].seq
<1>1. \A m \in Msgs : /\ rows'[m] \in {NoRow, rows[m], q.rows[m]}
                      /\ Exists(rows'[m]) => rows[m].seq <= rows'[m].seq
  <2> TAKE m \in Msgs
  <2>1. rows[m] \in Row /\ q.rows[m] \in Row
    BY DEF TypeOK, Request
  <2>2. Merged(rows, q.rows, TRUE)[m]
          = IF Wins(q.rows[m], rows[m], TRUE) THEN q.rows[m] ELSE rows[m]
    BY DEF Merged
  <2>3. rows'[m] = IF m < floor' /\ ~Pinned(Merged(rows, q.rows, TRUE)[m]) THEN NoRow
                   ELSE Merged(rows, q.rows, TRUE)[m]
    BY DEF TakeRows, AboveFloor
  <2> DEFINE won == Merged(rows, q.rows, TRUE)[m]
  <2>4. won \in {rows[m], q.rows[m]} /\ rows[m].seq <= won.seq
    <3>1. Wins(q.rows[m], rows[m], TRUE) => rows[m].seq <= q.rows[m].seq
      BY <2>1 DEF Wins, Row
    <3>2. rows[m].seq <= rows[m].seq
      BY <2>1 DEF Row
    <3> QED
      BY <2>2, <3>1, <3>2
  <2>5. rows'[m] = NoRow \/ rows'[m] = won
    BY <2>3
  <2> QED
    BY <2>4, <2>5, NoRowSays
<1>2. ASSUME NEW m \in Msgs, Exists(rows'[m])
      PROVE  CopySays(m, rows'[m]) \in Of(rows) \cup Of(q.rows)
  <2>1. rows'[m] = rows[m] \/ rows'[m] = q.rows[m]
    BY <1>1, <1>2, NoRowSays
  <2> QED
    BY <1>2, <2>1, CopyInOf
<1> QED
  BY <1>1, <1>2, OfCopies

\* A step that leaves the server's rows alone and only passes on what was said.
Passes ==
    /\ Said' \subseteq Said /\ EventsSound' /\ PositionsFit'
    /\ UNCHANGED <<channelSeq, made, messages>>

LEMMA ReloadedSays ==
    ASSUME SaidInv, NEW w \in reloading, Exists(messages[w.msg])
    PROVE  EventSays(Reloaded(w)) \in Said /\ Sound(Reloaded(w))
<1>1. w \in Reload /\ w.msg \in Msgs
  BY DEF SaidInv, TypeOK, Reload
<1>2. CASE w.kind = "edit"
  <2>1. EventSays(Reloaded(w)) = CopySays(w.msg, messages[w.msg])
    BY <1>2 DEF Reloaded, RowEvent, EventSays, CopySays, Is
  <2> QED
    BY <1>1, <1>2, <2>1, SaidParts, CopyInOf DEF Reloaded, RowEvent, Sound
<1>3. CASE w.kind # "edit"
  <2>1. EventSays(Reloaded(w)) = Says(w.msg, w.seq, "text")
    BY <1>3 DEF Reloaded, PatchEvent, EventSays, Is
  <2> QED
    BY <1>3, <2>1, SaidParts DEF Reloaded, PatchEvent, Sound
<1> QED
  BY <1>2, <1>3

\* The copy an event makes of a held row says no more than the event did.
LEMMA ChangedSays ==
    ASSUME SaidInv, NEW e \in Event, EventSays(e) \in Said, Sound(e),
           Wins(Changed(e, rows[e.msg]), rows[e.msg], FALSE)
    PROVE  CopySays(e.msg, Changed(e, rows[e.msg])) \in Said
<1> DEFINE held == rows[e.msg]
           copy == Changed(e, rows[e.msg])
<1>1. e.msg \in Msgs /\ e.seq \in Nat /\ held \in Row /\ copy \in Row
  BY ChangedType DEF SaidInv, TypeOK, Event
<1>2. copy.seq > held.seq
  BY DEF Wins
<1>3. copy.seq = e.seq
  <2>1. CASE e.kind = "row"
    BY <2>1 DEF Sound, Changed
  <2>2. CASE e.kind = "deleted"
    BY <1>1, <2>2, TombstoneType DEF Changed
  <2>3. CASE e.kind = "patch"
    <3>1. Exists(held)
      BY <2>3, NoRowSays DEF Changed, Wins
    <3> QED
      BY <2>3, <3>1 DEF Changed, WithPart
  <2> QED
    BY <2>1, <2>2, <2>3 DEF Event, Kinds
<1>4. Is(Deleted(copy)) = EventSays(e).is
  <2>1. CASE e.kind = "row"
    BY <2>1 DEF Changed, EventSays, Says, Is
  <2>2. CASE e.kind = "deleted"
    BY <1>1, <2>2, TombstoneType DEF Changed, EventSays, Says, Is
  <2>3. CASE e.kind = "patch"
    \* Were the held row a tombstone, the event would speak after a deletion.
    <3>1. Exists(held) /\ EventSays(e).is = "text" /\ e.p # "content"
      BY <2>3, NoRowSays DEF Changed, Wins, EventSays, Says, Is, Sound
    <3>2. CopySays(e.msg, held) \in Said
      BY <1>1, <3>1, SaidParts, CopyInOf
    <3>3. ~Deleted(held)
      <4>1. CopySays(e.msg, held).msg = EventSays(e).msg
            /\ CopySays(e.msg, held).seq <= EventSays(e).seq
        BY <1>1, <1>2, <1>3 DEF CopySays, EventSays, Says, Row
      <4>2. CopySays(e.msg, held).is # "gone"
        BY <3>1, <3>2, <4>1 DEF SaidInv, DeletionIsLast
      <4> QED
        BY <4>2 DEF CopySays, Says, Is
    <3>4. copy.part["content"] = held.part["content"]
      BY <1>1, <2>3, <3>1 DEF Changed, WithPart, Row, Parts
    <3> QED
      BY <3>1, <3>3, <3>4 DEF Deleted, Is
  <2> QED
    BY <2>1, <2>2, <2>3 DEF Event, Kinds
<1>5. CopySays(e.msg, copy) = EventSays(e)
  BY <1>3, <1>4 DEF CopySays, EventSays, Says
<1> QED
  BY <1>5

LEMMA DeliveryPasses == SaidInv /\ Delivery => Passes
<1> SUFFICES ASSUME SaidInv, Delivery PROVE Passes
  OBVIOUS
<1> USE DEF server, log, history
<1>0. TypeOK /\ EventsSound /\ PositionsFit
  BY DEF SaidInv
<1>1. ASSUME NEW w \in reloading, ReloadRow(w) PROVE Passes
  <2>1. EventSays(Reloaded(w)) \in Said /\ Sound(Reloaded(w))
    BY <1>1, ReloadedSays DEF ReloadRow
  <2>2. \A o \in outbox' : EventSays(o.event) \in Said /\ Sound(o.event)
    BY <1>0, <1>1, <2>1, SaidParts DEF ReloadRow, EventsSound
  <2>3. Said' \subseteq Said
    BY <1>1, <2>2, SaidParts, SaidFrom DEF ReloadRow
  <2> QED
    BY <1>0, <1>1, <2>2, <2>3 DEF Passes, ReloadRow, EventsSound, PositionsFit
<1>2. ASSUME NEW w \in reloading, LoseEvent(w) PROVE Passes
  <2>1. Said' \subseteq Said
    BY <1>2, SaidParts, SaidFrom DEF LoseEvent
  <2> QED
    BY <1>0, <1>2, <2>1 DEF Passes, LoseEvent, EventsSound, PositionsFit
<1>3. ASSUME NEW o \in outbox, Publish(o) PROVE Passes
  <2>1. o.event \in Event /\ wire \in Seq(Event)
    BY <1>0 DEF TypeOK, Outgoing
  <2>2. \A i \in 1 .. Len(wire') : \/ i \in 1 .. Len(wire) /\ wire'[i] = wire[i]
                                   \/ wire'[i] = o.event
    BY <1>3, <2>1 DEF Publish
  <2>3. \A i \in 1 .. Len(wire') : EventSays(wire'[i]) \in Said /\ Sound(wire'[i])
    BY <1>0, <2>2, SaidParts DEF EventsSound
  <2>4. Said' \subseteq Said
    BY <1>3, <2>3, SaidParts, SaidFrom DEF Publish
  <2> QED
    BY <1>0, <1>3, <2>3, <2>4 DEF Passes, Publish, EventsSound, PositionsFit
<1>4. CASE Connect \/ Disconnect
  <2>1. \A i : i \notin 1 .. Len(wire')
    BY <1>4 DEF Connect, Disconnect
  <2>2. Said' \subseteq Said
    BY <1>4, <2>1, SaidParts, SaidFrom DEF Connect, Disconnect
  <2> QED
    BY <1>0, <1>4, <2>1, <2>2
       DEF Passes, Connect, Disconnect, EventsSound, PositionsFit
<1>5. CASE ReceiveReady
  <2>1. Of(run'.rows) \subseteq Said /\ run'.top <= channelSeq
    BY <1>0, <1>5, SaidParts, IdleSays
       DEF ReceiveReady, StartsRun, PositionsFit, Asked, Idle, TypeOK
  <2>2. Said' \subseteq Said
    BY <1>5, <2>1, SaidParts, SaidFrom DEF ReceiveReady
  <2> QED
    BY <1>0, <1>5, <2>1, <2>2 DEF Passes, ReceiveReady, EventsSound, PositionsFit
<1>6. CASE ReceiveEvent
  <2> DEFINE e == Head(wire)
  <2>1. wire \in Seq(Event) /\ wire # <<>> /\ 1 \in 1 .. Len(wire) /\ e = wire[1]
    BY <1>0, <1>6 DEF ReceiveEvent, TypeOK
  <2>2. e \in Event /\ EventSays(e) \in Said /\ Sound(e) /\ e.seq \in Nat /\ e.msg \in Msgs
    <3>1. e \in Event
      BY <2>1
    <3>2. EventSays(wire[1]) \in Said /\ Sound(wire[1])
      BY <1>0, <2>1, SaidParts DEF EventsSound
    <3>3. e.seq \in Nat /\ e.msg \in Msgs
      BY <3>1 DEF Event
    <3> QED
      BY <2>1, <3>1, <3>2, <3>3
  <2>3. \A i \in 1 .. Len(wire') : EventSays(wire'[i]) \in Said /\ Sound(wire'[i])
    <3>1. \A i \in 1 .. Len(wire') : i + 1 \in 1 .. Len(wire) /\ wire'[i] = wire[i + 1]
      BY <1>6, <2>1 DEF ReceiveEvent
    <3> QED
      BY <1>0, <3>1, SaidParts DEF EventsSound
  <2>4. Of(rows') \subseteq Said
    <3>1. CASE hasPage /\ e.seq <= seq
      BY <1>6, <3>1, SaidParts DEF ReceiveEvent
    <3>2. CASE ~(hasPage /\ e.seq <= seq) /\ ~Wins(Changed(e, rows[e.msg]), rows[e.msg], FALSE)
      BY <1>6, <3>2, SaidParts DEF ReceiveEvent, ApplyEvent
    <3>3. CASE ~(hasPage /\ e.seq <= seq) /\ Wins(Changed(e, rows[e.msg]), rows[e.msg], FALSE)
      <4>1. rows' = [rows EXCEPT ![e.msg] = Changed(e, rows[e.msg])]
        BY <1>6, <3>3 DEF ReceiveEvent, ApplyEvent
      <4>2. CopySays(e.msg, Changed(e, rows[e.msg])) \in Said
        BY <2>2, <3>3, ChangedSays
      <4>3. \A m \in Msgs : Exists(rows'[m]) => CopySays(m, rows'[m]) \in Said
        BY <1>0, <4>1, <4>2, SaidParts, CopyInOf DEF TypeOK
      <4> QED
        BY <4>3, OfCopies
    <3> QED
      BY <3>1, <3>2, <3>3
  <2>5. seq' <= channelSeq /\ seenSeq' <= channelSeq
    <3>1. e.seq <= channelSeq
      BY <2>2 DEF SaidInv, SaidFits, EventSays, Says
    <3> QED
      BY <1>0, <1>6, <2>2, <3>1 DEF ReceiveEvent, ApplyEvent, PositionsFit, Higher, TypeOK
  <2>6. Of(run'.rows) \subseteq Said /\ run'.top <= channelSeq
    BY <1>0, <1>6, SaidParts, IdleSays
       DEF ReceiveEvent, StartsRun, PositionsFit, Asked, Idle, TypeOK
  <2>7. Said' \subseteq Said
    BY <1>6, <2>3, <2>4, <2>6, SaidParts, SaidFrom DEF ReceiveEvent
  <2> QED
    BY <1>0, <1>6, <2>3, <2>5, <2>6, <2>7 DEF Passes, ReceiveEvent, EventsSound, PositionsFit
<1> QED
  BY <1>1, <1>2, <1>3, <1>4, <1>5, <1>6 DEF Delivery

LEMMA PagePasses == ASSUME SaidInv, NEW l \in Loads, Page(l) PROVE Passes
<1> USE DEF Outside, server, delivery, log, history
<1>0. TypeOK /\ EventsSound /\ PositionsFit
  BY DEF SaidInv
<1>q. load \in [Loads -> Request] /\ load[l] \in Request /\ channelSeq \in Nat
  BY <1>0 DEF TypeOK
\* What is left to show of each: the rows it takes, the request it leaves.
<1>s. ASSUME UNCHANGED <<messages, reloading, outbox, wire>>,
             Of(rows') \subseteq Said, Of(run'.rows) \subseteq Said,
             \A k \in Loads : Of(load'[k].rows) \subseteq Said
      PROVE  Said' \subseteq Said
  BY <1>s, SaidParts, SaidFrom
<1>i. Of(Idle.rows) \subseteq Said /\ Idle.top = 0
  BY IdleSays DEF Idle
<1>n. ASSUME NEW k PROVE Of(Asked(k).rows) \subseteq Said /\ Asked(k).top = 0
  BY IdleSays DEF Asked, Idle
<1>1. CASE AskPage(l)
  <2>1. [Idle EXCEPT !.early = ~hasPage] \in Request
        /\ [Idle EXCEPT !.early = ~hasPage].rows = Idle.rows
    BY IdleType DEF Request, Idle
  <2>2. Of(load'[l].rows) \subseteq Said /\ load'[l].top = channelSeq
    BY <1>1, <1>q, <1>i, <2>1, IdleSays DEF AskPage
  <2>3. \A k \in Loads : k = l \/ load'[k] = load[k]
    BY <1>1, <1>q DEF AskPage
  <2>4. Said' \subseteq Said
    BY <1>1, <1>s, <2>2, <2>3, SaidParts DEF AskPage
  <2> QED
    BY <1>0, <1>1, <1>q, <2>2, <2>3, <2>4 DEF Passes, AskPage, EventsSound, PositionsFit
<1>2. CASE ListPage(l)
  <2>1. PICK ms : load' = [load EXCEPT ![l] = Listed(load[l], ms, FALSE)]
    BY <1>2 DEF ListPage
  <2>2. Of(load'[l].rows) \subseteq Said /\ load'[l].top = load[l].top
    BY <1>0, <1>q, <2>1, ListedSays, SaidParts
  <2>3. \A k \in Loads : k = l \/ load'[k] = load[k]
    BY <1>q, <2>1
  <2>4. Said' \subseteq Said
    BY <1>2, <1>s, <2>2, <2>3, SaidParts DEF ListPage
  <2> QED
    BY <1>0, <1>2, <2>2, <2>3, <2>4 DEF Passes, ListPage, EventsSound, PositionsFit
<1>3. CASE OpenFirst(l) \/ TakePage(l)
  <2>1. TakeRows(load[l]) /\ load' = [load EXCEPT ![l] = Idle]
    BY <1>3 DEF OpenFirst, TakePage
  <2>2. Of(rows') \subseteq Said
    BY <1>0, <1>q, <2>1, TakenSays, SaidParts
  <2>3. \A k \in Loads : load'[k] = Idle \/ load'[k] = load[k]
    BY <1>q, <2>1
  <2>4. Of(run'.rows) \subseteq Said /\ run'.top <= channelSeq
    <3>1. run' = run \/ \E k : run' = Asked(k)
      BY <1>3 DEF OpenFirst, TakePage, StartsRun
    <3> QED
      BY <1>0, <1>n, <1>q, <3>1, SaidParts DEF PositionsFit
  <2>5. Said' \subseteq Said
    BY <1>3, <1>i, <1>s, <2>2, <2>3, <2>4, SaidParts DEF OpenFirst, TakePage
  <2>6. UNCHANGED <<channelSeq, made, messages, outbox, wire, seenSeq>>
    BY <1>3 DEF OpenFirst, TakePage
  <2>7. seq' <= channelSeq
    BY <1>0, <1>3 DEF OpenFirst, TakePage, Positioned, PositionsFit
  <2> QED
    BY <1>0, <1>i, <1>q, <2>3, <2>4, <2>5, <2>6, <2>7 DEF Passes, EventsSound, PositionsFit
<1>4. CASE DropPage(l) \/ FailPage(l)
  <2>1. \A k \in Loads : load'[k] = Idle \/ load'[k] = load[k]
    BY <1>4, <1>q DEF DropPage, FailPage
  <2>2. Of(run'.rows) \subseteq Said /\ run'.top <= channelSeq
    <3>1. run' = run \/ \E k : run' = Asked(k)
      BY <1>4 DEF DropPage, FailPage, StartsRun
    <3> QED
      BY <1>0, <1>n, <1>q, <3>1, SaidParts DEF PositionsFit
  <2>3. UNCHANGED <<channelSeq, made, messages, reloading, outbox, wire, rows, seq, seenSeq>>
    BY <1>4 DEF DropPage, FailPage
  <2>4. Said' \subseteq Said
    BY <1>i, <1>s, <2>1, <2>2, <2>3, SaidParts
  <2> QED
    BY <1>0, <1>i, <1>q, <2>1, <2>2, <2>3, <2>4 DEF Passes, EventsSound, PositionsFit
<1> QED
  BY <1>1, <1>2, <1>3, <1>4 DEF Page

LEMMA CatchUpPasses == SaidInv /\ CatchUp => Passes
<1> SUFFICES ASSUME SaidInv, CatchUp PROVE Passes
  OBVIOUS
<1> USE DEF Outside, server, delivery, log, history
<1>0. TypeOK /\ EventsSound /\ PositionsFit
  BY DEF SaidInv
<1>q. run \in Request /\ channelSeq \in Nat
  BY <1>0 DEF TypeOK
<1>u. UNCHANGED <<channelSeq, made, messages, reloading, outbox, wire, load, seenSeq>>
  BY DEF CatchUp, CountChanges, ListChanges, MergeChanges, CaughtUp, FailChanges,
         RefuseChanges, RetryChanges
<1>s. ASSUME Of(rows') \subseteq Said, Of(run'.rows) \subseteq Said,
             run'.top <= channelSeq, seq' <= channelSeq
      PROVE  Passes
  <2>1. Said' \subseteq Said
    BY <1>s, <1>u, SaidParts, SaidFrom
  <2> QED
    BY <1>0, <1>s, <1>u, <2>1 DEF Passes, EventsSound, PositionsFit
<1>n. Of(Idle.rows) \subseteq Said /\ Idle.top = 0
      /\ \A k : Of(Asked(k).rows) \subseteq Said /\ Asked(k).top = 0
  BY IdleSays DEF Asked, Idle
<1>1. CASE CountChanges
  <2>1. run'.rows = run.rows /\ run'.top = channelSeq
    BY <1>1, <1>q, IdleSays DEF CountChanges
  <2> QED
    BY <1>0, <1>1, <1>q, <1>s, <2>1, SaidParts DEF CountChanges, PositionsFit
<1>2. CASE ListChanges
  <2>1. Of(run'.rows) \subseteq Said /\ run'.top = run.top
    BY <1>0, <1>2, <1>q, ListedSays, SaidParts DEF ListChanges
  <2> QED
    BY <1>0, <1>2, <1>s, <2>1, SaidParts DEF ListChanges, PositionsFit
<1>3. CASE MergeChanges
  <2>1. Of(rows') \subseteq Said
    BY <1>0, <1>3, <1>q, TakenSays, SaidParts DEF MergeChanges
  <2> QED
    BY <1>0, <1>3, <1>n, <1>q, <1>s, <2>1 DEF MergeChanges, PositionsFit
<1>4. CASE CaughtUp
  <2>1. Of(rows') \subseteq Said
    BY <1>0, <1>4, <1>q, TakenSays, SaidParts DEF CaughtUp
  <2>2. PICK n \in Highest({seq, run.top}) : seq' = n
    BY <1>4 DEF CaughtUp, Positioned
  <2>3. n <= channelSeq
    <3>1. n \in {seq, run.top} \/ \E m \in Msgs : n = run.rows[m].seq
      BY <2>2 DEF Highest
    <3>2. \A m \in Msgs : run.rows[m].seq <= channelSeq
      <4> TAKE m \in Msgs
      <4>1. run.rows[m].seq \in Nat
        BY <1>q DEF Request, Row
      <4>2. CASE Exists(run.rows[m])
        <5>1. CopySays(m, run.rows[m]) \in Said
          BY <4>2, SaidParts, CopyInOf
        <5>2. CopySays(m, run.rows[m]).seq <= channelSeq
          BY <5>1 DEF SaidInv, SaidFits
        <5> QED
          BY <5>2 DEF CopySays, Says
      <4> QED
        BY <1>q, <4>1, <4>2 DEF Exists
    <3> QED
      BY <1>0, <3>1, <3>2 DEF PositionsFit
  <2> QED
    BY <1>4, <1>n, <1>q, <1>s, <2>1, <2>2, <2>3 DEF CaughtUp
<1>5. CASE FailChanges \/ RefuseChanges \/ RetryChanges
  <2>1. [Idle EXCEPT !.step = "backoff"].rows = Idle.rows
        /\ [Idle EXCEPT !.step = "backoff"].top = 0
    BY DEF Idle
  <2>2. Of(run'.rows) \subseteq Said /\ run'.top <= channelSeq
    <3>1. \/ run' = [Idle EXCEPT !.step = "backoff"]
          \/ run' = Idle
          \/ run' = Asked(seq)
      BY <1>5 DEF FailChanges, RefuseChanges, RetryChanges
    <3>2. run'.top = 0 /\ Of(run'.rows) \subseteq Said
      BY <1>n, <2>1, <3>1
    <3> QED
      BY <1>q, <3>2
  <2> QED
    BY <1>0, <1>5, <1>s, <2>2, SaidParts
       DEF FailChanges, RefuseChanges, RetryChanges, PositionsFit
<1> QED
  BY <1>1, <1>2, <1>3, <1>4, <1>5 DEF CatchUp

LEMMA SaidTyped == TypeOK => \A s \in Said : s.seq \in Nat /\ s.msg \in Msgs
<1> SUFFICES ASSUME TypeOK PROVE \A s \in Said : s.seq \in Nat /\ s.msg \in Msgs
  OBVIOUS
<1>1. ASSUME NEW copies \in [Msgs -> Row]
      PROVE  \A s \in Of(copies) : s.seq \in Nat /\ s.msg \in Msgs
  BY DEF Of, CopySays, Says, Row
<1>2. \A e \in Event : EventSays(e).seq \in Nat /\ EventSays(e).msg \in Msgs
  BY DEF EventSays, Says, Event
<1>3. \A w \in Reload : Says(w.msg, w.seq, "text").seq \in Nat
                        /\ Says(w.msg, w.seq, "text").msg \in Msgs
  BY DEF Says, Reload
<1>4. /\ messages \in [Msgs -> Row] /\ run.rows \in [Msgs -> Row] /\ rows \in [Msgs -> Row]
      /\ \A l \in Loads : load[l].rows \in [Msgs -> Row]
  BY DEF TypeOK, Request
<1>5. /\ reloading \subseteq Reload
      /\ \A o \in outbox : o.event \in Event
  BY DEF TypeOK, Outgoing
<1>6. \A i \in 1 .. Len(wire) : wire[i] \in Event
  <2>1. wire \in Seq(Event)
    BY DEF TypeOK
  <2> QED
    BY <2>1
<1> QED
  BY <1>1, <1>2, <1>3, <1>4, <1>5, <1>6 DEF Said

LEMMA PassesKeeps == SaidInv /\ TypeOK' /\ Passes => SaidInv'
BY DEF SaidInv, Passes, SaidFits, DeletionIsLast, PinnedIsLive

\* A write says one new thing, of its own message, above all that was said.
LEMMA WriteKeeps ==
    ASSUME SaidInv, TypeOK', NEW m \in Msgs, NEW r \in Row, NEW told, NEW reloads,
           Commit(m, r, told, reloads), r.seq = NextSeq,
           \A e \in told : Sound(e) /\ EventSays(e) = CopySays(m, r),
           reloads # {} => ~Deleted(r), Pinned(r) => ~Deleted(r),
           Live(messages[m]) \/ ~Exists(messages[m]) \/ Deleted(r),
           Exists(messages[m]) \/ m = made + 1, made' \in {made, made + 1}, m <= made'
    PROVE  SaidInv'
<1> DEFINE new == CopySays(m, r)
<1>0. /\ TypeOK /\ EventsSound /\ SaidFits /\ DeletionIsLast /\ PositionsFit /\ PinnedIsLive
  BY DEF SaidInv
<1>t. /\ made \in Nat /\ made' \in Nat /\ channelSeq \in Nat /\ MaxMsg \in Nat
      /\ messages \in [Msgs -> Row] /\ m \in Nat
  <2>1. MaxMsg \in Nat /\ m \in Nat
    BY BoundsAssumption DEF Msgs
  <2>2. made \in 0 .. MaxMsg /\ channelSeq \in Nat /\ messages \in [Msgs -> Row]
    BY <1>0 DEF TypeOK
  <2> QED
    BY <2>1, <2>2
<1>1. /\ channelSeq' = channelSeq + 1 /\ new.seq = channelSeq + 1 /\ new.msg = m
      /\ r.seq > 0 /\ made <= made'
  BY <1>t DEF Commit, NextSeq, CopySays, Says
<1>g. (new.is = "gone" => Deleted(r)) /\ (~Deleted(r) => new.is = "text")
  BY DEF CopySays, Says, Is
<1>2. /\ messages' = [messages EXCEPT ![m] = r]
      /\ UNCHANGED <<wire, rows, run, load, seq, seenSeq>>
  BY DEF Commit, log
<1>3. \A o \in outbox' : EventSays(o.event) \in Said \cup {new} /\ Sound(o.event)
  BY <1>0, SaidParts DEF Commit, EventsSound
<1>4. \A w \in reloading' : Says(w.msg, w.seq, "text") \in Said \cup {new}
  <2>1. \A k \in reloads : Says(m, r.seq, "text") = new
    BY DEF CopySays, Is
  <2> QED
    BY <2>1, SaidParts DEF Commit
<1>5. Of(messages') \subseteq Said \cup {new}
  <2>1. \A k \in Msgs : Exists(messages'[k]) => CopySays(k, messages'[k]) \in Said \cup {new}
    BY <1>t, <1>2, SaidParts, CopyInOf
  <2> QED
    BY <2>1, OfCopies
<1>6. Said' \subseteq Said \cup {new}
  BY <1>2, <1>3, <1>4, <1>5, SaidParts, SaidFrom
<1>7. \A s \in Said : s.seq \in Nat /\ s.seq <= channelSeq /\ s.msg <= made /\ s.msg \in Msgs
  <2>1. \A s \in Said : s.seq <= channelSeq /\ s.msg <= made
    BY <1>0 DEF SaidFits
  <2>2. \A s \in Said : s.seq \in Nat /\ s.msg \in Msgs
    BY <1>0, SaidTyped
  <2> QED
    BY <2>1, <2>2
<1>8. SaidFits'
  <2>1. \A s \in Said : /\ s.seq <= channelSeq' /\ s.msg <= made'
                        /\ Exists(messages'[s.msg]) => s.seq <= messages'[s.msg].seq
    <3> TAKE s \in Said
    <3>1. s.seq \in Nat /\ s.seq <= channelSeq /\ s.msg <= made /\ s.msg \in Msgs
      BY <1>7
    <3>2. s.seq <= channelSeq' /\ s.msg <= made'
      BY <1>t, <1>1, <3>1 DEF Msgs
    <3>3. CASE s.msg = m
      BY <1>t, <1>1, <1>2, <3>1, <3>2, <3>3 DEF Commit
    <3>4. CASE s.msg # m
      BY <1>0, <1>t, <1>2, <3>1, <3>2, <3>4 DEF SaidFits
    <3> QED
      BY <3>3, <3>4
  <2>2. new.seq <= channelSeq' /\ new.msg <= made' /\ messages'[new.msg].seq = new.seq
    BY <1>t, <1>1, <1>2 DEF Commit
  <2>3. new.seq <= messages'[new.msg].seq
    BY <1>t, <1>1, <2>2
  <2> QED
    BY <1>6, <2>1, <2>2, <2>3 DEF SaidFits
<1>9. DeletionIsLast'
  \* Had the message been said to be deleted, its row would have been too.
  <2>1. ASSUME NEW s \in Said, s.msg = m, s.is = "gone" PROVE Deleted(r)
    <3>1. Exists(messages[m])
      BY <1>t, <1>7, <2>1 DEF Msgs
    <3>2. CopySays(m, messages[m]) \in Said
      BY <3>1, SaidParts, CopyInOf
    <3>3. s.seq <= messages[m].seq
      BY <1>0, <2>1, <3>1 DEF SaidFits
    <3>4. CopySays(m, messages[m]).is = "gone"
      BY <1>0, <2>1, <3>2, <3>3 DEF DeletionIsLast, CopySays, Says
    <3> QED
      BY <3>1, <3>4 DEF CopySays, Says, Is, Live
  <2>2. ASSUME NEW s \in Said \cup {new}, NEW t \in Said \cup {new},
               s.msg = t.msg, s.is = "gone", s.seq <= t.seq
        PROVE  t.is = "gone"
    <3>1. CASE s \in Said /\ t \in Said
      BY <1>0, <2>2, <3>1 DEF DeletionIsLast
    <3>2. CASE s \in Said /\ t = new
      BY <1>1, <1>g, <2>1, <2>2, <3>2 DEF CopySays, Says, Is
    <3>3. CASE s = new /\ t \in Said
      BY <1>t, <1>1, <1>7, <2>2, <3>3
    <3>4. CASE s = new /\ t = new
      BY <2>2, <3>4
    <3> QED
      BY <2>2, <3>1, <3>2, <3>3, <3>4
  <2> QED
    BY <1>6, <2>2 DEF DeletionIsLast
<1>10. PositionsFit'
  <2>1. seq \in Nat /\ seenSeq \in Nat /\ run.top \in Nat /\ \A l \in Loads : load[l].top \in Nat
    BY <1>0 DEF TypeOK, Request
  <2> QED
    BY <1>0, <1>t, <1>1, <1>2, <2>1 DEF PositionsFit
<1>11. PinnedIsLive'
  BY <1>0, <1>t, <1>1, <1>2 DEF PinnedIsLive, Live, Exists
<1>12. EventsSound'
  BY <1>0, <1>2, <1>3 DEF EventsSound
<1> QED
  BY <1>8, <1>9, <1>10, <1>11, <1>12 DEF SaidInv

LEMMA WithPartKeeps ==
    ASSUME NEW r \in Row, NEW n \in Nat, NEW p \in Parts, NEW v \in Part
    PROVE  \A k \in Parts : WithPart(r, n, p, v).part[k] = IF k = p THEN v ELSE r.part[k]
BY DEF WithPart, Row

LEMMA ServerKeeps == SaidInv /\ TypeOK' /\ Server => SaidInv'
<1> SUFFICES ASSUME SaidInv, TypeOK', Server PROVE SaidInv'
  OBVIOUS
<1>0. TypeOK /\ SaidFits /\ PinnedIsLive
  BY DEF SaidInv
<1>t. NextSeq \in Nat /\ NextSeq > 0 /\ made \in Nat /\ messages \in [Msgs -> Row]
  <2>1. channelSeq \in Nat /\ made \in 0 .. MaxMsg /\ messages \in [Msgs -> Row]
    BY <1>0 DEF TypeOK
  <2> QED
    BY <2>1, BoundsAssumption DEF NextSeq
<1>v. \A v \in Values : WrittenAt(NextSeq, v) \in Part /\ WrittenAt(NextSeq, v).is = v
  BY <1>t, WrittenAtType DEF WrittenAt
<1>p. /\ {"content", "reactions", "pin"} \subseteq Parts
      /\ {"text", "gone", "some", "on", "off"} \subseteq Values
  BY DEF Parts, Values
<1>m. \A m \in Msgs : Exists(messages[m]) => m <= made
  <2> TAKE m \in Msgs
  <2>1. Exists(messages[m]) => CopySays(m, messages[m]) \in Said
    BY SaidParts, CopyInOf
  <2>2. CopySays(m, messages[m]).msg = m
    BY DEF CopySays, Says
  <2> QED
    BY <1>0, <2>1, <2>2 DEF SaidFits
<1>1. CASE SendMessage
  <2> DEFINE m == made + 1
             r == Fresh(NextSeq)
  <2>1. m \in Msgs /\ made' = made + 1
    BY <1>0, <1>1, BoundsAssumption DEF SendMessage, Msgs, TypeOK
  <2>2. r \in Row /\ r.seq = NextSeq
    BY <1>t, FreshType
  <2>3. ~Deleted(r) /\ ~Pinned(r)
    BY <1>p DEF Fresh, WrittenAt, Blank, Deleted, Pinned
  <2>4. ~Exists(messages[m])
    BY <1>m, <1>t, <2>1
  <2>5. Sound(RowEvent(m, r)) /\ EventSays(RowEvent(m, r)) = CopySays(m, r)
    BY <1>t, <2>2 DEF RowEvent, Sound, EventSays, CopySays, Exists, Is
  <2>6. Commit(m, r, {RowEvent(m, r)}, {})
    BY <1>1 DEF SendMessage
  <2> QED
    BY <1>t, <2>1, <2>2, <2>3, <2>4, <2>5, <2>6, WriteKeeps
<1>2. ASSUME NEW m \in Msgs, NEW r \in Row, NEW told, NEW reloads,
             Live(messages[m]), Commit(m, r, told, reloads), UNCHANGED made, r.seq = NextSeq,
             \A e \in told : Sound(e) /\ EventSays(e) = CopySays(m, r),
             reloads # {} => ~Deleted(r), Pinned(r) => ~Deleted(r)
      PROVE  SaidInv'
  <2>1. Exists(messages[m]) /\ m <= made'
    BY <1>2, <1>m DEF Live
  <2> QED
    BY <1>2, <2>1, WriteKeeps
<1>3. ASSUME NEW m \in Msgs, EditMessage(m) PROVE SaidInv'
  <2> DEFINE r == WithPart(messages[m], NextSeq, "content", WrittenAt(NextSeq, "text"))
  <2>1. r \in Row /\ r.seq = NextSeq
    BY <1>t, <1>v, <1>p, WithPartType
  <2>2. ~Deleted(r)
    BY <1>t, <1>v, <1>p, WithPartKeeps DEF Deleted
  <2> QED
    BY <1>2, <1>3, <2>1, <2>2 DEF EditMessage
<1>4. ASSUME NEW m \in Msgs, ToggleReaction(m) PROVE SaidInv'
  <2> DEFINE r == WithPart(messages[m], NextSeq, "reactions", WrittenAt(NextSeq, "some"))
  <2>1. r \in Row /\ r.seq = NextSeq
    BY <1>t, <1>v, <1>p, WithPartType
  <2>2. ~Deleted(r)
    BY <1>4, <1>t, <1>v, <1>p, WithPartKeeps DEF ToggleReaction, Live, Deleted
  <2> QED
    BY <1>2, <1>4, <2>1, <2>2 DEF ToggleReaction
<1>5. ASSUME NEW m \in Msgs, NEW on \in {"on", "off"}, Live(messages[m]), UNCHANGED made,
             Commit(m, WithPart(messages[m], NextSeq, "pin", WrittenAt(NextSeq, on)),
                    {PinEvent(m, on)}, {})
      PROVE  SaidInv'
  <2> DEFINE r == WithPart(messages[m], NextSeq, "pin", WrittenAt(NextSeq, on))
  <2>1. r \in Row /\ r.seq = NextSeq
    BY <1>t, <1>v, <1>p, WithPartType
  <2>2. ~Deleted(r)
    BY <1>5, <1>t, <1>v, <1>p, WithPartKeeps DEF Live, Deleted
  <2>3. Sound(PinEvent(m, on)) /\ EventSays(PinEvent(m, on)) = CopySays(m, r)
    BY <2>1, <2>2 DEF PinEvent, PatchEvent, Sound, EventSays, CopySays, Is
  <2> QED
    BY <1>2, <1>5, <2>1, <2>2, <2>3
<1>6. ASSUME NEW m \in Msgs, DeleteMessage(m) PROVE SaidInv'
  <2> DEFINE grave == Tombstone(messages[m], NextSeq)
             r == WithPart(grave, NextSeq, "pin", WrittenAt(NextSeq, "off"))
  <2>1. grave \in Row /\ Deleted(grave)
    BY <1>t, TombstoneType
  <2>2. r \in Row /\ r.seq = NextSeq
    BY <1>t, <1>v, <1>p, <2>1, WithPartType
  <2>3. Deleted(r) /\ ~Pinned(r)
    BY <1>t, <1>v, <1>p, <2>1, WithPartKeeps DEF Deleted, Pinned
  <2>4. Sound(DeletedEvent(m, NextSeq)) /\ EventSays(DeletedEvent(m, NextSeq)) = CopySays(m, r)
    BY <2>2, <2>3 DEF DeletedEvent, Sound, EventSays, CopySays, Is
  <2> QED
    BY <1>2, <1>6, <2>2, <2>3, <2>4 DEF DeleteMessage
<1>7. ASSUME NEW m \in Msgs, PinMessage(m) PROVE SaidInv'
  BY <1>5, <1>7 DEF PinMessage
<1>8. ASSUME NEW m \in Msgs, UnpinMessage(m) PROVE SaidInv'
  BY <1>0, <1>5, <1>8 DEF UnpinMessage, PinnedIsLive
<1>9. CASE MoveCutoff \/ ListExpired \/ SweepChannel
  <2>1. \A m \in Msgs : messages'[m] = messages[m] \/ messages'[m] = NoRow
    BY <1>9 DEF MoveCutoff, ListExpired, SweepChannel
  <2>2. UNCHANGED <<channelSeq, made, reloading, outbox, wire, rows, run, load, seq, seenSeq>>
    BY <1>9 DEF MoveCutoff, ListExpired, SweepChannel, delivery, log
  <2>3. Said' \subseteq Said
    <3>1. Of(messages') \subseteq Said
      BY <2>1, NoRowSays, SaidParts, CopyInOf, OfCopies
    <3> QED
      BY <2>2, <3>1, SaidParts, SaidFrom
  <2>4. SaidFits' /\ DeletionIsLast'
    BY <2>1, <2>2, <2>3, SaidTyped, NoRowSays DEF SaidInv, SaidFits, DeletionIsLast
  <2>5. PinnedIsLive'
    <3>1. ~Pinned(NoRow)
      BY <1>p DEF NoRow, Fresh, WrittenAt, Blank, Pinned
    <3> QED
      BY <1>0, <2>1, <3>1 DEF PinnedIsLive
  <2>6. EventsSound' /\ PositionsFit'
    BY <2>2 DEF SaidInv, EventsSound, PositionsFit
  <2> QED
    BY <2>4, <2>5, <2>6 DEF SaidInv
<1> QED
  BY <1>1, <1>3, <1>4, <1>6, <1>7, <1>8, <1>9 DEF Server

LEMMA SaidStep == SaidInv /\ [Next]_vars => SaidInv'
<1> SUFFICES ASSUME SaidInv, [Next]_vars PROVE SaidInv'
  OBVIOUS
<1>0. TypeOK /\ TypeOK' /\ EventsSound /\ PositionsFit
  BY TypeStep DEF SaidInv
<1>1. CASE Server
  BY <1>0, <1>1, ServerKeeps
<1>2. CASE Delivery
  BY <1>0, <1>2, DeliveryPasses, PassesKeeps
<1>3. ASSUME NEW l \in Loads, Page(l) PROVE SaidInv'
  BY <1>0, <1>3, PagePasses, PassesKeeps
<1>4. CASE CatchUp
  BY <1>0, <1>4, CatchUpPasses, PassesKeeps
<1>5. CASE Forget
  <2>1. /\ UNCHANGED <<channelSeq, made, messages, reloading, outbox, wire>>
        /\ rows' = NoRows /\ run' = Idle /\ seq' = 0 /\ seenSeq' = 0
        /\ \A l \in Loads : load'[l] = Idle
    BY <1>5 DEF Forget, Outside, server, delivery
  <2>2. Said' \subseteq Said
    BY <2>1, NoRowSays, IdleSays, SaidParts, SaidFrom
  <2>3. EventsSound' /\ PositionsFit'
    <3>1. Idle.top = 0 /\ channelSeq \in Nat
      BY <1>0 DEF Idle, TypeOK
    <3> QED
      BY <1>0, <2>1, <3>1 DEF EventsSound, PositionsFit
  <2> QED
    BY <1>0, <2>1, <2>2, <2>3, PassesKeeps DEF Passes
<1>6. CASE UNCHANGED vars
  <2>1. UNCHANGED <<channelSeq, made, messages, reloading, outbox, wire, rows, run, load,
                    seq, seenSeq>>
    BY <1>6 DEF vars, server, delivery, log
  <2>2. Said' \subseteq Said
    BY <2>1, SaidParts, SaidFrom
  <2> QED
    BY <1>0, <2>1, <2>2, PassesKeeps DEF Passes, EventsSound, PositionsFit
<1> QED
  BY <1>1, <1>2, <1>3, <1>4, <1>5, <1>6 DEF Next

LEMMA SaidInit == Init => SaidInv
<1> SUFFICES ASSUME Init PROVE SaidInv
  OBVIOUS
<1>1. Said = {}
  <2>1. /\ Of(messages) = {} /\ Of(rows) = {} /\ Of(run.rows) = {}
        /\ \A l \in Loads : Of(load[l].rows) = {}
    BY NoRowSays, IdleSays DEF Init
  <2>2. reloading = {} /\ outbox = {} /\ 1 .. Len(wire) = {}
    BY DEF Init
  <2> QED
    BY <2>1, <2>2 DEF Said
<1>2. PositionsFit
  BY DEF Init, PositionsFit, Idle
<1>3. EventsSound
  BY DEF Init, EventsSound
<1>4. PinnedIsLive
  <2>1. ~Pinned(NoRow)
    BY DEF NoRow, Fresh, WrittenAt, Blank, Pinned, Parts
  <2> QED
    BY <2>1 DEF Init, PinnedIsLive, NoRows
<1> QED
  BY <1>1, <1>2, <1>3, <1>4, InitType DEF SaidInv, SaidFits, DeletionIsLast

LEMMA SaidAlways == Spec => []SaidInv
BY SaidInit, SaidStep, PTL DEF Spec

\* No copy the client holds, and no position, is ever ahead of the server's,
\* whatever arrives before, after or without its answer.
THEOREM NeverAhead == Spec => []NotAhead
<1>1. SaidInv => NotAhead
  <2> SUFFICES ASSUME SaidInv PROVE NotAhead
    OBVIOUS
  <2>1. ASSUME NEW m \in Msgs, Exists(messages[m]) PROVE rows[m].seq <= messages[m].seq
    <3>1. rows[m].seq \in Nat /\ messages[m].seq \in Nat
      BY DEF SaidInv, TypeOK, Row
    <3>2. CASE Exists(rows[m])
      <4>1. CopySays(m, rows[m]) \in Said
        BY <3>2, SaidParts, CopyInOf
      <4>2. CopySays(m, rows[m]).msg = m /\ CopySays(m, rows[m]).seq = rows[m].seq
        BY DEF CopySays, Says
      <4> QED
        BY <2>1, <4>1, <4>2 DEF SaidInv, SaidFits
    <3> QED
      BY <3>1, <3>2 DEF Exists
  <2> QED
    BY <2>1 DEF SaidInv, PositionsFit, NotAhead
<1> QED
  BY <1>1, SaidAlways, PTL

\* Which steps change the rows held, and that they never trade one for an older.
LEMMA RowsMove ==
    ASSUME SaidInv, [Next]_vars
    PROVE  \/ UNCHANGED rows
           \/ \A m \in Msgs : ~Exists(rows'[m])
           \/ /\ Said' \subseteq Said
              /\ \A m \in Msgs : Exists(rows'[m]) => rows[m].seq <= rows'[m].seq
<1> USE DEF log
<1>0. TypeOK
  BY DEF SaidInv
<1>1. CASE Server
  BY <1>1 DEF Server, SendMessage, EditMessage, ToggleReaction, PinMessage, UnpinMessage,
              DeleteMessage, Commit, MoveCutoff, ListExpired, SweepChannel
<1>2. CASE Delivery
  <2>1. CASE ReceiveEvent
    <3> DEFINE e == Head(wire)
    <3>1. Said' \subseteq Said
      BY <1>2, DeliveryPasses DEF Passes
    <3>2. CASE (hasPage /\ e.seq <= seq) \/ ~Wins(Changed(e, rows[e.msg]), rows[e.msg], FALSE)
      BY <2>1, <3>2 DEF ReceiveEvent, ApplyEvent
    <3>3. CASE ~(hasPage /\ e.seq <= seq) /\ Wins(Changed(e, rows[e.msg]), rows[e.msg], FALSE)
      <4>1. rows' = [rows EXCEPT ![e.msg] = Changed(e, rows[e.msg])]
        BY <2>1, <3>3 DEF ReceiveEvent, ApplyEvent
      <4>2. e \in Event
        BY <1>0, <2>1 DEF ReceiveEvent, TypeOK
      <4>3. e.msg \in Msgs /\ Changed(e, rows[e.msg]) \in Row
        BY <1>0, <4>2, ChangedType DEF Event, TypeOK
      <4>4. \A m \in Msgs : rows[m].seq \in Nat
        BY <1>0 DEF TypeOK, Row
      <4>5. rows[e.msg].seq <= Changed(e, rows[e.msg]).seq
        BY <3>3, <4>3, <4>4 DEF Wins, Row
      <4>6. \A m \in Msgs : rows[m].seq <= rows'[m].seq
        BY <1>0, <4>1, <4>3, <4>4, <4>5 DEF TypeOK
      <4> QED
        BY <3>1, <4>6
    <3> QED
      BY <3>2, <3>3
  <2> QED
    BY <1>2, <2>1 DEF Delivery, ReloadRow, LoseEvent, Publish, Connect, Disconnect,
                      ReceiveReady
<1>3. ASSUME NEW l \in Loads, Page(l)
      PROVE  \/ UNCHANGED rows
             \/ /\ Said' \subseteq Said
                /\ \A m \in Msgs : Exists(rows'[m]) => rows[m].seq <= rows'[m].seq
  <2>1. CASE TakeRows(load[l])
    <3>1. load[l] \in Request
      BY <1>0 DEF TypeOK
    <3> QED
      BY <1>0, <1>3, <2>1, <3>1, TakenSays, PagePasses DEF Passes
  <2> QED
    BY <1>3, <2>1 DEF Page, AskPage, ListPage, OpenFirst, TakePage, DropPage, FailPage
<1>4. CASE CatchUp
  <2>1. CASE TakeRows(run)
    BY <1>0, <1>4, <2>1, TakenSays, CatchUpPasses DEF Passes, TypeOK
  <2> QED
    BY <1>4, <2>1 DEF CatchUp, CountChanges, ListChanges, MergeChanges, CaughtUp,
                      FailChanges, RefuseChanges, RetryChanges
<1>5. CASE Forget
  BY <1>5, NoRowSays DEF Forget, NoRows
<1>6. CASE UNCHANGED vars
  BY <1>6 DEF vars
<1> QED
  BY <1>1, <1>2, <1>3, <1>4, <1>5, <1>6 DEF Next

\* A message the client knows deleted is never shown again (tombstone.ts).
THEOREM DeletedForGood == Spec => StaysDeleted
<1>1. ASSUME SaidInv, [Next]_vars, NEW m \in Msgs,
             Exists(rows[m]), Deleted(rows[m]), Exists(rows'[m])
      PROVE  Deleted(rows'[m])
  <2>1. CASE UNCHANGED rows
    BY <1>1, <2>1
  <2>2. CASE Said' \subseteq Said /\ rows[m].seq <= rows'[m].seq
    <3>1. CopySays(m, rows[m]) \in Said
      BY <1>1, SaidParts, CopyInOf
    <3>2. CopySays(m, rows'[m]) \in Said
      <4>1. CopySays(m, rows'[m]) \in Of(rows')
        BY <1>1, CopyInOf
      <4>2. Of(rows') \subseteq Said'
        BY DEF Said
      <4> QED
        BY <2>2, <4>1, <4>2
    <3>3. CopySays(m, rows'[m]).is = "gone"
      BY <1>1, <2>2, <3>1, <3>2
         DEF SaidInv, DeletionIsLast, CopySays, Says, Is
    <3> QED
      BY <3>3 DEF CopySays, Says, Is
  <2> QED
    BY <1>1, <2>1, <2>2, RowsMove
<1>2. ASSUME SaidInv, [Next]_vars
      PROVE  [\A m \in Msgs : Exists(rows[m]) /\ Deleted(rows[m]) /\ Exists(rows'[m])
                 => Deleted(rows'[m])]_rows
  BY <1>1, <1>2
<1> QED
  BY <1>2, SaidAlways, PTL DEF Spec, StaysDeleted

-----------------------------------------------------------------------------
(* What a copy, an event and an answer know of the writes to a row          *)

\* The writes to the row t past position low and through high are through a
\* or through b.
Between(t, low, high, a, b) ==
    Exists(t) => \A p \in Parts : low < t.part[p].at /\ t.part[p].at <= high
                    => t.part[p].at <= a \/ t.part[p].at <= b

Through(t, high, a, b) == Between(t, -1, high, a, b)

\* A copy of the row t knows it through the copy's own seq.
CopyKnows(t, c) == Exists(c) /\ Exists(t) => Knows(c, t, c.seq)

\* Position n is no write to another row than m's.
Alone(ms, m, n) ==
    \A k \in Msgs \ {m} : Exists(ms[k]) => \A p \in Parts : ms[k].part[p].at # n

\* Position n is a write to part p of m, or m has been swept since.
WroteOnly(ms, m, p, n) ==
    /\ Alone(ms, m, n)
    /\ Exists(ms[m]) => /\ ms[m].part[p].at >= n
                        /\ \A k \in Parts \ {p} : ms[m].part[k].at # n

\* What an event says of its row, whatever was written since.
Tells(ms, e) ==
    /\ Alone(ms, e.msg, e.seq)
    /\ e.kind = "row" => CopyKnows(ms[e.msg], e.row)
    /\ e.kind = "deleted" /\ Exists(ms[e.msg]) =>
          /\ ms[e.msg].part["content"] = WrittenAt(e.seq, "gone")
          /\ ms[e.msg].part["reactions"] = WrittenAt(e.seq, "none")
    /\ e.kind = "patch" =>
          /\ WroteOnly(ms, e.msg, e.p, e.seq)
          /\ Exists(ms[e.msg]) /\ ms[e.msg].part[e.p].at = e.seq
                => e.value = ms[e.msg].part[e.p]

\* The rows ns come from the rows ms by sweeps and by writes past n, none of
\* them to a deleted row.
Following(ms, ns, n) ==
    \A k \in Msgs : Exists(ns[k]) =>
        /\ ns[k] = ms[k] \/ ns[k].seq > n
        /\ \A p \in Parts : \/ Exists(ms[k]) /\ ns[k].part[p] = ms[k].part[p]
                            \/ ns[k].part[p].at > n
        /\ Exists(ms[k]) /\ Deleted(ms[k]) => ns[k] = ms[k]

LEMMA PartTypes ==
    ASSUME NEW t \in Row
    PROVE  t.seq \in Nat /\ \A p \in Parts : t.part[p].at \in Nat
BY DEF Row, Part

LEMMA BetweenGrows ==
    ASSUME NEW t \in Row, NEW low \in Int, NEW high \in Int, NEW a \in Int, NEW b \in Int,
           NEW low2 \in Int, NEW high2 \in Int, NEW a2 \in Int, NEW b2 \in Int,
           Between(t, low, high, a, b), low <= low2, high2 <= high, a <= a2, b <= b2
    PROVE  Between(t, low2, high2, a2, b2)
BY PartTypes DEF Between

LEMMA BetweenJoins ==
    ASSUME NEW t \in Row, NEW low \in Int, NEW mid \in Int, NEW high \in Int,
           NEW a \in Int, NEW b \in Int,
           Between(t, low, mid, a, b), Between(t, mid, high, a, b)
    PROVE  Between(t, low, high, a, b)
BY PartTypes DEF Between

LEMMA BetweenLasts ==
    ASSUME NEW ms \in [Msgs -> Row], NEW ns \in [Msgs -> Row], NEW n \in Nat, Following(ms, ns, n),
           NEW m \in Msgs, NEW low \in Int, NEW high \in Int, NEW a \in Int, NEW b \in Int,
           Between(ms[m], low, high, a, b), high <= n
    PROVE  Between(ns[m], low, high, a, b)
<1>1. \A p \in Parts : ns[m].part[p].at \in Nat
  BY PartTypes
<1> QED
  BY <1>1 DEF Between, Following

LEMMA CopyLasts ==
    ASSUME NEW ms \in [Msgs -> Row], NEW ns \in [Msgs -> Row], NEW n \in Nat, Following(ms, ns, n),
           NEW m \in Msgs, NEW c \in Row, CopyKnows(ms[m], c), c.seq <= n
    PROVE  CopyKnows(ns[m], c)
<1>1. c.seq \in Nat /\ \A p \in Parts : ns[m].part[p].at \in Nat
  BY PartTypes
<1> QED
  BY <1>1 DEF CopyKnows, Knows, Following

LEMMA AloneLasts ==
    ASSUME NEW ms \in [Msgs -> Row], NEW ns \in [Msgs -> Row], NEW n \in Nat, Following(ms, ns, n),
           NEW m \in Msgs, NEW h \in Nat, Alone(ms, m, h), h <= n
    PROVE  Alone(ns, m, h)
<1>1. \A k \in Msgs, p \in Parts : ns[k].part[p].at \in Nat
  BY PartTypes
<1> QED
  BY <1>1 DEF Alone, Following

LEMMA WroteOnlyLasts ==
    ASSUME NEW ms \in [Msgs -> Row], NEW ns \in [Msgs -> Row], NEW n \in Nat, Following(ms, ns, n),
           NEW m \in Msgs, NEW p \in Parts, NEW h \in Nat, WroteOnly(ms, m, p, h), h <= n
    PROVE  WroteOnly(ns, m, p, h)
<1>1. \A k \in Parts : ns[m].part[k].at \in Nat
  BY PartTypes
<1>2. Alone(ns, m, h)
  BY AloneLasts DEF WroteOnly
<1> QED
  BY <1>1, <1>2 DEF WroteOnly, Following

\* An event stays true of its row, if the row is not one made since.
LEMMA TellsLasts ==
    ASSUME NEW ms \in [Msgs -> Row], NEW ns \in [Msgs -> Row], NEW n \in Nat, Following(ms, ns, n),
           NEW e \in Event, Sound(e), Tells(ms, e), e.seq <= n,
           Exists(ns[e.msg]) => Exists(ms[e.msg])
    PROVE  Tells(ns, e)
<1>1. e.msg \in Msgs /\ e.seq \in Nat /\ e.p \in Parts /\ e.row \in Row
  BY DEF Event
<1>2. Alone(ns, e.msg, e.seq)
  BY <1>1, AloneLasts DEF Tells
<1>3. e.kind = "row" => CopyKnows(ns[e.msg], e.row)
  BY <1>1, CopyLasts DEF Tells, Sound
<1>4. e.kind = "patch" => WroteOnly(ns, e.msg, e.p, e.seq)
  BY <1>1, WroteOnlyLasts DEF Tells
<1>5. e.kind = "deleted" /\ Exists(ns[e.msg]) => ns[e.msg] = ms[e.msg]
  BY <1>1 DEF Tells, Following, Deleted, WrittenAt
<1>6. Exists(ns[e.msg]) /\ ns[e.msg].part[e.p].at = e.seq => ns[e.msg].part[e.p] = ms[e.msg].part[e.p]
  BY <1>1 DEF Following
<1> QED
  BY <1>2, <1>3, <1>4, <1>5, <1>6 DEF Tells

\* Each row's seq is its last write, and nobody else's.
Stamped ==
    \A m \in Msgs : Exists(messages[m]) =>
        /\ messages[m].seq <= channelSeq /\ Alone(messages, m, messages[m].seq)
        /\ \A p \in Parts : messages[m].part[p].at <= messages[m].seq

ReloadsAreOne ==
    \A w \in reloading : w.kind = "react" => WroteOnly(messages, w.msg, "reactions", w.seq)

EventsTell ==
    /\ \A o \in outbox : Tells(messages, o.event)
    /\ \A i \in 1 .. Len(wire) : Tells(messages, wire[i])

ServerKnows == Stamped /\ ReloadsAreOne /\ EventsTell

\* No copy, event or reload is ahead of the channel.
LEMMA SaidBounds ==
    ASSUME SaidInv
    PROVE  /\ \A m \in Msgs : /\ messages[m].seq <= channelSeq /\ rows[m].seq <= channelSeq
                              /\ run.rows[m].seq <= channelSeq
                              /\ \A l \in Loads : load[l].rows[m].seq <= channelSeq
                              /\ Exists(messages[m]) => m <= made
           /\ \A w \in reloading : w.seq <= channelSeq /\ w.msg <= made
           /\ \A o \in outbox : o.event.seq <= channelSeq /\ o.event.msg <= made
           /\ \A i \in 1 .. Len(wire) : wire[i].seq <= channelSeq /\ wire[i].msg <= made
<1>0. TypeOK /\ SaidFits
  BY DEF SaidInv
<1>1. ASSUME NEW copies \in [Msgs -> Row], Of(copies) \subseteq Said, NEW m \in Msgs
      PROVE  copies[m].seq <= channelSeq /\ (Exists(copies[m]) => m <= made)
  <2>1. copies[m].seq \in Nat /\ channelSeq \in Nat
    BY <1>0, <1>1 DEF TypeOK, Row
  <2>2. CASE Exists(copies[m])
    <3>1. CopySays(m, copies[m]) \in Said
      BY <1>1, <2>2, CopyInOf
    <3> QED
      BY <1>0, <3>1 DEF SaidFits, CopySays, Says
  <2> QED
    BY <2>1, <2>2 DEF Exists
<1>2. /\ messages \in [Msgs -> Row] /\ rows \in [Msgs -> Row] /\ run.rows \in [Msgs -> Row]
      /\ \A l \in Loads : load[l].rows \in [Msgs -> Row]
  BY <1>0 DEF TypeOK, Request
<1>3. \A m \in Msgs : /\ messages[m].seq <= channelSeq /\ rows[m].seq <= channelSeq
                      /\ run.rows[m].seq <= channelSeq
                      /\ \A l \in Loads : load[l].rows[m].seq <= channelSeq
                      /\ Exists(messages[m]) => m <= made
  BY <1>1, <1>2, SaidParts
<1>4. \A w \in reloading : w.seq <= channelSeq /\ w.msg <= made
  BY <1>0, SaidParts DEF SaidFits, Says
<1>5. \A o \in outbox : o.event.seq <= channelSeq /\ o.event.msg <= made
  BY <1>0, SaidParts DEF SaidFits, Says, EventSays
<1>6. \A i \in 1 .. Len(wire) : wire[i].seq <= channelSeq /\ wire[i].msg <= made
  BY <1>0, SaidParts DEF SaidFits, Says, EventSays
<1> QED
  BY <1>3, <1>4, <1>5, <1>6

\* A write stamps the parts it sets with the channel's next seq, and never
\* touches a deleted row.
LEMMA WriteFollows ==
    ASSUME SaidInv, Stamped, NEW m \in Msgs, NEW r \in Row, NEW told, NEW reloads,
           Commit(m, r, told, reloads), r.seq = NextSeq,
           Exists(messages[m]) => Live(messages[m]),
           \A p \in Parts : \/ r.part[p].at = NextSeq
                            \/ Exists(messages[m]) /\ r.part[p] = messages[m].part[p]
    PROVE  Following(messages, messages', channelSeq) /\ Stamped'
<1>1. /\ messages \in [Msgs -> Row] /\ channelSeq \in Nat /\ NextSeq = channelSeq + 1
      /\ messages' = [messages EXCEPT ![m] = r] /\ channelSeq' = NextSeq
  BY DEF SaidInv, TypeOK, Commit, NextSeq
<1>2. messages'[m] = r /\ \A k \in Msgs \ {m} : messages'[k] = messages[k]
  BY <1>1
<1>3. \A k \in Msgs : messages[k].seq \in Nat /\ \A p \in Parts : messages[k].part[p].at \in Nat
  BY <1>1, PartTypes
<1>4. Following(messages, messages', channelSeq)
  BY <1>1, <1>2 DEF Following, Live
<1>5. \A k \in Msgs, p \in Parts : Exists(messages[k]) => messages[k].part[p].at <= channelSeq
  BY <1>1, <1>3 DEF Stamped
<1>6. ASSUME NEW k \in Msgs, Exists(messages'[k])
      PROVE  /\ messages'[k].seq <= channelSeq'
             /\ \A p \in Parts : messages'[k].part[p].at <= messages'[k].seq
  <2>1. CASE k = m
    <3>1. messages'[k] = r /\ r.seq = channelSeq'
      BY <1>1, <1>2, <2>1
    <3>2. \A p \in Parts : r.part[p].at = NextSeq \/ r.part[p].at <= channelSeq
      BY <1>5, <2>1
    <3>3. \A p \in Parts : r.part[p].at <= NextSeq
      BY <1>1, <3>2, PartTypes
    <3> QED
      BY <1>1, <3>1, <3>3
  <2>2. CASE k # m
    <3>1. messages'[k] = messages[k] /\ messages[k].seq \in Nat
      BY <1>2, <1>3, <2>2
    <3>2. messages[k].seq <= channelSeq /\ \A p \in Parts : messages[k].part[p].at <= messages[k].seq
      BY <1>6, <3>1 DEF Stamped
    <3> QED
      BY <1>1, <3>1, <3>2
  <2> QED
    BY <2>1, <2>2
<1>7. ASSUME NEW k \in Msgs, Exists(messages'[k]) PROVE Alone(messages', k, messages'[k].seq)
  <2>1. CASE k = m
    BY <1>1, <1>2, <1>5, <2>1 DEF Alone
  <2>2. CASE k # m
    <3>1. Alone(messages, k, messages[k].seq) /\ messages[k].seq <= channelSeq
      BY <1>2, <1>7, <2>2 DEF Stamped
    <3> QED
      BY <1>1, <1>2, <1>3, <2>2, <3>1 DEF Alone
  <2> QED
    BY <2>1, <2>2
<1> QED
  BY <1>4, <1>6, <1>7 DEF Stamped

\* A commit of such a write, whose events tell of it.
Writing(m, r, told, reloads) ==
    /\ Commit(m, r, told, reloads) /\ r.seq = NextSeq
    /\ IF Exists(messages[m]) THEN Live(messages[m]) ELSE m = made + 1
    /\ \A p \in Parts : \/ r.part[p].at = NextSeq
                        \/ Exists(messages[m]) /\ r.part[p] = messages[m].part[p]
    /\ \A e \in told : Tells(messages', e)
    /\ "react" \in reloads => WroteOnly(messages', m, "reactions", NextSeq)

LEMMA WriteTells ==
    ASSUME SaidInv, ServerKnows, TypeOK', NEW m \in Msgs, NEW r \in Row, NEW told, NEW reloads,
           Writing(m, r, told, reloads)
    PROVE  ServerKnows' /\ Following(messages, messages', channelSeq)
<1> USE DEF Writing
<1>0. TypeOK /\ EventsSound /\ messages \in [Msgs -> Row] /\ messages' \in [Msgs -> Row]
      /\ channelSeq \in Nat /\ made \in Nat
  <2>1. TypeOK /\ EventsSound
    BY DEF SaidInv
  <2>2. made \in 0 .. MaxMsg /\ MaxMsg \in Nat /\ channelSeq \in Nat /\ messages \in [Msgs -> Row]
    BY <2>1, BoundsAssumption DEF TypeOK
  <2>3. messages' \in [Msgs -> Row]
    BY DEF TypeOK
  <2> QED
    BY <2>1, <2>2, <2>3
<1>1. Following(messages, messages', channelSeq) /\ Stamped'
  BY WriteFollows DEF ServerKnows
<1>2. messages' = [messages EXCEPT ![m] = r]
  BY DEF Commit
<1>3. \A k \in Msgs : k <= made /\ Exists(messages'[k]) => Exists(messages[k])
  BY <1>0, <1>2
<1>4. ASSUME NEW e \in Event, Sound(e), Tells(messages, e), e.seq <= channelSeq, e.msg <= made
      PROVE  Tells(messages', e)
  <2>1. e.msg \in Msgs
    BY DEF Event
  <2> QED
    BY <1>0, <1>1, <1>3, <1>4, <2>1, TellsLasts
<1>5. \A o \in outbox : o.event \in Event
  BY <1>0 DEF TypeOK, Outgoing
<1>6. \A i \in 1 .. Len(wire) : wire[i] \in Event
  <2>1. wire \in Seq(Event)
    BY <1>0 DEF TypeOK
  <2> QED
    BY <2>1
<1>7. EventsTell'
  <2>1. \A o \in outbox : Tells(messages', o.event)
    BY <1>0, <1>4, <1>5, SaidBounds DEF ServerKnows, EventsTell, EventsSound
  <2>2. \A i \in 1 .. Len(wire) : Tells(messages', wire[i])
    BY <1>0, <1>4, <1>6, SaidBounds DEF ServerKnows, EventsTell, EventsSound
  <2>3. wire' = wire /\ \A o \in outbox' : o \in outbox \/ o.event \in told
    BY DEF Commit
  <2> QED
    BY <2>1, <2>2, <2>3 DEF EventsTell
<1>8. ReloadsAreOne'
  <2>1. ASSUME NEW w \in reloading, w.kind = "react"
        PROVE  WroteOnly(messages', w.msg, "reactions", w.seq)
    <3>1. w.msg \in Msgs /\ w.seq \in Nat /\ "reactions" \in Parts
      BY <1>0 DEF TypeOK, Reload, Parts
    <3>2. WroteOnly(messages, w.msg, "reactions", w.seq) /\ w.seq <= channelSeq
      BY <2>1, SaidBounds DEF ServerKnows, ReloadsAreOne
    <3> QED
      BY <1>0, <1>1, <3>1, <3>2, WroteOnlyLasts
  <2>2. \A w \in reloading' : w \in reloading \/ (w.msg = m /\ w.seq = NextSeq /\ w.kind \in reloads)
    BY DEF Commit
  <2> QED
    BY <2>1, <2>2 DEF ReloadsAreOne
<1> QED
  BY <1>1, <1>7, <1>8 DEF ServerKnows

LEMMA WrittenAlone ==
    ASSUME SaidInv, Stamped, NEW m \in Msgs, NEW r \in Row, messages' = [messages EXCEPT ![m] = r]
    PROVE  Alone(messages', m, NextSeq)
<1>1. messages \in [Msgs -> Row] /\ channelSeq \in Nat /\ NextSeq = channelSeq + 1
  BY DEF SaidInv, TypeOK, NextSeq
<1>2. \A k \in Msgs : messages[k].seq \in Nat /\ \A p \in Parts : messages[k].part[p].at \in Nat
  BY <1>1, PartTypes
<1>3. \A k \in Msgs \ {m} : messages'[k] = messages[k]
  BY <1>1
<1>4. \A k \in Msgs, p \in Parts : Exists(messages[k]) => messages[k].part[p].at <= channelSeq
  BY <1>1, <1>2 DEF Stamped
<1> QED
  BY <1>1, <1>2, <1>3, <1>4 DEF Alone

\* A write of one part of a row there is.
LEMMA OnePartWritten ==
    ASSUME SaidInv, Stamped, NEW m \in Msgs, NEW p \in Parts, NEW is \in Values, Exists(messages[m]),
           messages' = [messages EXCEPT ![m] = WithPart(messages[m], NextSeq, p, WrittenAt(NextSeq, is))]
    PROVE  LET r == WithPart(messages[m], NextSeq, p, WrittenAt(NextSeq, is))
           IN /\ r \in Row /\ r.seq = NextSeq
              /\ \A k \in Parts : r.part[k].at = NextSeq \/ r.part[k] = messages[m].part[k]
              /\ messages'[m].part[p] = WrittenAt(NextSeq, is)
              /\ WroteOnly(messages', m, p, NextSeq)
<1> DEFINE r == WithPart(messages[m], NextSeq, p, WrittenAt(NextSeq, is))
<1>1. messages \in [Msgs -> Row] /\ channelSeq \in Nat /\ NextSeq = channelSeq + 1 /\ NextSeq \in Nat
  BY DEF SaidInv, TypeOK, NextSeq
<1>2. messages[m] \in Row /\ messages[m].part \in [Parts -> Part]
  BY <1>1 DEF Row
<1>3. r \in Row /\ r.seq = NextSeq
  BY <1>1, <1>2, WrittenAtType, WithPartType
<1>4. r.part = [messages[m].part EXCEPT ![p] = WrittenAt(NextSeq, is)]
  BY DEF WithPart
<1>5. r.part[p] = WrittenAt(NextSeq, is) /\ \A k \in Parts \ {p} : r.part[k] = messages[m].part[k]
  BY <1>2, <1>4
<1>6. r.part[p].at = NextSeq
  BY <1>5 DEF WrittenAt
<1>7. messages'[m] = r
  BY <1>1
<1>8. \A k \in Parts : messages[m].part[k].at \in Nat /\ messages[m].part[k].at <= channelSeq
  BY <1>1, <1>2, PartTypes DEF Stamped
<1>9. Alone(messages', m, NextSeq)
  BY <1>3, WrittenAlone
<1>10. WroteOnly(messages', m, p, NextSeq)
  <2>1. \A k \in Parts \ {p} : r.part[k].at # NextSeq
    BY <1>1, <1>5, <1>8
  <2> HIDE DEF r
  <2> QED
    BY <1>1, <1>6, <1>7, <1>9, <2>1 DEF WroteOnly
<1> HIDE DEF r
<1>11. \A k \in Parts : r.part[k].at = NextSeq \/ r.part[k] = messages[m].part[k]
  BY <1>5, <1>6
<1> QED
  BY <1>3, <1>5, <1>7, <1>10, <1>11 DEF r

\* The whole row a deletion leaves is written by it.
LEMMA AllWritten ==
    ASSUME NEW t \in Row, NEW n \in Nat
    PROVE  LET r == WithPart(Tombstone(t, n), n, "pin", WrittenAt(n, "off"))
           IN /\ r \in Row /\ r.seq = n
              /\ r.part["content"] = WrittenAt(n, "gone") /\ r.part["reactions"] = WrittenAt(n, "none")
              /\ \A k \in Parts : r.part[k].at = n
<1> DEFINE c == [t.part EXCEPT !["content"] = WrittenAt(n, "gone"),
                               !["reactions"] = WrittenAt(n, "none")]
           d == [c EXCEPT !["pin"] = WrittenAt(n, "off")]
<1>1. t.part \in [Parts -> Part] /\ Parts = {"content", "reactions", "pin"}
  BY DEF Row, Parts
<1>2. WrittenAt(n, "gone") \in Part /\ WrittenAt(n, "none") \in Part /\ WrittenAt(n, "off") \in Part
  BY WrittenAtType DEF Values
<1>3. c \in [Parts -> Part] /\ d \in [Parts -> Part]
  BY <1>1, <1>2
<1>4. d["content"] = WrittenAt(n, "gone") /\ d["reactions"] = WrittenAt(n, "none")
      /\ d["pin"] = WrittenAt(n, "off")
  BY <1>1
<1>5. \A k \in Parts : d[k].at = n
  BY <1>1, <1>4 DEF WrittenAt
<1>6. WithPart(Tombstone(t, n), n, "pin", WrittenAt(n, "off")) = [seq |-> n, part |-> d]
  BY DEF WithPart, Tombstone
<1> HIDE DEF d
<1>7. [seq |-> n, part |-> d] \in Row
  BY <1>3 DEF Row
<1> QED
  BY <1>4, <1>5, <1>6, <1>7

LEMMA ServerStep ==
    ASSUME SaidInv, ServerKnows, TypeOK', Server
    PROVE  ServerKnows' /\ Following(messages, messages', channelSeq)
<1> DEFINE Goal == ServerKnows' /\ Following(messages, messages', channelSeq)
<1>0. messages \in [Msgs -> Row] /\ channelSeq \in Nat /\ NextSeq = channelSeq + 1 /\ NextSeq \in Nat
      /\ Stamped /\ made \in 0 .. MaxMsg /\ MaxMsg \in Nat /\ TypeOK
  <2>1. TypeOK /\ Stamped
    BY DEF SaidInv, ServerKnows
  <2>2. made \in 0 .. MaxMsg /\ MaxMsg \in Nat /\ channelSeq \in Nat /\ messages \in [Msgs -> Row]
    BY <2>1, BoundsAssumption DEF TypeOK
  <2> QED
    BY <2>1, <2>2 DEF NextSeq
<1>p. "content" \in Parts /\ "reactions" \in Parts /\ "pin" \in Parts
      /\ "text" \in Values /\ "some" \in Values /\ "on" \in Values /\ "off" \in Values
  BY DEF Parts, Values
<1>w. ASSUME NEW m \in Msgs, NEW r \in Row, NEW told, NEW reloads,
             Writing(m, r, told, reloads)
      PROVE  Goal
  BY <1>w, WriteTells
<1>1. ASSUME SendMessage PROVE Goal
  <2> DEFINE m == made + 1
             r == Fresh(NextSeq)
  <2>1. m \in Msgs /\ ~Exists(messages[m])
    BY <1>0, <1>1, SaidBounds DEF SendMessage, Msgs
  <2>2. r \in Row /\ r.seq = NextSeq
    BY <1>0, FreshType
  <2>3. \A p \in Parts : r.part[p].at = NextSeq
    BY DEF Fresh, WrittenAt
  <2>4. Commit(m, r, {RowEvent(m, r)}, {}) /\ messages' = [messages EXCEPT ![m] = r]
    BY <1>1 DEF SendMessage, Commit
  <2> HIDE DEF m, r
  <2>5. Alone(messages', m, NextSeq)
    BY <1>0, <2>1, <2>2, <2>4, WrittenAlone
  <2>6. messages'[m] = r
    BY <1>0, <2>1, <2>4
  <2>7. CopyKnows(messages'[m], r)
    BY <2>6 DEF CopyKnows, Knows
  <2>8. Tells(messages', RowEvent(m, r))
    BY <2>2, <2>5, <2>7 DEF Tells, RowEvent
  <2>9. ~Exists(messages[m]) /\ m = made + 1
    BY <2>1 DEF m
  <2>10. IF Exists(messages[m]) THEN Live(messages[m]) ELSE m = made + 1
    BY <2>9
  <2>11. Writing(m, r, {RowEvent(m, r)}, {})
    BY <2>2, <2>3, <2>4, <2>8, <2>10 DEF Writing
  <2> QED
    BY <2>1, <2>2, <2>11, <1>w
<1>2. ASSUME NEW m \in Msgs, EditMessage(m) PROVE Goal
  <2> DEFINE r == WithPart(messages[m], NextSeq, "content", WrittenAt(NextSeq, "text"))
  <2>1. Live(messages[m]) /\ Exists(messages[m]) /\ Commit(m, r, {}, {"edit"})
        /\ messages' = [messages EXCEPT ![m] = r]
    BY <1>2 DEF EditMessage, Live, Commit
  <2>a. /\ Stamped /\ Exists(messages[m]) /\ "content" \in Parts /\ "text" \in Values
        /\ messages' = [messages EXCEPT ![m] =
                           WithPart(messages[m], NextSeq, "content", WrittenAt(NextSeq, "text"))]
    BY <1>0, <1>p, <2>1
  <2>2. r \in Row /\ r.seq = NextSeq
        /\ \A k \in Parts : r.part[k].at = NextSeq \/ r.part[k] = messages[m].part[k]
    BY <2>a, OnePartWritten
  <2> HIDE DEF r
  <2>3. \A k \in Parts : \/ r.part[k].at = NextSeq
                         \/ Exists(messages[m]) /\ r.part[k] = messages[m].part[k]
    BY <2>1, <2>2
  <2>4. "react" \notin {"edit"}
    OBVIOUS
  <2>5. Writing(m, r, {}, {"edit"})
    BY <2>1, <2>2, <2>3, <2>4 DEF Writing
  <2> QED
    BY <2>2, <2>5, <1>w
<1>3. ASSUME NEW m \in Msgs, ToggleReaction(m) PROVE Goal
  <2> DEFINE r == WithPart(messages[m], NextSeq, "reactions", WrittenAt(NextSeq, "some"))
  <2>1. Live(messages[m]) /\ Exists(messages[m]) /\ Commit(m, r, {}, {"react"})
        /\ messages' = [messages EXCEPT ![m] = r]
    BY <1>3 DEF ToggleReaction, Live, Commit
  <2>a. /\ Stamped /\ Exists(messages[m]) /\ "reactions" \in Parts /\ "some" \in Values
        /\ messages' = [messages EXCEPT ![m] =
                           WithPart(messages[m], NextSeq, "reactions", WrittenAt(NextSeq, "some"))]
    BY <1>0, <1>p, <2>1
  <2>2. r \in Row /\ r.seq = NextSeq /\ WroteOnly(messages', m, "reactions", NextSeq)
        /\ \A k \in Parts : r.part[k].at = NextSeq \/ r.part[k] = messages[m].part[k]
    BY <2>a, OnePartWritten
  <2> HIDE DEF r
  <2>3. \A k \in Parts : \/ r.part[k].at = NextSeq
                         \/ Exists(messages[m]) /\ r.part[k] = messages[m].part[k]
    BY <2>1, <2>2
  <2>5. Writing(m, r, {}, {"react"})
    BY <2>1, <2>2, <2>3 DEF Writing
  <2> QED
    BY <2>2, <2>5, <1>w
<1>4. ASSUME NEW m \in Msgs, NEW is \in Values, Live(messages[m]),
             Commit(m, WithPart(messages[m], NextSeq, "pin", WrittenAt(NextSeq, is)),
                    {PinEvent(m, is)}, {})
      PROVE  Goal
  <2> DEFINE r == WithPart(messages[m], NextSeq, "pin", WrittenAt(NextSeq, is))
  <2>1. Exists(messages[m]) /\ messages' = [messages EXCEPT ![m] = r]
    BY <1>4 DEF Live, Commit
  <2>2. r \in Row /\ r.seq = NextSeq /\ WroteOnly(messages', m, "pin", NextSeq)
        /\ messages'[m].part["pin"] = WrittenAt(NextSeq, is)
        /\ \A k \in Parts : r.part[k].at = NextSeq \/ r.part[k] = messages[m].part[k]
    <3>1. Stamped /\ "pin" \in Parts
      BY <1>0, <1>p
    <3> QED
      BY <2>1, <3>1, OnePartWritten
  <2>3. Commit(m, r, {PinEvent(m, is)}, {})
    BY <1>4
  <2> HIDE DEF r
  <2>4. Tells(messages', PinEvent(m, is))
    BY <2>2 DEF Tells, PinEvent, PatchEvent, WroteOnly
  <2>5. Writing(m, r, {PinEvent(m, is)}, {})
    BY <1>4, <2>2, <2>3, <2>4 DEF Writing, Live
  <2> QED
    BY <2>2, <2>5, <1>w
<1>5. ASSUME NEW m \in Msgs, PinMessage(m) PROVE Goal
  BY <1>4, <1>5, <1>p DEF PinMessage
<1>6. ASSUME NEW m \in Msgs, UnpinMessage(m) PROVE Goal
  <2>1. Live(messages[m])
    BY <1>6 DEF UnpinMessage, SaidInv, PinnedIsLive
  <2> QED
    BY <1>4, <1>6, <1>p, <2>1 DEF UnpinMessage
<1>7. ASSUME NEW m \in Msgs, DeleteMessage(m) PROVE Goal
  <2> DEFINE r == WithPart(Tombstone(messages[m], NextSeq), NextSeq, "pin", WrittenAt(NextSeq, "off"))
  <2>1. Live(messages[m]) /\ Exists(messages[m]) /\ Commit(m, r, {DeletedEvent(m, NextSeq)}, {})
        /\ messages' = [messages EXCEPT ![m] = r]
    BY <1>7 DEF DeleteMessage, Live, Commit
  <2>2. /\ r \in Row /\ r.seq = NextSeq
        /\ r.part["content"] = WrittenAt(NextSeq, "gone")
        /\ r.part["reactions"] = WrittenAt(NextSeq, "none")
        /\ \A k \in Parts : r.part[k].at = NextSeq
    BY <1>0, AllWritten
  <2> HIDE DEF r
  <2>3. messages'[m] = r /\ Alone(messages', m, NextSeq)
    BY <1>0, <2>1, <2>2, WrittenAlone
  <2>4. Tells(messages', DeletedEvent(m, NextSeq))
    BY <2>2, <2>3 DEF Tells, DeletedEvent
  <2>5. Writing(m, r, {DeletedEvent(m, NextSeq)}, {})
    BY <2>1, <2>2, <2>4 DEF Writing, Live
  <2> QED
    BY <2>2, <2>5, <1>w
<1>8. ASSUME UNCHANGED <<channelSeq, reloading, outbox, wire>>,
             \A m \in Msgs : Exists(messages'[m]) => messages'[m] = messages[m]
      PROVE  Goal
  <2>1. Following(messages, messages', channelSeq)
    BY <1>8 DEF Following
  <2>2. \A m \in Msgs : \A n : Alone(messages, m, n) => Alone(messages', m, n)
    BY <1>8 DEF Alone
  <2>3. Stamped'
    BY <1>0, <1>8, <2>2 DEF Stamped
  <2>4. \A m \in Msgs : \A p, n : WroteOnly(messages, m, p, n) => WroteOnly(messages', m, p, n)
    BY <1>8, <2>2 DEF WroteOnly
  <2>5. ReloadsAreOne'
    BY <1>0, <1>8, <2>4 DEF ReloadsAreOne, ServerKnows, TypeOK, Reload
  <2>6. \A e \in Event : Tells(messages, e) => Tells(messages', e)
    BY <1>8, <2>2, <2>4 DEF Tells, Event, CopyKnows
  <2>7. EventsTell'
    <3>1. \A o \in outbox : o.event \in Event
      BY <1>0 DEF TypeOK, Outgoing
    <3>2. \A i \in 1 .. Len(wire) : wire[i] \in Event
      <4>1. wire \in Seq(Event)
        BY <1>0 DEF TypeOK
      <4> QED
        BY <4>1
    <3> QED
      BY <1>8, <2>6, <3>1, <3>2 DEF EventsTell, ServerKnows
  <2> QED
    BY <2>1, <2>3, <2>5, <2>7 DEF ServerKnows
<1>9. ASSUME MoveCutoff \/ ListExpired \/ SweepChannel PROVE Goal
  <2>1. UNCHANGED <<channelSeq, reloading, outbox, wire>>
    BY <1>9 DEF MoveCutoff, ListExpired, SweepChannel, delivery
  <2>2. \A m \in Msgs : Exists(messages'[m]) => messages'[m] = messages[m]
    BY <1>0, <1>9, NoRowType DEF MoveCutoff, ListExpired, SweepChannel, Exists
  <2> QED
    BY <1>8, <2>1, <2>2
<1> QED
  BY <1>1, <1>2, <1>3, <1>5, <1>6, <1>7, <1>9 DEF Server

LEMMA ReloadTells ==
    ASSUME TypeOK, ServerKnows, NEW w \in reloading, Exists(messages[w.msg])
    PROVE  Tells(messages, Reloaded(w))
<1>1. w.msg \in Msgs /\ w.kind \in {"edit", "react"}
  BY DEF TypeOK, Reload
<1>2. CASE w.kind = "edit"
  <2>1. Alone(messages, w.msg, messages[w.msg].seq)
    BY <1>1 DEF ServerKnows, Stamped
  <2>2. CopyKnows(messages[w.msg], messages[w.msg])
    BY DEF CopyKnows, Knows
  <2>3. Reloaded(w) = RowEvent(w.msg, messages[w.msg])
    BY <1>2 DEF Reloaded
  <2> QED
    BY <2>1, <2>2, <2>3 DEF Tells, RowEvent
<1>3. CASE w.kind = "react"
  <2>1. WroteOnly(messages, w.msg, "reactions", w.seq)
    BY <1>3 DEF ServerKnows, ReloadsAreOne
  <2>2. Reloaded(w) = PatchEvent(w.msg, w.seq, "reactions", messages[w.msg].part["reactions"])
    BY <1>3 DEF Reloaded
  <2> QED
    BY <2>1, <2>2 DEF Tells, PatchEvent, WroteOnly
<1> QED
  BY <1>1, <1>2, <1>3

\* Delivery tells what was written, and everything else leaves it alone.
LEMMA ServerKnowsKept ==
    ASSUME SaidInv, ServerKnows,
           Delivery \/ (\E l \in Loads : Page(l)) \/ CatchUp \/ Forget \/ UNCHANGED vars
    PROVE  ServerKnows' /\ UNCHANGED <<channelSeq, messages>>
<1> DEFINE Goal == ServerKnows' /\ UNCHANGED <<channelSeq, messages>>
<1>0. TypeOK /\ EventsTell
  BY DEF SaidInv, ServerKnows
<1>1. ASSUME UNCHANGED <<channelSeq, messages>>, reloading' \subseteq reloading,
             \A o \in outbox' : Tells(messages, o.event),
             \A i \in 1 .. Len(wire') : Tells(messages, wire'[i])
      PROVE  Goal
  BY <1>1 DEF ServerKnows, Stamped, ReloadsAreOne, EventsTell
<1>2. ASSUME NEW w \in reloading, ReloadRow(w) PROVE Goal
  BY <1>0, <1>1, <1>2, ReloadTells DEF ReloadRow, server, EventsTell
<1>3. ASSUME NEW w \in reloading, LoseEvent(w) PROVE Goal
  BY <1>0, <1>1, <1>3 DEF LoseEvent, server, EventsTell
<1>4. ASSUME NEW o \in outbox, Publish(o) PROVE Goal
  <2>1. wire \in Seq(Event) /\ o.event \in Event
    BY <1>0 DEF TypeOK, Outgoing
  <2>2. \A i \in 1 .. Len(wire') : \/ i \in 1 .. Len(wire) /\ wire'[i] = wire[i]
                                   \/ wire'[i] = o.event
    BY <1>4, <2>1 DEF Publish
  <2>3. \A i \in 1 .. Len(wire') : Tells(messages, wire'[i])
    BY <1>0, <2>2 DEF EventsTell
  <2> QED
    BY <1>0, <1>1, <1>4, <2>3 DEF Publish, server, EventsTell
<1>5. ASSUME Connect \/ Disconnect PROVE Goal
  <2>1. \A i : i \notin 1 .. Len(wire')
    BY <1>5 DEF Connect, Disconnect
  <2> QED
    BY <1>0, <1>1, <1>5, <2>1 DEF Connect, Disconnect, server, EventsTell
<1>6. ASSUME ReceiveEvent PROVE Goal
  <2>1. wire \in Seq(Event) /\ wire # <<>> /\ wire' = Tail(wire)
    BY <1>0, <1>6 DEF TypeOK, ReceiveEvent
  <2>2. \A i \in 1 .. Len(wire') : i + 1 \in 1 .. Len(wire) /\ wire'[i] = wire[i + 1]
    BY <2>1
  <2> QED
    BY <1>0, <1>1, <1>6, <2>2 DEF ReceiveEvent, server, EventsTell
<1>7. ASSUME UNCHANGED <<channelSeq, messages, reloading, outbox, wire>> PROVE Goal
  BY <1>0, <1>1, <1>7 DEF EventsTell
<1>8. ASSUME ReceiveReady PROVE Goal
  BY <1>7, <1>8 DEF ReceiveReady, server
<1>9. ASSUME NEW l \in Loads, Page(l) PROVE Goal
  <2>1. UNCHANGED <<channelSeq, messages, reloading, outbox, wire>>
    BY <1>9 DEF Page, AskPage, ListPage, OpenFirst, TakePage, DropPage, FailPage,
                Outside, server, delivery
  <2> QED
    BY <1>7, <2>1
<1>10. ASSUME CatchUp PROVE Goal
  <2>1. UNCHANGED <<channelSeq, messages, reloading, outbox, wire>>
    BY <1>10 DEF CatchUp, CountChanges, ListChanges, MergeChanges, CaughtUp, FailChanges,
                 RefuseChanges, RetryChanges, Outside, server, delivery
  <2> QED
    BY <1>7, <2>1
<1>11. ASSUME Forget \/ UNCHANGED vars PROVE Goal
  BY <1>7, <1>11 DEF Forget, Outside, server, delivery, vars
<1> QED
  BY <1>2, <1>3, <1>4, <1>5, <1>6, <1>8, <1>9, <1>10, <1>11 DEF Delivery

-----------------------------------------------------------------------------
(* What is out and what is held reach.  ms: the server's rows; rs: the rows *)
(* held; n: the log's position; f: its floor; q: a request.                *)

CopiesKnow(ms, copies) == \A m \in Msgs : CopyKnows(ms[m], copies[m])

\* A page's rows reach the position it was read at.
Tops(ms, q) ==
    \A m \in Msgs : Exists(q.rows[m])
        => Through(ms[m], q.top, q.rows[m].seq, q.rows[m].seq)

\* The rows that come, or those held, reach the log's position.
Covers(ms, rs, n, f, q) ==
    \A m \in Msgs : Exists(q.rows[m]) /\ m >= f
        => Through(ms[m], n, q.rows[m].seq, rs[m].seq)

\* The rows held are the server's, of those written past n and through since.
SinceReached(ms, rs, n, f, since) ==
    \A m \in Msgs : Exists(ms[m]) /\ m >= f /\ n < ms[m].seq /\ ms[m].seq <= since
        => ms[m].seq <= rs[m].seq

\* An answer with more behind it skips no row below its last.
SkipsNone(ms, q) ==
    \A m \in Msgs :
        Exists(ms[m]) /\ q.since < ms[m].seq /\ (\E k \in Msgs : ms[m].seq <= q.rows[k].seq)
            => ms[m].seq <= q.rows[m].seq

\* The last answer, or the rows held, reach the positions it leads to.
LeadsTo(q) == {q.top} \cup {q.rows[m].seq : m \in Msgs}
Ends(ms, rs, n, f, q) ==
    \A m \in Msgs, k \in LeadsTo(q) :
        m >= f => Between(ms[m], n, k, rs[m].seq, q.rows[m].seq)

\* The held row knows what was written through its own seq and the position.
Known(ms, rs, n, f, paged, m) ==
    m >= f /\ Exists(rs[m]) =>
        /\ CopyKnows(ms[m], rs[m])
        /\ paged => Through(ms[m], n, rs[m].seq, rs[m].seq)

AllCopiesKnow ==
    CopiesKnow(messages, run.rows) /\ \A l \in Loads : CopiesKnow(messages, load[l].rows)

\* The first page comes before any catch-up and any page asked after it.
OpensLast ==
    ~hasPage => run = Idle /\ \A l \in Loads : load[l] = Idle \/ load[l].early

PagesReach ==
    \A l \in Loads :
        /\ Tops(messages, load[l])
        /\ hasPage /\ ~load[l].early => Covers(messages, rows, seq, floor, load[l])

ReachesSince ==
    /\ run.since <= channelSeq
    /\ run.step \in OnTheWay => SinceReached(messages, rows, seq, floor, run.since)

AnswerReaches ==
    run.step = "answered" =>
        /\ Covers(messages, rows, seq, floor, run)
        /\ run.more => SkipsNone(messages, run)
        /\ ~run.more => Ends(messages, rows, seq, floor, run)

VouchedKnow ==
    \A m \in vouched : Known(messages, rows, seq, floor, hasPage, m)

\* The inductive invariant under KnownThroughPosition.
KnowInv ==
    /\ SaidInv /\ ServerKnows /\ AllCopiesKnow /\ OpensLast
    /\ PagesReach /\ ReachesSince /\ AnswerReaches /\ VouchedKnow

\* Nothing is undone by sweeps and writes past high.
LEMMA ReachLasts ==
    ASSUME NEW ms \in [Msgs -> Row], NEW ns \in [Msgs -> Row], NEW high \in Nat,
           Following(ms, ns, high),
           NEW rs \in [Msgs -> Row], NEW n \in Nat, NEW f \in Nat, n <= high
    PROVE  /\ \A copies \in [Msgs -> Row] :
                 CopiesKnow(ms, copies) /\ (\A m \in Msgs : copies[m].seq <= high)
                     => CopiesKnow(ns, copies)
           /\ \A q \in Request : q.top <= high /\ (\A m \in Msgs : q.rows[m].seq <= high) =>
                 /\ Tops(ms, q) => Tops(ns, q)
                 /\ Covers(ms, rs, n, f, q) => Covers(ns, rs, n, f, q)
                 /\ SkipsNone(ms, q) => SkipsNone(ns, q)
                 /\ Ends(ms, rs, n, f, q) => Ends(ns, rs, n, f, q)
           /\ \A since \in Nat : since <= high /\ SinceReached(ms, rs, n, f, since)
                                     => SinceReached(ns, rs, n, f, since)
           /\ \A paged \in BOOLEAN, m \in Msgs : rs[m].seq <= high /\ Known(ms, rs, n, f, paged, m)
                                     => Known(ns, rs, n, f, paged, m)
<1>0. \A m \in Msgs : ns[m].seq \in Nat /\ ms[m].seq \in Nat /\ rs[m].seq \in Nat /\ rs[m] \in Row
  BY PartTypes
<1>1. ASSUME NEW copies \in [Msgs -> Row], CopiesKnow(ms, copies), NEW m \in Msgs,
             copies[m].seq <= high
      PROVE  CopyKnows(ns[m], copies[m])
  BY <1>1, CopyLasts DEF CopiesKnow
<1>2. ASSUME NEW m \in Msgs, NEW low \in Int, NEW k \in Int, NEW a \in Int, NEW b \in Int,
             k <= high, Between(ms[m], low, k, a, b)
      PROVE  Between(ns[m], low, k, a, b)
  BY <1>2, BetweenLasts
<1>t. ASSUME NEW m \in Msgs, NEW k \in Nat, NEW a \in Nat, NEW b \in Nat,
             k <= high, Through(ms[m], k, a, b)
      PROVE  Through(ns[m], k, a, b)
  BY <1>t, <1>2 DEF Through
<1>3. ASSUME NEW q \in Request, q.top <= high, \A m \in Msgs : q.rows[m].seq <= high
      PROVE  /\ Tops(ms, q) => Tops(ns, q)
             /\ Covers(ms, rs, n, f, q) => Covers(ns, rs, n, f, q)
             /\ SkipsNone(ms, q) => SkipsNone(ns, q)
             /\ Ends(ms, rs, n, f, q) => Ends(ns, rs, n, f, q)
  <2>1. q.top \in Nat /\ \A m \in Msgs : q.rows[m].seq \in Nat
    BY PartTypes DEF Request
  <2>2. Tops(ms, q) => Tops(ns, q)
    BY <1>t, <1>3, <2>1 DEF Tops
  <2>3. Covers(ms, rs, n, f, q) => Covers(ns, rs, n, f, q)
    BY <1>0, <1>t, <2>1 DEF Covers
  <2>4. SkipsNone(ms, q) => SkipsNone(ns, q)
    <3>1. ASSUME NEW m \in Msgs, NEW k \in Msgs, Exists(ns[m]), ns[m].seq <= q.rows[k].seq
          PROVE  ns[m] = ms[m]
      BY <1>0, <1>3, <2>1, <3>1 DEF Following
    <3> QED
      BY <3>1 DEF SkipsNone
  <2>5. Ends(ms, rs, n, f, q) => Ends(ns, rs, n, f, q)
    <3>1. \A k \in LeadsTo(q) : k \in Int /\ k <= high
      BY <1>3, <2>1 DEF LeadsTo
    <3>2. ASSUME NEW m \in Msgs, NEW k \in LeadsTo(q),
                 Between(ms[m], n, k, rs[m].seq, q.rows[m].seq)
          PROVE  Between(ns[m], n, k, rs[m].seq, q.rows[m].seq)
      <4>1. n \in Int /\ rs[m].seq \in Int /\ q.rows[m].seq \in Int /\ k \in Int /\ k <= high
        BY <1>0, <2>1, <3>1
      <4> QED
        BY <1>2, <3>2, <4>1
    <3> QED
      BY <3>2 DEF Ends
  <2> QED
    BY <2>2, <2>3, <2>4, <2>5
<1>4. ASSUME NEW since \in Nat, since <= high, SinceReached(ms, rs, n, f, since)
      PROVE  SinceReached(ns, rs, n, f, since)
  <2>1. ASSUME NEW m \in Msgs, Exists(ns[m]), ns[m].seq <= since PROVE ns[m] = ms[m]
    BY <1>0, <1>4, <2>1 DEF Following
  <2> QED
    BY <1>4, <2>1 DEF SinceReached
<1>5. ASSUME NEW paged, NEW m \in Msgs, rs[m].seq <= high, Known(ms, rs, n, f, paged, m)
      PROVE  Known(ns, rs, n, f, paged, m)
  <2>1. ASSUME CopyKnows(ms[m], rs[m]) PROVE CopyKnows(ns[m], rs[m])
    BY <1>0, <1>5, <2>1, CopyLasts
  <2>2. ASSUME Through(ms[m], n, rs[m].seq, rs[m].seq)
        PROVE  Through(ns[m], n, rs[m].seq, rs[m].seq)
    BY <1>0, <1>5, <1>t, <2>2
  <2> QED
    BY <1>5, <2>1, <2>2 DEF Known
<1>6. \A copies \in [Msgs -> Row] :
         CopiesKnow(ms, copies) /\ (\A m \in Msgs : copies[m].seq <= high)
             => CopiesKnow(ns, copies)
  BY <1>1 DEF CopiesKnow
<1> QED
  BY <1>3, <1>4, <1>5, <1>6

LEMMA ServerReaches == KnowInv /\ TypeOK' /\ Server => KnowInv'
<1> SUFFICES ASSUME KnowInv, TypeOK', Server PROVE KnowInv'
  OBVIOUS
<1>0. SaidInv /\ ServerKnows /\ TypeOK
  BY DEF KnowInv, SaidInv
<1>1. SaidInv' /\ ServerKnows' /\ Following(messages, messages', channelSeq)
  BY <1>0, ServerKeeps, ServerStep
<1>2. UNCHANGED <<log, load, run, history>> /\ channelSeq' >= channelSeq
  <2>1. channelSeq \in Nat /\ NextSeq = channelSeq + 1
    BY <1>0 DEF TypeOK, NextSeq
  <2>2. CASE SendMessage
    BY <2>1, <2>2, FreshType DEF SendMessage, Commit
  <2>3. ASSUME NEW m \in Msgs,
               \/ EditMessage(m) \/ ToggleReaction(m) \/ PinMessage(m)
               \/ UnpinMessage(m) \/ DeleteMessage(m)
        PROVE  UNCHANGED <<log, load, run, history>> /\ channelSeq' = NextSeq
    BY <2>3 DEF EditMessage, ToggleReaction, PinMessage, UnpinMessage, DeleteMessage, Commit,
                WithPart
  <2>4. CASE MoveCutoff \/ ListExpired \/ SweepChannel
    BY <2>1, <2>4 DEF MoveCutoff, ListExpired, SweepChannel
  <2> QED
    BY <2>1, <2>2, <2>3, <2>4 DEF Server
<1>3. /\ messages \in [Msgs -> Row] /\ messages' \in [Msgs -> Row] /\ channelSeq \in Nat
      /\ rows \in [Msgs -> Row] /\ seq \in Nat /\ floor \in Nat /\ run \in Request
      /\ load \in [Loads -> Request] /\ vouched \subseteq Msgs
  BY <1>0 DEF TypeOK
<1>4. \A m \in Msgs : /\ rows[m].seq <= channelSeq /\ run.rows[m].seq <= channelSeq
                      /\ \A l \in Loads : load[l].rows[m].seq <= channelSeq
  BY <1>0, SaidBounds
<1>5. /\ seq <= channelSeq /\ run.top <= channelSeq /\ run.since \in Nat /\ run.since <= channelSeq
      /\ run.rows \in [Msgs -> Row]
      /\ \A l \in Loads : load[l].top <= channelSeq /\ load[l].rows \in [Msgs -> Row]
                         /\ load[l] \in Request
  BY <1>3 DEF KnowInv, SaidInv, PositionsFit, ReachesSince, Request
<1>6. UNCHANGED <<rows, seq, floor, hasPage, load, run, vouched>>
  BY <1>2 DEF log, history
<1>7. AllCopiesKnow'
  <2>0. \A copies \in [Msgs -> Row] :
            CopiesKnow(messages, copies) /\ (\A m \in Msgs : copies[m].seq <= channelSeq)
                => CopiesKnow(messages', copies)
    BY <1>1, <1>3, <1>5, ReachLasts
  <2>1. CopiesKnow(messages', run.rows)
    <3>1. CopiesKnow(messages, run.rows)
      BY DEF KnowInv, AllCopiesKnow
    <3> QED
      BY <1>4, <1>5, <2>0, <3>1
  <2>2. \A l \in Loads : CopiesKnow(messages', load[l].rows)
    <3> TAKE l \in Loads
    <3>1. CopiesKnow(messages, load[l].rows)
      BY DEF KnowInv, AllCopiesKnow
    <3>2. load[l].rows \in [Msgs -> Row] /\ \A m \in Msgs : load[l].rows[m].seq <= channelSeq
      BY <1>4, <1>5
    <3> QED
      BY <2>0, <3>1, <3>2
  <2> QED
    BY <1>6, <2>1, <2>2 DEF AllCopiesKnow
<1>8. OpensLast'
  BY <1>6 DEF KnowInv, OpensLast
<1>9. PagesReach'
  <2>1. ASSUME NEW l \in Loads
        PROVE  /\ Tops(messages', load[l])
               /\ hasPage /\ ~load[l].early => Covers(messages', rows, seq, floor, load[l])
    BY <1>1, <1>3, <1>4, <1>5, ReachLasts DEF KnowInv, PagesReach
  <2> QED
    BY <1>6, <2>1 DEF PagesReach
<1>10. ReachesSince'
  <2>1. run.step \in OnTheWay => SinceReached(messages', rows, seq, floor, run.since)
    BY <1>1, <1>3, <1>5, ReachLasts DEF KnowInv, ReachesSince
  <2>2. channelSeq' \in Nat
    BY DEF TypeOK
  <2>3. run' = run /\ channelSeq' >= channelSeq
    BY <1>2
  <2>4. run'.since <= channelSeq'
    BY <1>3, <1>5, <2>2, <2>3
  <2> QED
    BY <1>6, <2>1, <2>4 DEF ReachesSince
<1>11. AnswerReaches'
  <2>1. run.step = "answered" =>
           /\ Covers(messages', rows, seq, floor, run)
           /\ run.more => SkipsNone(messages', run)
           /\ ~run.more => Ends(messages', rows, seq, floor, run)
    BY <1>1, <1>3, <1>4, <1>5, ReachLasts DEF KnowInv, AnswerReaches
  <2> QED
    BY <1>6, <2>1 DEF AnswerReaches
<1>12. VouchedKnow'
  <2>1. \A m \in vouched : Known(messages', rows, seq, floor, hasPage, m)
    <3> TAKE m \in vouched
    <3>1. m \in Msgs /\ hasPage \in BOOLEAN /\ Known(messages, rows, seq, floor, hasPage, m) /\ rows[m].seq <= channelSeq
      BY <1>0, <1>3, <1>4 DEF KnowInv, VouchedKnow, TypeOK
    <3>2. \A paged \in BOOLEAN, k \in Msgs :
             rows[k].seq <= channelSeq /\ Known(messages, rows, seq, floor, paged, k)
                 => Known(messages', rows, seq, floor, paged, k)
      BY <1>1, <1>3, <1>5, ReachLasts
    <3> QED
      BY <3>1, <3>2
  <2> QED
    BY <1>6, <2>1 DEF VouchedKnow
<1> QED
  BY <1>1, <1>7, <1>8, <1>9, <1>10, <1>11, <1>12 DEF KnowInv

\* The held rows go on: no row above the floor falls back, and the rows reach
\* every position the log moves to.
Onward ==
    /\ UNCHANGED <<channelSeq, messages, hasPage>>
    /\ seq <= seq' /\ floor <= floor'
    /\ \A m \in Msgs : m >= floor' =>
          /\ rows[m].seq <= rows'[m].seq
          /\ Between(messages[m], seq, seq', rows'[m].seq, rows'[m].seq)

LEMMA OnwardKeeps ==
    ASSUME TypeOK, TypeOK', Onward
    PROVE  /\ \A q \in Request :
                 /\ Covers(messages, rows, seq, floor, q) => Covers(messages, rows', seq', floor', q)
                 /\ Ends(messages, rows, seq, floor, q) => Ends(messages, rows', seq', floor', q)
           /\ \A since \in Nat : SinceReached(messages, rows, seq, floor, since)
                                    => SinceReached(messages, rows', seq', floor', since)
           /\ \A m \in Msgs : Known(messages, rows, seq, floor, hasPage, m) /\ rows'[m] = rows[m]
                                    => Known(messages, rows', seq', floor', hasPage, m)
<1>1. /\ seq \in Nat /\ seq' \in Nat /\ floor \in Nat /\ floor' \in Nat
      /\ seq <= seq' /\ floor <= floor'
      /\ messages \in [Msgs -> Row] /\ rows \in [Msgs -> Row] /\ rows' \in [Msgs -> Row]
  BY DEF TypeOK, Onward
<1>2. \A m \in Msgs : /\ messages[m] \in Row /\ messages[m].seq \in Nat
                      /\ rows[m].seq \in Nat /\ rows'[m].seq \in Nat
  BY <1>1, PartTypes
<1>3. ASSUME NEW m \in Msgs, m >= floor'
      PROVE  /\ m >= floor /\ rows[m].seq <= rows'[m].seq
             /\ Between(messages[m], seq, seq', rows'[m].seq, rows'[m].seq)
  <2>1. m >= floor
    BY <1>1, <1>3 DEF Msgs
  <2> QED
    BY <1>3, <2>1 DEF Onward
<1>4. ASSUME NEW m \in Msgs, m >= floor', NEW a \in Nat,
             Through(messages[m], seq, a, rows[m].seq)
      PROVE  Through(messages[m], seq', a, rows'[m].seq)
  <2>1. \A p \in Parts : messages[m].part[p].at \in Nat
    BY <1>2, PartTypes
  <2> QED
    BY <1>1, <1>2, <1>3, <1>4, <2>1 DEF Through, Between
<1>5. ASSUME NEW q \in Request, Covers(messages, rows, seq, floor, q)
      PROVE  Covers(messages, rows', seq', floor', q)
  <2>1. \A m \in Msgs : q.rows[m].seq \in Nat
    BY PartTypes DEF Request
  <2> QED
    BY <1>3, <1>4, <1>5, <2>1 DEF Covers
<1>6. ASSUME NEW q \in Request, Ends(messages, rows, seq, floor, q)
      PROVE  Ends(messages, rows', seq', floor', q)
  <2>1. q.top \in Nat /\ \A m \in Msgs : q.rows[m].seq \in Nat
    BY PartTypes DEF Request
  <2>2. ASSUME NEW m \in Msgs, NEW k \in LeadsTo(q), m >= floor'
        PROVE  Between(messages[m], seq', k, rows'[m].seq, q.rows[m].seq)
    <3>1. k \in Int
      BY <2>1 DEF LeadsTo
    <3>2. Between(messages[m], seq, k, rows[m].seq, q.rows[m].seq) /\ rows[m].seq <= rows'[m].seq
      BY <1>3, <1>6, <2>2 DEF Ends
    <3> QED
      BY <1>1, <1>2, <2>1, <3>1, <3>2, BetweenGrows
  <2> QED
    BY <2>2 DEF Ends
<1>7. ASSUME NEW since \in Nat, SinceReached(messages, rows, seq, floor, since)
      PROVE  SinceReached(messages, rows', seq', floor', since)
  BY <1>1, <1>2, <1>3, <1>7 DEF SinceReached
<1>8. ASSUME NEW m \in Msgs, Known(messages, rows, seq, floor, hasPage, m), rows'[m] = rows[m]
      PROVE  Known(messages, rows', seq', floor', hasPage, m)
  BY <1>2, <1>3, <1>4, <1>8 DEF Known
<1> QED
  BY <1>5, <1>6, <1>7, <1>8

\* What holds of a page request, and of the catch-up run, in the invariant.
PageFits(ms, rs, n, f, paged, q) ==
    /\ CopiesKnow(ms, q.rows) /\ Tops(ms, q)
    /\ paged /\ ~q.early => Covers(ms, rs, n, f, q)
    /\ paged \/ q = Idle \/ q.early

RunFits(ms, rs, n, f, paged, high, q) ==
    /\ CopiesKnow(ms, q.rows)
    /\ paged \/ q = Idle
    /\ q.since <= high
    /\ q.step \in OnTheWay => SinceReached(ms, rs, n, f, q.since)
    /\ q.step = "answered" =>
          /\ Covers(ms, rs, n, f, q)
          /\ q.more => SkipsNone(ms, q)
          /\ ~q.more => Ends(ms, rs, n, f, q)

LEMMA Fits ==
    KnowInv <=>
        /\ SaidInv /\ ServerKnows /\ VouchedKnow
        /\ \A l \in Loads : PageFits(messages, rows, seq, floor, hasPage, load[l])
        /\ RunFits(messages, rows, seq, floor, hasPage, channelSeq, run)
<1>1. (\A l \in Loads : PageFits(messages, rows, seq, floor, hasPage, load[l]))
        /\ RunFits(messages, rows, seq, floor, hasPage, channelSeq, run)
        <=> AllCopiesKnow /\ OpensLast /\ PagesReach /\ ReachesSince /\ AnswerReaches
  BY DEF PageFits, RunFits, AllCopiesKnow, OpensLast, PagesReach, ReachesSince, AnswerReaches
<1> QED
  BY <1>1 DEF KnowInv

\* A request with no answer yet brings nothing.
LEMMA EmptyKnows ==
    ASSUME NEW ms, NEW rs, NEW n, NEW f, NEW q, q.rows = NoRows
    PROVE  CopiesKnow(ms, q.rows) /\ Tops(ms, q) /\ Covers(ms, rs, n, f, q)
<1>1. \A m \in Msgs : ~Exists(q.rows[m])
  BY NoRowType DEF NoRows, Exists
<1> QED
  BY <1>1 DEF CopiesKnow, CopyKnows, Tops, Covers

LEMMA IdleFits ==
    ASSUME NEW ms \in [Msgs -> Row], NEW rs, NEW n \in Nat, NEW f, NEW paged \in BOOLEAN,
           NEW high \in Nat
    PROVE  /\ PageFits(ms, rs, n, f, paged, Idle)
           /\ RunFits(ms, rs, n, f, paged, high, Idle)
           /\ paged => RunFits(ms, rs, n, f, paged, high, [Idle EXCEPT !.step = "backoff"])
           /\ paged /\ n <= high => RunFits(ms, rs, n, f, paged, high, Asked(n))
<1>1. /\ Idle.rows = NoRows /\ Idle.step = "idle" /\ Idle.since = 0
      /\ Asked(n).rows = NoRows /\ Asked(n).step = "asked" /\ Asked(n).since = n
  BY DEF Idle, Asked
<1>b. LET q == [Idle EXCEPT !.step = "backoff"]
      IN q.rows = NoRows /\ q.step = "backoff" /\ q.since = 0
  BY DEF Idle
<1>2. SinceReached(ms, rs, n, f, n)
  BY PartTypes DEF SinceReached
<1>3. "idle" \notin OnTheWay /\ "backoff" \notin OnTheWay
  BY DEF OnTheWay
<1>4. PageFits(ms, rs, n, f, paged, Idle)
  BY <1>1, EmptyKnows DEF PageFits
<1>5. RunFits(ms, rs, n, f, paged, high, Idle)
  BY <1>1, <1>3, EmptyKnows DEF RunFits
<1>6. ASSUME paged, NEW q, q = [Idle EXCEPT !.step = "backoff"]
      PROVE  RunFits(ms, rs, n, f, paged, high, q)
  BY <1>3, <1>6, <1>b, EmptyKnows DEF RunFits
<1>7. ASSUME paged, n <= high, NEW q, q = Asked(n)
      PROVE  RunFits(ms, rs, n, f, paged, high, q)
  BY <1>1, <1>2, <1>7, EmptyKnows DEF RunFits
<1> QED
  BY <1>4, <1>5, <1>6, <1>7

\* A step that goes on keeps the requests it leaves out.
LEMMA OnwardStep ==
    ASSUME KnowInv, TypeOK', SaidInv', ServerKnows', Onward,
           \A l \in Loads : \/ load'[l] = load[l]
                            \/ PageFits(messages, rows', seq', floor', hasPage, load'[l]),
           run' = run \/ RunFits(messages, rows', seq', floor', hasPage, channelSeq, run'),
           \A m \in vouched' : \/ m \in vouched /\ rows'[m] = rows[m]
                               \/ Known(messages, rows', seq', floor', hasPage, m)
    PROVE  KnowInv'
<1>0. TypeOK /\ UNCHANGED <<channelSeq, messages, hasPage>>
  BY DEF KnowInv, SaidInv, Onward
<1>1. run \in Request /\ run.since \in Nat /\ load \in [Loads -> Request] /\ vouched \subseteq Msgs
  BY <1>0 DEF TypeOK, Request
<1>2. \A l \in Loads : PageFits(messages, rows', seq', floor', hasPage, load'[l])
  <2>1. \A l \in Loads : PageFits(messages, rows, seq, floor, hasPage, load[l])
    BY Fits
  <2>2. \A l \in Loads : PageFits(messages, rows', seq', floor', hasPage, load[l])
    BY <1>0, <1>1, <2>1, OnwardKeeps DEF PageFits
  <2> QED
    BY <2>2
<1>3. RunFits(messages, rows', seq', floor', hasPage, channelSeq, run')
  <2>1. RunFits(messages, rows, seq, floor, hasPage, channelSeq, run)
    BY Fits
  <2>2. RunFits(messages, rows', seq', floor', hasPage, channelSeq, run)
    BY <1>0, <1>1, <2>1, OnwardKeeps DEF RunFits
  <2> QED
    BY <2>2
<1>4. \A m \in vouched' : Known(messages, rows', seq', floor', hasPage, m)
  BY <1>0, <1>1, OnwardKeeps DEF KnowInv, VouchedKnow
<1> QED
  BY <1>0, <1>2, <1>3, <1>4 DEF KnowInv, PageFits, RunFits, VouchedKnow,
     AllCopiesKnow, OpensLast, PagesReach, ReachesSince, AnswerReaches

LEMMA StillOnward ==
    ASSUME TypeOK, UNCHANGED <<channelSeq, messages, hasPage, rows, seq, floor>>
    PROVE  Onward
<1>1. seq \in Nat /\ floor \in Nat /\ \A m \in Msgs : rows[m].seq \in Nat
  BY PartTypes DEF TypeOK
<1>2. \A m \in Msgs, p \in Parts : messages[m].part[p].at \in Nat
  BY PartTypes DEF TypeOK
<1>3. \A m \in Msgs : Between(messages[m], seq, seq, rows[m].seq, rows[m].seq)
  BY <1>1, <1>2 DEF Between
<1> QED
  BY <1>1, <1>3 DEF Onward

\* A step of the requests alone.
LEMMA RequestStep ==
    ASSUME KnowInv, TypeOK', SaidInv', ServerKnows',
           UNCHANGED <<channelSeq, messages, hasPage, rows, seq, floor, vouched>>,
           \A l \in Loads : \/ load'[l] = load[l]
                            \/ PageFits(messages, rows, seq, floor, hasPage, load'[l]),
           run' = run \/ RunFits(messages, rows, seq, floor, hasPage, channelSeq, run')
    PROVE  KnowInv'
<1>1. TypeOK
  BY DEF KnowInv, SaidInv
<1>2. Onward
  BY <1>1, StillOnward
<1>3. \A l \in Loads : \/ load'[l] = load[l]
                       \/ PageFits(messages, rows', seq', floor', hasPage, load'[l])
  OBVIOUS
<1>4. run' = run \/ RunFits(messages, rows', seq', floor', hasPage, channelSeq, run')
  OBVIOUS
<1>5. \A m \in vouched' : \/ m \in vouched /\ rows'[m] = rows[m]
                          \/ Known(messages, rows', seq', floor', hasPage, m)
  OBVIOUS
<1> QED
  BY <1>2, <1>3, <1>4, <1>5, OnwardStep

\* The run as it is, or asked again from the position.
LEMMA RunAfresh ==
    ASSUME TypeOK, SaidInv, NEW rs, NEW f,
           \/ run' = Idle
           \/ hasPage /\ run' = Asked(seq)
           \/ hasPage /\ run' = [Idle EXCEPT !.step = "backoff"]
    PROVE  RunFits(messages, rs, seq, f, hasPage, channelSeq, run')
<1>1. seq \in Nat /\ channelSeq \in Nat /\ hasPage \in BOOLEAN /\ messages \in [Msgs -> Row]
      /\ seq <= channelSeq
  BY DEF SaidInv, TypeOK, PositionsFit
<1> QED
  BY <1>1, IdleFits

LEMMA StartedRun ==
    ASSUME NEW owed, NEW paged, NEW from, StartsRun(owed, paged, from)
    PROVE  run' = run \/ (paged /\ run' = Asked(from))
BY DEF StartsRun

LEMMA RunIsPaged ==
    ASSUME KnowInv, run.step # "idle"
    PROVE  hasPage
BY DEF KnowInv, OpensLast, Idle

\* What a page lists is the server's.
LEMMA ListedPageFits ==
    ASSUME SaidInv, Stamped, NEW q \in Request, NEW ms, NEW more, NEW paged,
           paged \/ q = Idle \/ q.early, q.step = "counted"
    PROVE  PageFits(messages, rows, seq, floor, paged, Listed(q, ms, more))
<1> DEFINE a == Listed(q, ms, more)
<1>1. /\ a.rows = [m \in Msgs |-> IF m \in ms THEN messages[m] ELSE NoRow]
      /\ a.top = q.top /\ a.early = q.early /\ a.step = "answered"
  BY DEF Listed, Request
<1> HIDE DEF a
<1>2. q.step # "idle" /\ Idle.step = "idle"
  BY DEF Idle
<1>3. \A m \in Msgs : Exists(a.rows[m]) => a.rows[m] = messages[m]
  BY <1>1, NoRowType DEF Exists
<1>4. CopiesKnow(messages, a.rows)
  BY <1>3 DEF CopiesKnow, CopyKnows, Knows
<1>5. ASSUME NEW m \in Msgs, Exists(a.rows[m]), NEW n, NEW b
      PROVE  Through(messages[m], n, a.rows[m].seq, b)
  <2>1. a.rows[m] = messages[m]
    BY <1>3, <1>5
  <2> QED
    BY <2>1 DEF Through, Between, Stamped
<1>6. Tops(messages, a)
  BY <1>5 DEF Tops
<1>7. Covers(messages, rows, seq, floor, a)
  BY <1>5 DEF Covers
<1>8. PageFits(messages, rows, seq, floor, paged, a)
  BY <1>1, <1>2, <1>4, <1>6, <1>7 DEF PageFits
<1> QED
  BY <1>8 DEF a

LEMMA ListedRunFits ==
    ASSUME KnowInv, ListChanges
    PROVE  RunFits(messages, rows, seq, floor, hasPage, channelSeq, run')
<1>0. TypeOK /\ SaidInv /\ Stamped /\ run \in Request /\ messages \in [Msgs -> Row] /\ run.since \in Nat
  BY DEF KnowInv, SaidInv, ServerKnows, TypeOK, Request
<1>1. PICK ms \in SUBSET Msgs :
         FirstChanges(ms) /\ run' = Listed(run, ms, Cardinality(ms) = ChangesLimit)
  BY DEF ListChanges
<1>2. run.step = "counted" /\ hasPage
  BY RunIsPaged DEF ListChanges
<1>3. /\ run'.rows = [m \in Msgs |-> IF m \in ms THEN messages[m] ELSE NoRow]
      /\ run'.top = run.top /\ run'.since = run.since /\ run'.step = "answered"
      /\ run'.more = (Cardinality(ms) = ChangesLimit)
  BY <1>0, <1>1 DEF Listed, Request
<1> DEFINE changed == {m \in Msgs : messages[m].seq > run.since}
<1>4. /\ ms \subseteq changed
      /\ ms = changed \/ Cardinality(ms) = ChangesLimit
      /\ \A m \in ms, k \in changed \ ms : messages[m].seq < messages[k].seq
  BY <1>1 DEF FirstChanges
<1>5. \A m \in Msgs : /\ messages[m].seq \in Nat /\ run'.rows[m].seq \in Nat
                      /\ m \in ms => run'.rows[m] = messages[m]
                      /\ m \notin ms => run'.rows[m].seq = 0
  BY <1>0, <1>3, PartTypes, NoRowType
<1>6. PageFits(messages, rows, seq, floor, TRUE, run')
  BY <1>0, <1>1, <1>2, ListedPageFits
<1>7. CopiesKnow(messages, run'.rows) /\ Covers(messages, rows, seq, floor, run')
  <2>1. CopiesKnow(messages, run'.rows)
    BY <1>6 DEF PageFits
  <2>2. ASSUME NEW m \in Msgs, Exists(run'.rows[m])
        PROVE  Through(messages[m], seq, run'.rows[m].seq, rows[m].seq)
    <3>1. run'.rows[m] = messages[m]
      BY <1>5, <2>2 DEF Exists
    <3> QED
      BY <1>0, <3>1 DEF Through, Between, Stamped
  <2> QED
    BY <2>1, <2>2 DEF Covers
<1>8. SinceReached(messages, rows, seq, floor, run.since) /\ run.since <= channelSeq
  BY <1>2 DEF KnowInv, ReachesSince, OnTheWay
<1>9. SkipsNone(messages, run')
  <2>1. ASSUME NEW m \in Msgs, NEW k \in Msgs, Exists(messages[m]), run.since < messages[m].seq,
               messages[m].seq <= run'.rows[k].seq
        PROVE  messages[m].seq <= run'.rows[m].seq
    <3>1. k \in ms /\ run'.rows[k] = messages[k] /\ m \in changed
      BY <1>0, <1>5, <2>1
    <3>2. m \in ms
      BY <1>4, <1>5, <2>1, <3>1
    <3> QED
      BY <1>5, <3>2
  <2> QED
    BY <1>3, <2>1 DEF SkipsNone
<1>10. ASSUME ~run'.more PROVE Ends(messages, rows, seq, floor, run')
  <2>1. ms = changed
    BY <1>3, <1>4, <1>10
  <2>2. ASSUME NEW m \in Msgs, m >= floor, NEW p \in Parts, Exists(messages[m]),
               seq < messages[m].part[p].at
        PROVE  messages[m].part[p].at <= rows[m].seq \/ messages[m].part[p].at <= run'.rows[m].seq
    <3>0. /\ messages[m].part[p].at \in Nat /\ messages[m].seq \in Nat
          /\ rows[m].seq \in Nat /\ seq \in Nat
          /\ messages[m].part[p].at <= messages[m].seq
      BY <1>0, <2>2, PartTypes DEF Stamped, TypeOK
    <3>1. CASE m \in changed
      BY <1>5, <2>1, <3>0, <3>1
    <3>2. CASE m \notin changed
      <4>1. messages[m].seq <= run.since /\ seq < messages[m].seq
        BY <1>0, <2>2, <3>0, <3>2
      <4>2. messages[m].seq <= rows[m].seq
        BY <1>8, <2>2, <4>1 DEF SinceReached
      <4> QED
        BY <3>0, <4>2
    <3> QED
      BY <3>1, <3>2
  <2> QED
    BY <2>2 DEF Ends, Between
<1> QED
  BY <1>2, <1>3, <1>7, <1>8, <1>9, <1>10 DEF RunFits

LEMMA StillReaches ==
    ASSUME KnowInv, TypeOK', SaidInv', ServerKnows',
           \/ \E w \in reloading : ReloadRow(w) \/ LoseEvent(w)
           \/ \E o \in outbox : Publish(o)
           \/ Connect \/ Disconnect \/ ReceiveReady
           \/ \E l \in Loads : AskPage(l) \/ ListPage(l) \/ DropPage(l) \/ FailPage(l)
           \/ CountChanges \/ ListChanges \/ FailChanges \/ RefuseChanges \/ RetryChanges
           \/ UNCHANGED vars
    PROVE  KnowInv'
<1> USE DEF Outside, server, delivery, log, history
<1> DEFINE Still == UNCHANGED <<channelSeq, messages, hasPage, rows, seq, floor, vouched>>
           PageOk(l) == load'[l] = load[l] \/ PageFits(messages, rows, seq, floor, hasPage, load'[l])
           RunOk == run' = run \/ RunFits(messages, rows, seq, floor, hasPage, channelSeq, run')
<1>0. /\ TypeOK /\ SaidInv /\ Stamped /\ messages \in [Msgs -> Row] /\ seq \in Nat /\ floor \in Nat
      /\ hasPage \in BOOLEAN /\ channelSeq \in Nat /\ load \in [Loads -> Request] /\ run \in Request
  BY DEF KnowInv, SaidInv, ServerKnows, TypeOK
<1>s. ASSUME Still, \A l \in Loads : PageOk(l), RunOk PROVE KnowInv'
  BY <1>s, RequestStep
<1>i. PageFits(messages, rows, seq, floor, hasPage, Idle)
  BY <1>0, IdleFits
<1>r. ASSUME \/ run' = run \/ run' = Idle
             \/ hasPage /\ run' = Asked(seq)
             \/ hasPage /\ run' = [Idle EXCEPT !.step = "backoff"]
      PROVE  RunOk
  BY <1>0, <1>r, RunAfresh
<1>1. ASSUME \/ \E w \in reloading : ReloadRow(w) \/ LoseEvent(w)
             \/ \E o \in outbox : Publish(o)
             \/ Connect \/ Disconnect \/ UNCHANGED vars
      PROVE  KnowInv'
  <2>1. Still /\ load' = load /\ run' = run
    BY <1>1 DEF ReloadRow, LoseEvent, Publish, Connect, Disconnect, vars
  <2> QED
    BY <1>s, <2>1
<1>2. ASSUME ReceiveReady PROVE KnowInv'
  <2>1. Still /\ load' = load
    BY <1>2 DEF ReceiveReady
  <2>2. RunOk
    BY <1>2, <1>r, StartedRun DEF ReceiveReady
  <2> QED
    BY <1>s, <2>1, <2>2
<1>3. ASSUME NEW l \in Loads, NEW q, load' = [load EXCEPT ![l] = q],
             PageFits(messages, rows, seq, floor, hasPage, q)
      PROVE  \A k \in Loads : PageOk(k)
  BY <1>0, <1>3
<1>4. ASSUME NEW l \in Loads, AskPage(l) PROVE KnowInv'
  <2> DEFINE q == Counted([Idle EXCEPT !.early = ~hasPage])
  <2>1. q.rows = NoRows /\ q.early = ~hasPage
    BY DEF Counted, Idle
  <2> HIDE DEF q
  <2>2. PageFits(messages, rows, seq, floor, hasPage, q)
    BY <2>1, EmptyKnows DEF PageFits
  <2>3. Still /\ run' = run /\ load' = [load EXCEPT ![l] = q]
    BY <1>4 DEF AskPage, q
  <2> QED
    BY <1>s, <1>3, <2>2, <2>3
<1>5. ASSUME NEW l \in Loads, ListPage(l) PROVE KnowInv'
  <2>1. PICK ms : load' = [load EXCEPT ![l] = Listed(load[l], ms, FALSE)]
    BY <1>5 DEF ListPage
  <2>2. hasPage \/ load[l] = Idle \/ load[l].early
    BY DEF KnowInv, OpensLast
  <2>3. PageFits(messages, rows, seq, floor, hasPage, Listed(load[l], ms, FALSE))
    BY <1>0, <1>5, <2>2, ListedPageFits DEF ListPage
  <2>4. Still /\ run' = run
    BY <1>5 DEF ListPage
  <2>5. \A k \in Loads : PageOk(k)
    BY <1>3, <2>1, <2>3
  <2> QED
    BY <1>s, <2>4, <2>5
<1>6. ASSUME NEW l \in Loads, DropPage(l) PROVE KnowInv'
  <2>1. Still /\ load' = [load EXCEPT ![l] = Idle]
    BY <1>6 DEF DropPage
  <2>2. RunOk
    BY <1>6, <1>r, StartedRun DEF DropPage
  <2> QED
    BY <1>s, <1>i, <1>3, <2>1, <2>2
<1>7. ASSUME NEW l \in Loads, FailPage(l) PROVE KnowInv'
  <2>1. Still /\ run' = run /\ load' = [load EXCEPT ![l] = Idle]
    BY <1>7 DEF FailPage
  <2> QED
    BY <1>s, <1>i, <1>3, <2>1
<1>8. ASSUME CountChanges PROVE KnowInv'
  <2>1. hasPage /\ run.step = "asked"
    BY <1>8, RunIsPaged DEF CountChanges
  <2>2. run'.rows = run.rows /\ run'.since = run.since /\ run'.step = "counted"
    BY <1>0, <1>8 DEF CountChanges, Counted, Request
  <2>3. RunFits(messages, rows, seq, floor, hasPage, channelSeq, run')
    BY <2>1, <2>2 DEF RunFits, KnowInv, AllCopiesKnow, ReachesSince, OnTheWay
  <2>4. Still /\ load' = load
    BY <1>8 DEF CountChanges
  <2> QED
    BY <1>s, <2>3, <2>4
<1>9. ASSUME ListChanges PROVE KnowInv'
  <2>1. Still /\ load' = load
    BY <1>9 DEF ListChanges
  <2> QED
    BY <1>s, <1>9, <2>1, ListedRunFits
<1>10. ASSUME FailChanges \/ RefuseChanges \/ RetryChanges PROVE KnowInv'
  <2>1. Still /\ load' = load
    BY <1>10 DEF FailChanges, RefuseChanges, RetryChanges
  <2>2. FailChanges => hasPage
    BY RunIsPaged DEF FailChanges, OnTheWay
  <2>3. RunOk
    BY <1>10, <1>r, <2>2 DEF FailChanges, RefuseChanges, RetryChanges
  <2> QED
    BY <1>s, <2>1, <2>3
<1> QED
  BY <1>1, <1>2, <1>4, <1>5, <1>6, <1>7, <1>8, <1>9, <1>10

LEMMA TakenRows ==
    ASSUME TypeOK, NEW q \in Request, TakeRows(q)
    PROVE  /\ floor <= floor'
           /\ \A m \in Msgs : m >= floor' =>
                 /\ rows'[m] = IF m \in Won(q) THEN q.rows[m] ELSE rows[m]
                 /\ rows[m].seq <= rows'[m].seq /\ q.rows[m].seq <= rows'[m].seq
<1>1. /\ floor \in Nat /\ q.floor \in Nat /\ floor' = Higher(floor, q.floor) /\ floor' \in Nat
      /\ rows \in [Msgs -> Row] /\ q.rows \in [Msgs -> Row]
      /\ rows' = AboveFloor(Merged(rows, q.rows, TRUE), floor')
  BY HigherType DEF TypeOK, Request, TakeRows
<1>2. floor <= floor'
  BY <1>1, HigherType
<1>3. ASSUME NEW m \in Msgs, m >= floor'
      PROVE  /\ rows'[m] = IF m \in Won(q) THEN q.rows[m] ELSE rows[m]
             /\ rows[m].seq <= rows'[m].seq /\ q.rows[m].seq <= rows'[m].seq
  <2>1. rows[m].seq \in Nat /\ q.rows[m].seq \in Nat
    BY <1>1, PartTypes
  <2>2. Merged(rows, q.rows, TRUE)[m] = IF m \in Won(q) THEN q.rows[m] ELSE rows[m]
    BY DEF Merged, Won
  <2>3. ~(m < floor')
    BY <1>1, <1>3 DEF Msgs
  <2>4. rows'[m] = Merged(rows, q.rows, TRUE)[m]
    BY <1>1, <2>3 DEF AboveFloor
  <2>5. m \in Won(q) => q.rows[m].seq >= rows[m].seq
    BY <2>1 DEF Won, Wins
  <2>6. m \notin Won(q) => q.rows[m].seq <= rows[m].seq
    BY <2>1 DEF Won, Wins, Exists
  <2>7. CASE m \in Won(q)
    <3>1. rows'[m] = q.rows[m]
      BY <2>2, <2>4, <2>7
    <3> QED
      BY <2>1, <2>5, <2>7, <3>1
  <2>8. CASE m \notin Won(q)
    <3>1. rows'[m] = rows[m]
      BY <2>2, <2>4, <2>8
    <3> QED
      BY <2>1, <2>6, <2>8, <3>1
  <2> QED
    BY <2>7, <2>8
<1> QED
  BY <1>2, <1>3

\* The rows an answer brings are known, when it reaches the log's position.
LEMMA TakenKnown ==
    ASSUME TypeOK, TypeOK', Onward, NEW q \in Request, TakeRows(q),
           CopiesKnow(messages, q.rows), Covers(messages, rows, seq, floor, q),
           NEW m \in Won(q)
    PROVE  Known(messages, rows', seq', floor', hasPage, m)
<1>1. /\ floor \in Nat /\ floor' \in Nat /\ seq \in Nat /\ seq' \in Nat /\ floor <= floor'
      /\ seq <= seq' /\ m \in Msgs /\ messages[m] \in Row
  BY DEF TypeOK, Onward, Won
<1>2. rows[m].seq \in Nat /\ rows'[m].seq \in Nat /\ q.rows[m].seq \in Nat
  BY <1>1, PartTypes DEF TypeOK, Request
<1> SUFFICES ASSUME m >= floor', Exists(rows'[m])
             PROVE  /\ CopyKnows(messages[m], rows'[m])
                    /\ Through(messages[m], seq', rows'[m].seq, rows'[m].seq)
  BY DEF Known
<1>3. rows'[m] = q.rows[m] /\ rows[m].seq <= rows'[m].seq
  BY <1>1, TakenRows
<1>4. CopyKnows(messages[m], rows'[m])
  BY <1>1, <1>3 DEF CopiesKnow
<1>5. m >= floor
  BY <1>1 DEF Msgs
<1>6. Through(messages[m], seq, rows'[m].seq, rows[m].seq)
  BY <1>1, <1>3, <1>5 DEF Covers
<1>7. Between(messages[m], -1, seq, rows'[m].seq, rows'[m].seq)
  BY <1>1, <1>2, <1>3, <1>6, PartTypes DEF Through, Between
<1>8. Between(messages[m], seq, seq', rows'[m].seq, rows'[m].seq)
  BY <1>1 DEF Onward
<1>9. Through(messages[m], seq', rows'[m].seq, rows'[m].seq)
  BY <1>1, <1>2, <1>7, <1>8, BetweenJoins DEF Through
<1> QED
  BY <1>4, <1>9

LEMMA TakenStands ==
    ASSUME TypeOK, NEW q \in Request, TakeRows(q), NEW m \in Msgs \ Won(q)
    PROVE  rows'[m] = rows[m] \/ Known(messages, rows', seq', floor', hasPage, m)
<1>1. floor' \in Nat /\ m \in Nat
  BY TakeRowsType DEF Msgs
<1>2. CASE m >= floor'
  BY <1>2, TakenRows
<1>3. CASE ~(m >= floor')
  BY <1>3 DEF Known
<1> QED
  BY <1>2, <1>3

\* Taking an answer goes on, as far as the rows taken reach.
LEMMA TakenOnward ==
    ASSUME TypeOK, TypeOK', NEW q \in Request, TakeRows(q),
           UNCHANGED <<channelSeq, messages, hasPage>>, seq <= seq',
           \A m \in Msgs : m >= floor =>
               Between(messages[m], seq, seq', rows[m].seq, q.rows[m].seq)
    PROVE  Onward
<1>1. /\ floor \in Nat /\ floor' \in Nat /\ seq \in Nat /\ seq' \in Nat
      /\ \A m \in Msgs : /\ messages[m] \in Row /\ q.rows[m].seq \in Nat
                         /\ rows[m].seq \in Nat /\ rows'[m].seq \in Nat
  BY PartTypes DEF TypeOK, Request
<1>2. floor <= floor'
  BY TakenRows
<1>3. ASSUME NEW m \in Msgs, m >= floor'
      PROVE  /\ rows[m].seq <= rows'[m].seq
             /\ Between(messages[m], seq, seq', rows'[m].seq, rows'[m].seq)
  <2>1. rows[m].seq <= rows'[m].seq /\ q.rows[m].seq <= rows'[m].seq
    BY <1>3, TakenRows
  <2>2. m >= floor
    BY <1>1, <1>2, <1>3 DEF Msgs
  <2> QED
    BY <1>1, <2>1, <2>2, BetweenGrows
<1> QED
  BY <1>2, <1>3 DEF Onward

LEMMA BetweenNone ==
    ASSUME NEW t \in Row, NEW n \in Nat, NEW a, NEW b
    PROVE  Between(t, n, n, a, b)
BY PartTypes DEF Between

LEMMA TakePageReaches ==
    ASSUME KnowInv, TypeOK', SaidInv', ServerKnows', NEW l \in Loads, TakePage(l)
    PROVE  KnowInv'
<1> DEFINE q == load[l]
<1>0. /\ TypeOK /\ SaidInv /\ q \in Request /\ seq \in Nat /\ messages \in [Msgs -> Row]
      /\ hasPage \in BOOLEAN /\ channelSeq \in Nat /\ load \in [Loads -> Request]
      /\ vouched \subseteq Msgs
  BY DEF KnowInv, SaidInv, TypeOK
<1>1. /\ UNCHANGED <<channelSeq, messages, hasPage, seq>> /\ hasPage /\ TakeRows(q)
      /\ load' = [load EXCEPT ![l] = Idle]
      /\ vouched' = IF q.early THEN vouched \ Won(q) ELSE vouched \cup Won(q)
  BY DEF TakePage, Outside, server
<1>2. run' = run \/ run' = Asked(seq)
  BY StartedRun DEF TakePage
<1>3. CopiesKnow(messages, q.rows) /\ (~q.early => Covers(messages, rows, seq, floor, q))
  BY <1>1 DEF KnowInv, AllCopiesKnow, PagesReach
<1> HIDE DEF q
<1>4. Onward
  BY <1>0, <1>1, BetweenNone, TakenOnward
<1>5. \A k \in Loads : \/ load'[k] = load[k]
                       \/ PageFits(messages, rows', seq', floor', hasPage, load'[k])
  <2>1. PageFits(messages, rows', seq', floor', hasPage, Idle)
    BY <1>0, <1>1, IdleFits
  <2> QED
    BY <1>0, <1>1, <2>1
<1>6. run' = run \/ RunFits(messages, rows', seq', floor', hasPage, channelSeq, run')
  BY <1>0, <1>1, <1>2, RunAfresh
<1>7. ASSUME NEW m \in vouched'
      PROVE  \/ m \in vouched /\ rows'[m] = rows[m]
             \/ Known(messages, rows', seq', floor', hasPage, m)
  <2>1. CASE m \in Won(q)
    <3>1. ~q.early
      BY <1>1, <1>7, <2>1
    <3> QED
      BY <1>0, <1>1, <1>3, <1>4, <2>1, <3>1, TakenKnown
  <2>2. CASE m \notin Won(q)
    <3>1. m \in vouched /\ m \in Msgs
      BY <1>0, <1>1, <1>7, <2>2
    <3> QED
      BY <1>0, <1>1, <2>2, <3>1, TakenStands
  <2> QED
    BY <2>1, <2>2
<1> QED
  BY <1>4, <1>5, <1>6, <1>7, OnwardStep

LEMMA HighestReached ==
    ASSUME NEW q, q = run, q \in Request, NEW low \in SUBSET Nat, NEW n \in Highest(low)
    PROVE  n \in low \/ \E m \in Msgs : n = q.rows[m].seq
BY DEF Highest

LEMMA MergeReaches ==
    ASSUME KnowInv, TypeOK', SaidInv', ServerKnows', MergeChanges
    PROVE  KnowInv'
<1>0. /\ TypeOK /\ SaidInv /\ run \in Request /\ seq \in Nat /\ messages \in [Msgs -> Row]
      /\ hasPage \in BOOLEAN /\ channelSeq \in Nat /\ vouched \subseteq Msgs
      /\ floor \in Nat /\ floor' \in Nat /\ run.since \in Nat
  BY DEF KnowInv, SaidInv, TypeOK, Request
<1>1. /\ UNCHANGED <<channelSeq, messages, hasPage, seq, load>> /\ TakeRows(run)
      /\ run.step = "answered" /\ run.more /\ vouched' = vouched \cup Won(run)
  BY DEF MergeChanges, Outside, server
<1>2. /\ hasPage /\ CopiesKnow(messages, run.rows) /\ Covers(messages, rows, seq, floor, run)
      /\ SkipsNone(messages, run) /\ SinceReached(messages, rows, seq, floor, run.since)
      /\ run.since <= channelSeq
  BY <1>1, RunIsPaged DEF KnowInv, AllCopiesKnow, AnswerReaches, ReachesSince, OnTheWay
<1>3. PICK n \in Highest({run.since}) : run' = Asked(n)
  BY DEF MergeChanges
<1>4. n \in Nat /\ (n = run.since \/ \E m \in Msgs : n = run.rows[m].seq)
  BY <1>0, HighestType, HighestReached
<1>5. Onward
  BY <1>0, <1>1, BetweenNone, TakenOnward
<1>6. ASSUME NEW m \in Msgs, Exists(messages[m]), m >= floor', seq < messages[m].seq,
             messages[m].seq <= n
      PROVE  messages[m].seq <= rows'[m].seq
  <2>1. /\ messages[m].seq \in Nat /\ rows[m].seq \in Nat /\ rows'[m].seq \in Nat
        /\ run.rows[m].seq \in Nat
    BY <1>0, PartTypes DEF TypeOK, Request
  <2>2. rows[m].seq <= rows'[m].seq /\ run.rows[m].seq <= rows'[m].seq /\ floor <= floor'
    BY <1>0, <1>1, <1>6, TakenRows
  <2>3. m >= floor
    BY <1>0, <1>6, <2>2 DEF Msgs
  <2>4. CASE messages[m].seq <= run.since
    BY <1>2, <1>6, <2>1, <2>2, <2>3, <2>4 DEF SinceReached
  <2>5. CASE ~(messages[m].seq <= run.since)
    <3>1. messages[m].seq <= run.rows[m].seq
      BY <1>0, <1>2, <1>4, <1>6, <2>1, <2>5 DEF SkipsNone
    <3> QED
      BY <2>1, <2>2, <3>1
  <2> QED
    BY <2>4, <2>5
<1>7. n <= channelSeq
  BY <1>0, <1>2, <1>4, SaidBounds
<1>8. RunFits(messages, rows', seq', floor', hasPage, channelSeq, run')
  <2>1. run'.rows = NoRows /\ run'.step = "asked" /\ run'.since = n
    BY <1>3 DEF Asked, Idle
  <2>2. SinceReached(messages, rows', seq', floor', n)
    BY <1>1, <1>6 DEF SinceReached
  <2> QED
    BY <1>2, <1>7, <2>1, <2>2, EmptyKnows DEF RunFits
<1>9. ASSUME NEW m \in vouched'
      PROVE  \/ m \in vouched /\ rows'[m] = rows[m]
             \/ Known(messages, rows', seq', floor', hasPage, m)
  <2>1. CASE m \in Won(run)
    BY <1>0, <1>1, <1>2, <1>5, <2>1, TakenKnown
  <2>2. CASE m \notin Won(run)
    BY <1>0, <1>1, <1>9, <2>2, TakenStands
  <2> QED
    BY <2>1, <2>2
<1> QED
  BY <1>1, <1>5, <1>8, <1>9, OnwardStep

LEMMA CaughtUpReaches ==
    ASSUME KnowInv, TypeOK', SaidInv', ServerKnows', CaughtUp
    PROVE  KnowInv'
<1>0. /\ TypeOK /\ SaidInv /\ run \in Request /\ seq \in Nat /\ messages \in [Msgs -> Row]
      /\ hasPage \in BOOLEAN /\ channelSeq \in Nat /\ vouched \subseteq Msgs
      /\ floor \in Nat /\ run.top \in Nat /\ seq' \in Nat /\ seq' <= channelSeq'
  BY DEF KnowInv, SaidInv, TypeOK, Request, PositionsFit
<1>1. /\ UNCHANGED <<channelSeq, messages, hasPage, load>> /\ TakeRows(run)
      /\ run.step = "answered" /\ ~run.more /\ vouched' = vouched \cup Won(run)
      /\ run' = Idle \/ run' = Asked(seq')
  BY DEF CaughtUp, Outside, server
<1>2. /\ hasPage /\ CopiesKnow(messages, run.rows) /\ Covers(messages, rows, seq, floor, run)
      /\ Ends(messages, rows, seq, floor, run)
  BY <1>1, RunIsPaged DEF KnowInv, AllCopiesKnow, AnswerReaches
<1>3. seq' \in Highest({seq, run.top})
  BY DEF CaughtUp, Positioned
<1>4. seq <= seq' /\ (seq' = seq \/ seq' \in LeadsTo(run))
  BY <1>0, <1>3, HighestType, HighestReached DEF LeadsTo
<1>5. \A m \in Msgs : m >= floor =>
         Between(messages[m], seq, seq', rows[m].seq, run.rows[m].seq)
  BY <1>0, <1>2, <1>4, BetweenNone DEF Ends
<1>6. Onward
  BY <1>0, <1>1, <1>4, <1>5, TakenOnward
<1>7. RunFits(messages, rows', seq', floor', hasPage, channelSeq, run')
  BY <1>0, <1>1, <1>2, IdleFits
<1>8. ASSUME NEW m \in vouched'
      PROVE  \/ m \in vouched /\ rows'[m] = rows[m]
             \/ Known(messages, rows', seq', floor', hasPage, m)
  <2>1. CASE m \in Won(run)
    BY <1>0, <1>1, <1>2, <1>6, <2>1, TakenKnown
  <2>2. CASE m \notin Won(run)
    BY <1>0, <1>1, <1>8, <2>2, TakenStands
  <2> QED
    BY <2>1, <2>2
<1> QED
  BY <1>1, <1>6, <1>7, <1>8, OnwardStep

LEMMA OpenReaches ==
    ASSUME KnowInv, TypeOK', SaidInv', ServerKnows', NEW l \in Loads, OpenFirst(l)
    PROVE  KnowInv'
<1> DEFINE q == load[l]
<1>0. /\ TypeOK /\ SaidInv /\ q \in Request /\ q.top \in Nat /\ messages \in [Msgs -> Row]
      /\ channelSeq \in Nat /\ load \in [Loads -> Request] /\ vouched \subseteq Msgs
      /\ floor \in Nat /\ floor' \in Nat /\ q.top <= channelSeq
  BY DEF KnowInv, SaidInv, TypeOK, Request, PositionsFit
<1>1. /\ UNCHANGED <<channelSeq, messages>> /\ ~hasPage /\ hasPage' = TRUE /\ seq' = q.top
      /\ TakeRows(q) /\ load' = [load EXCEPT ![l] = Idle]
      /\ vouched' = Won(q) \cup {m \in vouched : Exists(q.rows[m])}
  BY DEF OpenFirst, Positioned, Outside, server
<1>2. /\ run = Idle /\ CopiesKnow(messages, q.rows) /\ Tops(messages, q)
      /\ \A k \in Loads : /\ CopiesKnow(messages, load[k].rows) /\ Tops(messages, load[k])
                          /\ load[k] = Idle \/ load[k].early
  BY <1>1 DEF KnowInv, OpensLast, AllCopiesKnow, PagesReach
<1>3. run' = Idle \/ run' = Asked(seq')
  BY <1>2, StartedRun DEF OpenFirst
<1> HIDE DEF q
<1>4. \A k \in Loads : PageFits(messages, rows', seq', floor', TRUE, load'[k])
  <2>1. PageFits(messages, rows', seq', floor', TRUE, Idle)
    BY <1>0, <1>1, IdleFits
  <2>2. ASSUME NEW k \in Loads, load[k].early
        PROVE  PageFits(messages, rows', seq', floor', TRUE, load[k])
    BY <1>2, <2>2 DEF PageFits
  <2> QED
    BY <1>0, <1>1, <1>2, <2>1, <2>2
<1>5. RunFits(messages, rows', seq', floor', TRUE, channelSeq, run')
  BY <1>0, <1>1, <1>3, IdleFits
<1>6. ASSUME NEW m \in vouched' PROVE Known(messages, rows', seq', floor', TRUE, m)
  <2>0. /\ m \in Msgs /\ Exists(q.rows[m]) /\ messages[m] \in Row
        /\ q.rows[m].seq \in Nat /\ rows[m].seq \in Nat
    BY <1>0, <1>1, <1>6, PartTypes DEF Won, Wins, TypeOK, Request
  <2> SUFFICES ASSUME m >= floor', Exists(rows'[m])
               PROVE  /\ CopyKnows(messages[m], rows'[m])
                      /\ Through(messages[m], q.top, rows'[m].seq, rows'[m].seq)
    BY <1>1 DEF Known
  <2>1. Through(messages[m], q.top, q.rows[m].seq, q.rows[m].seq)
    BY <1>2, <2>0 DEF Tops
  <2>2. CASE m \in Won(q)
    <3>1. rows'[m] = q.rows[m]
      BY <1>0, <1>1, <2>0, <2>2, TakenRows
    <3> QED
      BY <1>2, <2>0, <2>1, <3>1 DEF CopiesKnow
  <2>3. CASE m \notin Won(q)
    <3>1. rows'[m] = rows[m] /\ q.rows[m].seq <= rows[m].seq /\ floor <= floor'
      BY <1>0, <1>1, <2>0, <2>3, TakenRows
    <3>2. m >= floor /\ m \in vouched
      <4>1. m \in vouched
        BY <1>1, <1>6, <2>3
      <4>2. m \in Nat /\ floor \in Nat /\ floor' \in Nat
        BY <1>0, <2>0 DEF Msgs
      <4> QED
        BY <3>1, <4>1, <4>2
    <3>3. CopyKnows(messages[m], rows[m])
      BY <3>1, <3>2 DEF KnowInv, VouchedKnow, Known
    <3>4. Through(messages[m], q.top, rows[m].seq, rows[m].seq)
      BY <1>0, <2>0, <2>1, <3>1, PartTypes DEF Through, Between
    <3> QED
      BY <3>1, <3>3, <3>4
  <2> QED
    BY <2>2, <2>3
<1> QED
  BY <1>1, <1>4, <1>5, <1>6 DEF KnowInv, PageFits, RunFits, VouchedKnow,
     AllCopiesKnow, OpensLast, PagesReach, ReachesSince, AnswerReaches

LEMMA ForgetReaches ==
    ASSUME KnowInv, TypeOK', SaidInv', ServerKnows', Forget
    PROVE  KnowInv'
<1>0. messages' \in [Msgs -> Row] /\ channelSeq' \in Nat
  BY DEF TypeOK
<1>1. /\ ~hasPage' /\ run' = Idle /\ vouched' = {} /\ seq' = 0
      /\ \A l \in Loads : load'[l] = Idle
  BY DEF Forget
<1>2. PageFits(messages', rows', seq', floor', FALSE, Idle)
      /\ RunFits(messages', rows', seq', floor', FALSE, channelSeq', Idle)
  BY <1>0, <1>1, IdleFits
<1>3. hasPage' = FALSE
  BY DEF Forget
<1> QED
  BY <1>1, <1>2, <1>3 DEF KnowInv, PageFits, RunFits, VouchedKnow,
     AllCopiesKnow, OpensLast, PagesReach, ReachesSince, AnswerReaches

\* The row an event makes of a held one, when it tells of the row t.
LEMMA ToldKnows ==
    ASSUME NEW ms \in [Msgs -> Row], NEW e \in Event, Sound(e), Tells(ms, e), NEW held \in Row,
           e.kind # "patch"
    PROVE  CopyKnows(ms[e.msg], Changed(e, held))
<1>0. e.msg \in Msgs /\ e.seq \in Nat /\ e.kind \in {"row", "deleted"}
  BY DEF Event, Kinds
<1>1. CASE e.kind = "row"
  BY <1>1 DEF Changed, Tells
<1>2. CASE e.kind = "deleted"
  <2>1. Changed(e, held) = Tombstone(held, e.seq)
    BY <1>2 DEF Changed
  <2>2. held.part \in [Parts -> Part] /\ Parts = {"content", "reactions", "pin"}
    BY DEF Row, Parts
  <2>3. /\ Tombstone(held, e.seq).part["content"] = WrittenAt(e.seq, "gone")
        /\ Tombstone(held, e.seq).part["reactions"] = WrittenAt(e.seq, "none")
    BY <2>2 DEF Tombstone
  <2>4. Deleted(Tombstone(held, e.seq))
    BY <1>0, TombstoneType
  <2> QED
    BY <1>2, <2>1, <2>2, <2>3, <2>4 DEF Tells, CopyKnows, Knows
<1> QED
  BY <1>0, <1>1, <1>2

LEMMA PatchKnows ==
    ASSUME NEW ms \in [Msgs -> Row], NEW e \in Event, Sound(e), Tells(ms, e), NEW held \in Row,
           e.kind = "patch", Exists(held), CopyKnows(ms[e.msg], held),
           Through(ms[e.msg], e.seq - 1, held.seq, held.seq)
    PROVE  CopyKnows(ms[e.msg], Changed(e, held))
<1> DEFINE t == ms[e.msg]
           c == WithPart(held, e.seq, e.p, e.value)
<1>0. /\ e.msg \in Msgs /\ e.seq \in Nat /\ e.p \in Parts /\ e.p # "content" /\ "content" \in Parts
      /\ t \in Row /\ held.seq \in Nat /\ held.part \in [Parts -> Part]
      /\ \A p \in Parts : t.part[p].at \in Nat
  BY PartTypes DEF Event, Sound, Row, Parts
<1>1. Changed(e, held) = c /\ c.seq = e.seq
  BY DEF Changed, WithPart
<1>2. c.part[e.p] = e.value /\ \A p \in Parts \ {e.p} : c.part[p] = held.part[p]
  BY <1>0 DEF WithPart
<1>3. Deleted(held) => Deleted(c)
  BY <1>0, <1>2 DEF Deleted
<1> HIDE DEF c
<1>4. ASSUME Exists(t), NEW p \in Parts, t.part[p].at <= e.seq
      PROVE  c.part[p] = t.part[p] \/ (p = "pin" /\ Deleted(c))
  <2>1. /\ t.part[e.p].at >= e.seq /\ \A k \in Parts \ {e.p} : t.part[k].at # e.seq
        /\ t.part[e.p].at = e.seq => e.value = t.part[e.p]
    BY <1>4 DEF Tells, WroteOnly
  <2>2. CASE p = e.p
    BY <1>0, <1>2, <1>4, <2>1, <2>2
  <2>3. CASE p # e.p
    <3>1. t.part[p].at <= e.seq - 1 /\ -1 < t.part[p].at
      BY <1>0, <1>4, <2>1, <2>3
    <3>2. t.part[p].at <= held.seq
      BY <1>4, <3>1 DEF Through, Between
    <3>3. held.part[p] = t.part[p] \/ (p = "pin" /\ Deleted(held))
      BY <1>4, <3>2 DEF CopyKnows, Knows
    <3> QED
      BY <1>2, <1>3, <2>3, <3>3
  <2> QED
    BY <2>2, <2>3
<1> QED
  BY <1>1, <1>4 DEF CopyKnows, Knows

LEMMA ChangedSeq ==
    ASSUME NEW e \in Event, Sound(e), NEW held \in Row
    PROVE  /\ Exists(Changed(e, held)) => Changed(e, held).seq = e.seq
           /\ e.seq > 0 /\ (e.kind # "patch" \/ Exists(held)) => Exists(Changed(e, held))
           /\ e.kind = "patch" /\ Exists(Changed(e, held)) => Exists(held)
<1>1. e.kind \in {"row", "deleted", "patch"} /\ e.seq \in Nat
  BY DEF Event, Kinds
<1>2. CASE e.kind = "row"
  BY <1>2 DEF Changed, Sound
<1>3. CASE e.kind = "deleted"
  BY <1>1, <1>3, TombstoneType DEF Changed, Exists
<1>4. CASE e.kind = "patch"
  BY <1>1, <1>4, NoRowType DEF Changed, WithPart, Exists
<1> QED
  BY <1>1, <1>2, <1>3, <1>4

LEMMA ApplyOnward ==
    ASSUME TypeOK, TypeOK', NEW e \in Event, Sound(e), Tells(messages, e), ApplyEvent(e),
           ~(hasPage /\ e.seq <= seq), UNCHANGED <<channelSeq, messages, hasPage, floor>>
    PROVE  Onward
<1> DEFINE copy == Changed(e, rows[e.msg])
           taken == Wins(copy, rows[e.msg], FALSE)
           covered == e.kind # "patch" \/ Exists(rows[e.msg])
           follows == hasPage /\ covered /\ e.seq = seq + 1
<1>1. /\ rows' = IF taken THEN [rows EXCEPT ![e.msg] = copy] ELSE rows
      /\ seq' = IF follows THEN e.seq ELSE seq
  BY DEF ApplyEvent
<1>2. /\ e.msg \in Msgs /\ e.seq \in Nat /\ seq \in Nat /\ floor \in Nat
      /\ messages \in [Msgs -> Row] /\ rows \in [Msgs -> Row] /\ rows[e.msg] \in Row
      /\ copy \in Row
  BY ChangedType DEF Event, TypeOK
<1>3. /\ \A m \in Msgs : rows[m].seq \in Nat
      /\ copy.seq \in Nat
      /\ \A m \in Msgs, p \in Parts : messages[m].part[p].at \in Nat
  BY <1>2, PartTypes
<1>4. /\ Exists(copy) => copy.seq = e.seq
      /\ e.seq > 0 /\ covered => Exists(copy)
  BY <1>2, ChangedSeq
<1>5. taken <=> Exists(copy) /\ copy.seq > rows[e.msg].seq
  BY DEF Wins
<1> HIDE DEF copy, taken, covered
<1>6. rows'[e.msg] = IF taken THEN copy ELSE rows[e.msg]
  BY <1>1, <1>2
<1>7. \A m \in Msgs \ {e.msg} : rows'[m] = rows[m]
  BY <1>1, <1>2
<1>8. rows[e.msg].seq <= rows'[e.msg].seq
  BY <1>2, <1>3, <1>5, <1>6
<1>9. \A m \in Msgs : rows[m].seq <= rows'[m].seq
  BY <1>2, <1>3, <1>7, <1>8
<1>10. seq <= seq'
  BY <1>1, <1>2
<1>11. ASSUME NEW m \in Msgs
       PROVE  Between(messages[m], seq, seq', rows'[m].seq, rows'[m].seq)
  <2>1. CASE ~follows
    BY <1>1, <1>2, <2>1, BetweenNone
  <2>2. CASE follows
    <3>1. seq' = seq + 1 /\ seq' = e.seq /\ e.seq > 0
      BY <1>1, <1>2, <2>2
    <3>2. e.seq <= rows'[e.msg].seq
      BY <1>2, <1>3, <1>4, <1>5, <1>6, <2>2, <3>1
    <3>3. ASSUME NEW p \in Parts, Exists(messages[m]), seq < messages[m].part[p].at,
                 messages[m].part[p].at <= seq'
          PROVE  messages[m].part[p].at <= rows'[m].seq
      <4>0. messages[m].part[p].at \in Nat /\ seq \in Nat
        BY <1>2, <1>3
      <4>1. messages[m].part[p].at = e.seq
        BY <4>0, <3>1, <3>3
      <4>2. m = e.msg
        BY <3>3, <4>1 DEF Tells, Alone
      <4> QED
        BY <3>2, <4>1, <4>2
    <3> QED
      BY <3>3 DEF Between
  <2> QED
    BY <2>1, <2>2
<1> QED
  BY <1>2, <1>9, <1>10, <1>11 DEF Onward

LEMMA ApplyKnows ==
    ASSUME KnowInv, TypeOK', NEW e \in Event, Sound(e), Tells(messages, e), ApplyEvent(e),
           ~(hasPage /\ e.seq <= seq), UNCHANGED <<messages, hasPage, floor>>,
           NEW m \in vouched'
    PROVE  \/ m \in vouched /\ rows'[m] = rows[m]
           \/ Known(messages, rows', seq', floor', hasPage, m)
<1> DEFINE copy == Changed(e, rows[e.msg])
           taken == Wins(copy, rows[e.msg], FALSE)
           covered == e.kind # "patch" \/ Exists(rows[e.msg])
           follows == hasPage /\ covered /\ e.seq = seq + 1
<1>0. TypeOK
  BY DEF KnowInv, SaidInv
<1>1. /\ rows' = IF taken THEN [rows EXCEPT ![e.msg] = copy] ELSE rows
      /\ seq' = IF follows THEN e.seq ELSE seq
      /\ vouched' = IF ~taken \/ (e.kind = "patch" /\ follows) THEN vouched
                    ELSE IF e.kind = "patch" THEN vouched \ {e.msg}
                    ELSE vouched \cup {e.msg}
  BY DEF ApplyEvent
<1>2. /\ e.msg \in Msgs /\ e.seq \in Nat /\ seq \in Nat /\ hasPage \in BOOLEAN /\ vouched \subseteq Msgs
      /\ messages \in [Msgs -> Row] /\ rows \in [Msgs -> Row] /\ rows[e.msg] \in Row
      /\ messages[e.msg] \in Row
  BY <1>0 DEF Event, TypeOK
<1>3. /\ Exists(copy) => copy.seq = e.seq
      /\ e.kind = "patch" /\ Exists(copy) => Exists(rows[e.msg])
  BY <1>2, ChangedSeq
<1>4. taken => Exists(copy)
  BY DEF Wins
<1>5. e.kind # "patch" => CopyKnows(messages[e.msg], copy)
  BY <1>2, ToldKnows
<1>6. \A n \in Nat, a \in Nat : n <= a => Through(messages[e.msg], n, a, a)
  BY <1>2, PartTypes DEF Through, Between
<1>7. ASSUME e.kind = "patch", Exists(rows[e.msg]), follows, e.msg \in vouched, e.msg >= floor
      PROVE  CopyKnows(messages[e.msg], copy)
  <2>1. CopyKnows(messages[e.msg], rows[e.msg])
        /\ Through(messages[e.msg], seq, rows[e.msg].seq, rows[e.msg].seq)
    BY <1>7 DEF KnowInv, VouchedKnow, Known
  <2>2. seq = e.seq - 1
    BY <1>2, <1>7
  <2> QED
    BY <1>2, <1>7, <2>1, <2>2, PatchKnows
<1>8. CASE m # e.msg \/ ~taken
  <2>1. m \in vouched
    BY <1>1, <1>8
  <2>2. rows'[m] = rows[m]
    BY <1>1, <1>2, <1>8, <2>1
  <2> QED
    BY <2>1, <2>2
<1>9. CASE m = e.msg /\ taken
  <2>1. rows'[m] = copy /\ copy.seq = e.seq /\ Exists(copy)
    BY <1>1, <1>2, <1>3, <1>4, <1>9
  <2>2. e.kind = "patch" => follows /\ m \in vouched
    BY <1>1, <1>9
  <2>3. CopyKnows(messages[m], copy) \/ ~(m >= floor)
    BY <1>3, <1>5, <1>7, <1>9, <2>1, <2>2
  <2>4. hasPage => seq' \in Nat /\ seq' <= e.seq
    BY <1>1, <1>2
  <2>5. hasPage => Through(messages[m], seq', copy.seq, copy.seq)
    BY <1>2, <1>6, <1>9, <2>1, <2>4
  <2> QED
    BY <2>1, <2>3, <2>5 DEF Known
<1> QED
  BY <1>8, <1>9

LEMMA EventReaches ==
    ASSUME KnowInv, TypeOK', SaidInv', ServerKnows', ReceiveEvent
    PROVE  KnowInv'
<1> DEFINE e == Head(wire)
<1>0. /\ TypeOK /\ SaidInv /\ hasPage \in BOOLEAN /\ messages \in [Msgs -> Row] /\ channelSeq \in Nat
      /\ seq' \in Nat /\ seq' <= channelSeq'
  BY DEF KnowInv, SaidInv, TypeOK, PositionsFit
<1>1. /\ UNCHANGED <<channelSeq, messages, hasPage, floor, load>>
      /\ run' = run \/ (hasPage /\ run' = Asked(seq'))
  BY StartedRun DEF ReceiveEvent, server
<1>2. wire \in Seq(Event) /\ wire # <<>>
  BY <1>0 DEF TypeOK, ReceiveEvent
<1>3. e = wire[1] /\ 1 \in 1 .. Len(wire) /\ e \in Event
  BY <1>2
<1>4. Sound(e) /\ Tells(messages, e)
  BY <1>3 DEF KnowInv, SaidInv, EventsSound, ServerKnows, EventsTell
<1>5. run' = run \/ RunFits(messages, rows', seq', floor', hasPage, channelSeq, run')
  BY <1>0, <1>1, IdleFits
<1>6. CASE hasPage /\ e.seq <= seq
  <2>1. UNCHANGED <<channelSeq, messages, hasPage, rows, seq, floor, vouched>> /\ load' = load
    BY <1>1, <1>6 DEF ReceiveEvent
  <2> QED
    BY <1>5, <2>1, RequestStep
<1>7. CASE ~(hasPage /\ e.seq <= seq)
  <2>1. ApplyEvent(e)
    BY <1>7 DEF ReceiveEvent
  <2> HIDE DEF e
  <2>2. Onward
    BY <1>0, <1>1, <1>3, <1>4, <1>7, <2>1, ApplyOnward
  <2>3. \A m \in vouched' : \/ m \in vouched /\ rows'[m] = rows[m]
                            \/ Known(messages, rows', seq', floor', hasPage, m)
    BY <1>1, <1>3, <1>4, <1>7, <2>1, ApplyKnows
  <2> QED
    BY <1>1, <1>5, <2>2, <2>3, OnwardStep
<1> QED
  BY <1>6, <1>7

LEMMA KnowStep == KnowInv /\ [Next]_vars => KnowInv'
<1> SUFFICES ASSUME KnowInv, [Next]_vars PROVE KnowInv'
  OBVIOUS
<1>0. SaidInv /\ ServerKnows
  BY DEF KnowInv
<1>1. SaidInv' /\ TypeOK'
  BY <1>0, SaidStep DEF SaidInv
<1>2. CASE Server
  BY <1>1, <1>2, ServerReaches
<1>3. ASSUME Delivery \/ (\E l \in Loads : Page(l)) \/ CatchUp \/ Forget \/ UNCHANGED vars
      PROVE  KnowInv'
  <2>0. ServerKnows'
    BY <1>0, <1>3, ServerKnowsKept
  <2>1. CASE Delivery
    <3>1. CASE ReceiveEvent
      BY <1>1, <2>0, <3>1, EventReaches
    <3>2. CASE ~ReceiveEvent
      BY <1>1, <2>0, <2>1, <3>2, StillReaches DEF Delivery
    <3> QED
      BY <3>1, <3>2
  <2>2. ASSUME NEW l \in Loads, Page(l) PROVE KnowInv'
    <3>1. CASE OpenFirst(l)
      BY <1>1, <2>0, <3>1, OpenReaches
    <3>2. CASE TakePage(l)
      BY <1>1, <2>0, <3>2, TakePageReaches
    <3>3. CASE AskPage(l) \/ ListPage(l) \/ DropPage(l) \/ FailPage(l)
      BY <1>1, <2>0, <3>3, StillReaches
    <3> QED
      BY <2>2, <3>1, <3>2, <3>3 DEF Page
  <2>3. CASE CatchUp
    <3>1. CASE MergeChanges
      BY <1>1, <2>0, <3>1, MergeReaches
    <3>2. CASE CaughtUp
      BY <1>1, <2>0, <3>2, CaughtUpReaches
    <3>3. CASE CountChanges \/ ListChanges \/ FailChanges \/ RefuseChanges \/ RetryChanges
      BY <1>1, <2>0, <3>3, StillReaches
    <3> QED
      BY <2>3, <3>1, <3>2, <3>3 DEF CatchUp
  <2>4. CASE Forget
    BY <1>1, <2>0, <2>4, ForgetReaches
  <2>5. CASE UNCHANGED vars
    BY <1>1, <2>0, <2>5, StillReaches
  <2> QED
    BY <1>3, <2>1, <2>2, <2>3, <2>4, <2>5
<1> QED
  BY <1>2, <1>3 DEF Next

LEMMA KnowInit == Init => KnowInv
<1> SUFFICES ASSUME Init PROVE KnowInv
  OBVIOUS
<1>0. SaidInv /\ TypeOK
  BY SaidInit DEF SaidInv
<1>1. \A m \in Msgs : ~Exists(messages[m])
  BY NoRowType DEF Init, NoRows, Exists
<1>2. /\ reloading = {} /\ outbox = {} /\ wire = <<>> /\ vouched = {} /\ hasPage = FALSE
      /\ run = Idle /\ \A l \in Loads : load[l] = Idle
  BY DEF Init
<1>3. ServerKnows
  BY <1>1, <1>2 DEF ServerKnows, Stamped, ReloadsAreOne, EventsTell
<1>4. /\ PageFits(messages, rows, seq, floor, hasPage, Idle)
      /\ RunFits(messages, rows, seq, floor, hasPage, channelSeq, Idle)
  BY <1>0, <1>2, IdleFits DEF TypeOK
<1> QED
  BY <1>0, <1>2, <1>3, <1>4, Fits DEF VouchedKnow

LEMMA KnowAlways == Spec => []KnowInv
<1> QED
  BY KnowInit, KnowStep, PTL DEF Spec

\* Every change made to a row through the log's position is in the held copy,
\* for each row no event was patched onto over a gap: whatever order events,
\* pages and the pages of a catch-up come in, and whatever the position was
\* moved by (types.ts, "the log position through which every change is known").
THEOREM EveryChangeThroughPosition == Spec => []KnownThroughPosition
<1>1. KnowInv => KnownThroughPosition
  <2> SUFFICES ASSUME KnowInv, hasPage, NEW m \in Judged
               PROVE  Knows(rows[m], messages[m], seq)
    BY DEF KnownThroughPosition
  <2>0. TypeOK
    BY DEF KnowInv, SaidInv
  <2>1. m \in vouched /\ m \in Msgs /\ m >= floor /\ Exists(rows[m]) /\ Exists(messages[m])
    BY <2>0 DEF Judged, TypeOK
  <2>2. /\ Knows(rows[m], messages[m], rows[m].seq)
        /\ Through(messages[m], seq, rows[m].seq, rows[m].seq)
    BY <2>1 DEF KnowInv, VouchedKnow, Known, CopyKnows
  <2>3. \A p \in Parts : messages[m].part[p].at \in Nat
    BY <2>0, <2>1, PartTypes DEF TypeOK
  <2> QED
    BY <2>1, <2>2, <2>3 DEF Knows, Through, Between
<1> QED
  BY <1>1, KnowAlways, PTL

-----------------------------------------------------------------------------
(* What a quiet log has heard of.                                          *)

\* The log will have heard of write n: it was lost to a failed reload, it was
\* seen already, or its event, or a later one, is still to come.
Told(n) ==
    \/ lost > 0
    \/ n <= seenSeq
    \/ \E w \in reloading : w.seq = n
    \/ \E o \in outbox : n <= o.event.seq
    \/ \E i \in 1 .. Len(wire) : n <= wire[i].seq

\* The writes nothing under the live socket tells the log of any more.
Missed == {n \in 1 .. channelSeq : ~Told(n) /\ ~(hasPage /\ n <= seq)}

\* The live socket missed nothing past position from, if it is connection c.
Hears(missed, live, cn, c, from) == live /\ c = cn => \A n \in missed : n <= from

\* A position, or the top of a page or of an answer, read under a connection
\* reaches every write the log will not hear of under it.
Hearing ==
    /\ posConn <= conn /\ run.conn <= conn /\ \A l \in Loads : load[l].conn <= conn
    /\ hasPage => Hears(Missed, subscribed, conn, posConn, seq)
    /\ run.step \in {"counted", "answered"}
          => Hears(Missed, subscribed, conn, run.conn, run.top)
    /\ \A l \in Loads : load[l].step \in {"counted", "answered"}
          => Hears(Missed, subscribed, conn, load[l].conn, load[l].top)

\* No step makes the live socket miss a write.
Tuned ==
    /\ conn <= conn'
    /\ conn' = conn /\ subscribed' => subscribed /\ Missed' \subseteq Missed

LEMMA PositionGrows ==
    ASSUME TypeOK, [Next]_vars, ~Forget
    PROVE  seenSeq <= seenSeq' /\ (hasPage => hasPage' /\ seq <= seq')
<1>1. seq \in Nat /\ seenSeq \in Nat
  BY DEF TypeOK
<1>2. ASSUME NEW n \in Nat, Sees(n) PROVE seenSeq <= seenSeq' /\ hasPage' = hasPage /\ seq <= seq'
  BY <1>1, <1>2 DEF Sees, Higher
<1> QED
  BY <1>1, <1>2, PositionMoves DEF Position, Positioned

\* What tells of the write still tells of it after the step.
LEMMA TunedBy ==
    ASSUME TypeOK, TypeOK', [Next]_vars, ~Forget, conn <= conn',
           conn' = conn /\ subscribed' =>
              /\ subscribed /\ lost <= lost'
              /\ \A n \in 1 .. channelSeq' : n > channelSeq => Told(n)'
              /\ \A w \in reloading : w.seq <= channelSeq => Told(w.seq)'
              /\ \A o \in outbox, n \in Nat : n <= o.event.seq => Told(n)'
              /\ \A i \in 1 .. Len(wire), n \in Nat :
                    n <= wire[i].seq => Told(n)' \/ (hasPage /\ n <= seq)
    PROVE  Tuned
<1>1. /\ seenSeq \in Nat /\ seenSeq' \in Nat /\ lost \in Nat /\ lost' \in Nat /\ channelSeq \in Nat
      /\ seq \in Nat /\ seq' \in Nat /\ channelSeq' \in Nat
  BY DEF TypeOK
<1>2. ASSUME conn' = conn, subscribed', NEW n \in Missed' PROVE n \in Missed
  <2>1. n \in 1 .. channelSeq' /\ n \in Nat /\ ~Told(n)' /\ ~(hasPage' /\ n <= seq')
    BY <1>2 DEF Missed
  <2>2. n \in 1 .. channelSeq
    BY <1>1, <1>2, <2>1
  <2>3. ~(hasPage /\ n <= seq)
    BY <1>1, <2>1, PositionGrows
  <2>4. ~(lost > 0) /\ ~(n <= seenSeq)
    BY <1>1, <1>2, <2>1, PositionGrows DEF Told
  <2>5. ~\E w \in reloading : w.seq = n
    BY <1>2, <2>1, <2>2
  <2>6. (~\E o \in outbox : n <= o.event.seq) /\ (~\E i \in 1 .. Len(wire) : n <= wire[i].seq)
    BY <1>2, <2>1, <2>3
  <2>7. ~Told(n)
    BY <2>4, <2>5, <2>6 DEF Told
  <2> QED
    BY <2>2, <2>3, <2>7 DEF Missed
<1> QED
  BY <1>2 DEF Tuned

LEMMA CommitTuned ==
    ASSUME SaidInv, TypeOK', [Next]_vars, ~Forget,
           NEW m, NEW r, NEW told, NEW reloads, Commit(m, r, told, reloads), r.seq = NextSeq,
           reloads # {} \/ \E e \in told : e.seq = NextSeq
    PROVE  Tuned
<1>0. TypeOK /\ channelSeq \in Nat /\ lost \in Nat /\ conn \in Nat
  BY DEF SaidInv, TypeOK
<1>1. /\ channelSeq' = channelSeq + 1 /\ UNCHANGED <<lost, subscribed, conn, wire>>
      /\ reloading \subseteq reloading' /\ outbox \subseteq outbox'
      /\ \A e \in told : [of |-> r.seq, event |-> e] \in outbox'
      /\ \A k \in reloads : [msg |-> m, seq |-> r.seq, kind |-> k] \in reloading'
  BY <1>0 DEF Commit, NextSeq
<1>2. ASSUME NEW n \in Nat, n = channelSeq' PROVE Told(n)'
  <2>1. CASE reloads # {}
    <3>1. PICK k \in reloads : TRUE
      BY <2>1
    <3>2. \E w \in reloading' : w.seq = n
      BY <1>1, <1>2, <3>1 DEF NextSeq
    <3> QED
      BY <3>2 DEF Told
  <2>2. CASE \E e \in told : e.seq = NextSeq
    <3>1. PICK e \in told : e.seq = NextSeq
      BY <2>2
    <3>2. \E o \in outbox' : n = o.event.seq
      BY <1>1, <1>2, <3>1 DEF NextSeq
    <3>3. \E o \in outbox' : n <= o.event.seq
      BY <1>2, <3>2
    <3> QED
      BY <3>3 DEF Told
  <2> QED
    BY <2>1, <2>2
<1>3. \A n \in 1 .. channelSeq' : n > channelSeq => Told(n)'
  BY <1>0, <1>1, <1>2
<1>4. \A w \in reloading : Told(w.seq)'
  BY <1>1 DEF Told
<1>5. \A o \in outbox, n \in Nat : n <= o.event.seq => Told(n)'
  BY <1>1 DEF Told
<1>6. \A i \in 1 .. Len(wire), n \in Nat : n <= wire[i].seq => Told(n)'
  BY <1>1 DEF Told
<1> QED
  BY <1>0, <1>1, <1>3, <1>4, <1>5, <1>6, TunedBy

LEMMA ServerTuned ==
    ASSUME SaidInv, TypeOK', [Next]_vars, ~Forget, Server
    PROVE  Tuned
<1>0. TypeOK /\ channelSeq \in Nat /\ lost \in Nat /\ conn \in Nat /\ NextSeq \in Nat
  <2>1. TypeOK /\ channelSeq \in Nat /\ lost \in Nat /\ conn \in Nat
    BY DEF SaidInv, TypeOK
  <2> QED
    BY <2>1 DEF NextSeq
<1>1. CASE SendMessage
  <2>1. Fresh(NextSeq).seq = NextSeq /\ RowEvent(made + 1, Fresh(NextSeq)).seq = NextSeq
    BY <1>0, FreshType DEF RowEvent
  <2> QED
    BY <1>1, <2>1, CommitTuned DEF SendMessage
<1>2. ASSUME NEW m \in Msgs, EditMessage(m) \/ ToggleReaction(m) PROVE Tuned
  <2>1. \A p, v : WithPart(messages[m], NextSeq, p, v).seq = NextSeq
    BY DEF WithPart
  <2>2. {"edit"} # {} /\ {"react"} # {}
    OBVIOUS
  <2>3. PICK p, v, k : Commit(m, WithPart(messages[m], NextSeq, p, v), {}, {k})
    BY <1>2 DEF EditMessage, ToggleReaction
  <2>4. {k} # {}
    OBVIOUS
  <2> QED
    BY <2>1, <2>3, <2>4, CommitTuned
<1>3. ASSUME NEW m \in Msgs, PinMessage(m) \/ UnpinMessage(m) PROVE Tuned
  <2>1. \A p, v : WithPart(messages[m], NextSeq, p, v).seq = NextSeq
    BY DEF WithPart
  <2>2. PICK p, v, is : Commit(m, WithPart(messages[m], NextSeq, p, v), {PinEvent(m, is)}, {})
    BY <1>3 DEF PinMessage, UnpinMessage
  <2>3. \E e \in {PinEvent(m, is)} : e.seq = NextSeq
    BY DEF PinEvent, PatchEvent
  <2> QED
    BY <2>1, <2>2, <2>3, CommitTuned
<1>4. ASSUME NEW m \in Msgs, DeleteMessage(m) PROVE Tuned
  <2>1. PICK r : Commit(m, r, {DeletedEvent(m, NextSeq)}, {}) /\ r.seq = NextSeq
    BY <1>4 DEF DeleteMessage, WithPart
  <2>2. \E e \in {DeletedEvent(m, NextSeq)} : e.seq = NextSeq
    BY DEF DeletedEvent
  <2> QED
    BY <2>1, <2>2, CommitTuned
<1>5. CASE MoveCutoff \/ ListExpired \/ SweepChannel
  <2>1. UNCHANGED <<delivery, channelSeq>>
    BY <1>5 DEF MoveCutoff, ListExpired, SweepChannel
  <2>2. UNCHANGED <<channelSeq, lost, conn, subscribed, reloading, outbox, wire>>
    BY <2>1 DEF delivery
  <2>3. \A w \in reloading : Told(w.seq)'
    BY <2>2 DEF Told
  <2>4. \A o \in outbox, n \in Nat : n <= o.event.seq => Told(n)'
    BY <2>2 DEF Told
  <2>5. \A i \in 1 .. Len(wire), n \in Nat : n <= wire[i].seq => Told(n)'
    BY <2>2 DEF Told
  <2> QED
    BY <1>0, <2>2, <2>3, <2>4, <2>5, TunedBy
<1> QED
  BY <1>1, <1>2, <1>3, <1>4, <1>5 DEF Server

\* What reloads a write's row tells of the write, by that row's seq or its own.
LEMMA ReloadedTells ==
    ASSUME SaidInv, NEW w \in reloading, Exists(messages[w.msg])
    PROVE  w.seq <= Reloaded(w).seq
<1>1. w.msg \in Msgs /\ w.seq \in Nat
  BY DEF SaidInv, TypeOK, Reload
<1>2. w.seq <= messages[w.msg].seq
  <2>1. Says(w.msg, w.seq, "text") \in Said
    BY SaidParts
  <2> QED
    BY <2>1 DEF SaidInv, SaidFits, Says
<1> QED
  BY <1>1, <1>2 DEF Reloaded, RowEvent, PatchEvent

LEMMA StepTuned ==
    ASSUME SaidInv, TypeOK', [Next]_vars, ~Forget
    PROVE  Tuned
<1> USE DEF Outside, server, delivery, log, history
<1>0. /\ TypeOK /\ channelSeq \in Nat /\ lost \in Nat /\ conn \in Nat /\ seq \in Nat /\ seenSeq \in Nat
      /\ wire \in Seq(Event)
      /\ \A o \in outbox : o.event \in Event
      /\ \A w \in reloading : w.seq \in Nat
  BY DEF SaidInv, TypeOK, Outgoing, Reload
<1>1. CASE Server
  BY <1>1, ServerTuned
<1>2. ASSUME UNCHANGED <<channelSeq, conn, subscribed>>, lost <= lost',
             \A w \in reloading, n \in Nat : n = w.seq => Told(n)',
             \A o \in outbox, n \in Nat : n <= o.event.seq => Told(n)',
             \A i \in 1 .. Len(wire), n \in Nat :
                 n <= wire[i].seq => Told(n)' \/ (hasPage /\ n <= seq)
      PROVE  Tuned
  <2>1. \A w \in reloading : w.seq <= channelSeq => Told(w.seq)'
    BY <1>0, <1>2
  <2> QED
    BY <1>0, <1>2, <2>1, TunedBy
<1>3. ASSUME NEW w \in reloading, ReloadRow(w) PROVE Tuned
  <2>1. /\ UNCHANGED <<channelSeq, conn, subscribed, lost, wire>>
        /\ reloading' = reloading \ {w} /\ Exists(messages[w.msg])
        /\ outbox' = outbox \cup {[of |-> w.seq, event |-> Reloaded(w)]}
    BY <1>3 DEF ReloadRow
  <2>2. \A n \in Nat : n = w.seq => Told(n)'
    <3>1. w.seq <= Reloaded(w).seq
      BY <2>1, ReloadedTells
    <3>2. \E o \in outbox' : w.seq <= o.event.seq
      <4> DEFINE o == [of |-> w.seq, event |-> Reloaded(w)]
      <4>1. o \in outbox' /\ o.event = Reloaded(w)
        BY <2>1
      <4> HIDE DEF o
      <4> QED
        BY <3>1, <4>1
    <3> QED
      BY <3>2 DEF Told
  <2>3. \A u \in reloading, n \in Nat : n = u.seq => Told(n)'
    BY <2>1, <2>2 DEF Told
  <2>4. \A o \in outbox, n \in Nat : n <= o.event.seq => Told(n)'
    BY <2>1 DEF Told
  <2>5. \A i \in 1 .. Len(wire), n \in Nat : n <= wire[i].seq => Told(n)'
    BY <2>1 DEF Told
  <2> QED
    BY <1>0, <1>2, <2>1, <2>3, <2>4, <2>5
<1>4. ASSUME NEW w \in reloading, LoseEvent(w) PROVE Tuned
  <2>1. UNCHANGED <<channelSeq, conn, subscribed>> /\ lost' = lost + 1
    BY <1>4 DEF LoseEvent
  <2>2. lost' > 0
    BY <1>0, <2>1
  <2>3. \A n : Told(n)'
    BY <2>2 DEF Told
  <2> QED
    BY <1>0, <1>2, <2>1, <2>3
<1>5. ASSUME NEW o \in outbox, Publish(o) PROVE Tuned
  <2>1. UNCHANGED <<channelSeq, conn, lost, reloading, hasPage, seq>> /\ outbox' = outbox \ {o}
    BY <1>5 DEF Publish
  <2>2. CASE subscribed /\ Len(wire) < Buffer
    <3>1. wire' = Append(wire, o.event) /\ subscribed' = subscribed
      BY <1>5, <2>2 DEF Publish
    <3>2. /\ Len(wire) + 1 \in 1 .. Len(wire') /\ wire'[Len(wire) + 1] = o.event
          /\ \A i \in 1 .. Len(wire) : i \in 1 .. Len(wire') /\ wire'[i] = wire[i]
      BY <1>0, <3>1
    <3>3. \A w \in reloading, n \in Nat : n = w.seq => Told(n)'
      BY <2>1 DEF Told
    <3>4. \A n \in Nat : n <= o.event.seq => Told(n)'
      BY <3>2 DEF Told
    <3>5. \A u \in outbox, n \in Nat : n <= u.event.seq => Told(n)'
      BY <2>1, <3>4 DEF Told
    <3>6. \A i \in 1 .. Len(wire), n \in Nat : n <= wire[i].seq => Told(n)'
      BY <3>2 DEF Told
    <3> QED
      BY <1>0, <1>2, <2>1, <3>1, <3>3, <3>5, <3>6
  <2>3. CASE ~(subscribed /\ Len(wire) < Buffer)
    BY <1>0, <1>5, <2>1, <2>3 DEF Publish, Tuned
  <2> QED
    BY <2>2, <2>3
<1>6. CASE Connect \/ Disconnect
  BY <1>0, <1>6 DEF Connect, Disconnect, Tuned
<1>7. CASE ReceiveEvent
  <2>1. /\ UNCHANGED <<channelSeq, conn, subscribed, lost, reloading, outbox>>
        /\ wire # <<>> /\ wire' = Tail(wire)
    BY <1>7 DEF ReceiveEvent
  <2>2. \A w \in reloading, n \in Nat : n = w.seq => Told(n)'
    BY <2>1 DEF Told
  <2>3. \A o \in outbox, n \in Nat : n <= o.event.seq => Told(n)'
    BY <2>1 DEF Told
  <2>4. ASSUME NEW n \in Nat, n <= Head(wire).seq PROVE Told(n)' \/ (hasPage /\ n <= seq)
    <3>0. Head(wire).seq \in Nat
      <4>1. Head(wire) \in Event
        BY <1>0, <2>1
      <4> QED
        BY <4>1 DEF Event
    <3>1. CASE hasPage /\ Head(wire).seq <= seq
      BY <1>0, <2>4, <3>0, <3>1
    <3>2. CASE ~(hasPage /\ Head(wire).seq <= seq)
      <4>1. seenSeq' = Higher(seenSeq, Head(wire).seq)
        BY <1>7, <3>2 DEF ReceiveEvent, ApplyEvent
      <4>2. n <= seenSeq'
        BY <1>0, <2>4, <3>0, <4>1 DEF Higher
      <4> QED
        BY <4>2 DEF Told
    <3> QED
      BY <3>1, <3>2
  <2>5. ASSUME NEW i \in 1 .. Len(wire), NEW n \in Nat, n <= wire[i].seq
        PROVE  Told(n)' \/ (hasPage /\ n <= seq)
    <3>1. CASE i = 1
      BY <1>0, <2>1, <2>4, <2>5, <3>1
    <3>2. CASE i # 1
      <4>1. i - 1 \in 1 .. Len(wire') /\ wire'[i - 1] = wire[i]
        BY <1>0, <2>1, <3>2
      <4> QED
        BY <2>5, <4>1 DEF Told
    <3> QED
      BY <3>1, <3>2
  <2> QED
    BY <1>0, <1>2, <2>1, <2>2, <2>3, <2>5
<1>8. ASSUME UNCHANGED <<channelSeq, lost, conn, subscribed, reloading, outbox, wire>> PROVE Tuned
  <2>1. \A w \in reloading, n \in Nat : n = w.seq => Told(n)'
    BY <1>8 DEF Told
  <2>2. \A o \in outbox, n \in Nat : n <= o.event.seq => Told(n)'
    BY <1>8 DEF Told
  <2>3. \A i \in 1 .. Len(wire), n \in Nat : n <= wire[i].seq => Told(n)'
    BY <1>8 DEF Told
  <2> QED
    BY <1>0, <1>2, <1>8, <2>1, <2>2, <2>3
<1>9. CASE ReceiveReady
  BY <1>8, <1>9 DEF ReceiveReady
<1>10. ASSUME NEW l \in Loads, Page(l) PROVE Tuned
  BY <1>8, <1>10 DEF Page, AskPage, ListPage, OpenFirst, TakePage, DropPage, FailPage
<1>11. CASE CatchUp
  BY <1>8, <1>11 DEF CatchUp, CountChanges, ListChanges, MergeChanges, CaughtUp, FailChanges,
                     RefuseChanges, RetryChanges
<1>12. CASE UNCHANGED vars
  BY <1>8, <1>12 DEF vars
<1> QED
  BY <1>1, <1>3, <1>4, <1>5, <1>6, <1>7, <1>9, <1>10, <1>11, <1>12 DEF Next, Delivery

LEMMA HearsOn ==
    ASSUME Tuned, NEW c, NEW from, c <= conn, Hears(Missed, subscribed, conn, c, from),
           conn \in Nat, conn' \in Nat, c \in Nat
    PROVE  Hears(Missed', subscribed', conn', c, from)
BY DEF Tuned, Hears

LEMMA HearsFurther ==
    ASSUME TypeOK', NEW c, NEW low \in Nat, NEW high \in Nat, low <= high,
           Hears(Missed', subscribed', conn', c, low)
    PROVE  Hears(Missed', subscribed', conn', c, high)
<1>1. \A n \in Missed' : n \in Nat
  BY DEF Missed, TypeOK
<1> QED
  BY <1>1 DEF Hears

\* A request counted now reaches every write there is.
LEMMA CountedHears ==
    ASSUME TypeOK, TypeOK', UNCHANGED <<channelSeq, conn>>, NEW q \in Request
    PROVE  LET r == Counted(q)
           IN r.conn <= conn /\ Hears(Missed', subscribed', conn', r.conn, r.top)
<1>1. channelSeq \in Nat /\ conn \in Nat
  BY DEF TypeOK
<1>2. \A n \in Missed' : n <= channelSeq
  BY <1>1 DEF Missed
<1>3. Counted(q).top = channelSeq /\ Counted(q).conn \in {0, conn}
  BY DEF Counted, Request
<1> QED
  BY <1>1, <1>2, <1>3 DEF Hears

CountedSteps == {"counted", "answered"}
Attends(missed, live, cn, q) ==
    /\ q.conn <= cn
    /\ q.step \in CountedSteps => Hears(missed, live, cn, q.conn, q.top)

LEMMA HearingParts ==
    Hearing <=>
        /\ posConn <= conn
        /\ hasPage => Hears(Missed, subscribed, conn, posConn, seq)
        /\ Attends(Missed, subscribed, conn, run)
        /\ \A l \in Loads : Attends(Missed, subscribed, conn, load[l])
BY DEF Hearing, Attends, CountedSteps

\* A request that is not counted yet has nothing to have missed.
LEMMA Unheard ==
    ASSUME NEW missed, NEW live, NEW cn \in Nat, NEW q,
           \/ q = Idle \/ (\E n : q = Asked(n))
           \/ q = [Idle EXCEPT !.step = "backoff"]
    PROVE  Attends(missed, live, cn, q)
<1>1. q.conn = 0 /\ q.step \in {"idle", "asked", "backoff"}
  <2>1. CASE q = Idle \/ q = [Idle EXCEPT !.step = "backoff"]
    BY <2>1 DEF Idle
  <2>2. ASSUME NEW n, q = Asked(n) PROVE q.conn = 0 /\ q.step = "asked"
    BY <2>2 DEF Idle, Asked
  <2> QED
    BY <2>1, <2>2
<1> QED
  BY <1>1 DEF Attends, CountedSteps

LEMMA HearingStep ==
    ASSUME SaidInv, TypeOK', Hearing, [Next]_vars
    PROVE  Hearing'
<1> USE DEF Outside, server, delivery, log, history
<1> DEFINE Good(q) == Attends(Missed', subscribed', conn', q)
           PageGood == \A l \in Loads : Good(load'[l])
           PosGood == posConn' <= conn' /\ (hasPage' => Hears(Missed', subscribed', conn', posConn', seq'))
<1>0. /\ TypeOK /\ conn \in Nat /\ conn' \in Nat /\ posConn \in Nat /\ seq \in Nat /\ seq' \in Nat
      /\ run \in Request /\ run.conn \in Nat /\ load \in [Loads -> Request]
      /\ \A l \in Loads : load[l].conn \in Nat
  BY DEF SaidInv, TypeOK, Request
<1>q. ASSUME PosGood, Good(run'), PageGood PROVE Hearing'
  BY <1>q DEF Hearing, Attends, CountedSteps
<1>i. ASSUME NEW q, q = Idle \/ (\E n : q = Asked(n)) \/ q = [Idle EXCEPT !.step = "backoff"]
      PROVE  Good(q)
  BY <1>0, <1>i, Unheard
<1>1. CASE Forget
  <2>1. /\ posConn' = 0 /\ hasPage' = FALSE /\ run' = Idle /\ \A l \in Loads : load'[l] = Idle
    BY <1>1 DEF Forget
  <2> QED
    BY <1>0, <1>i, <1>q, <2>1
<1>2. CASE ~Forget
  <2>1. Tuned /\ conn <= conn'
    BY <1>2, StepTuned DEF Tuned
  <2>2. Good(run) /\ \A l \in Loads : Good(load[l])
    BY <1>0, <2>1, HearsOn DEF Hearing, Attends, CountedSteps
  <2>3. hasPage => hasPage' /\ seq <= seq'
    BY <1>0, <1>2, PositionGrows
  <2>p. ASSUME posConn' = posConn, hasPage' = hasPage PROVE PosGood
    <3>1. posConn' <= conn'
      BY <1>0, <2>1, <2>p DEF Hearing
    <3>2. ASSUME hasPage PROVE Hears(Missed', subscribed', conn', posConn, seq')
      <4>1. Hears(Missed', subscribed', conn', posConn, seq)
        BY <1>0, <2>1, <3>2, HearsOn DEF Hearing
      <4> QED
        BY <1>0, <2>3, <3>2, <4>1, HearsFurther
    <3> QED
      BY <2>p, <3>1, <3>2
  <2>s. ASSUME NEW owed, NEW paged, NEW from, StartsRun(owed, paged, from) PROVE Good(run')
    BY <1>i, <2>2, <2>s, StartedRun
  <2>4. CASE UNCHANGED <<posConn, hasPage, run, load>>
    BY <1>q, <2>2, <2>4, <2>p
  <2>5. CASE ReceiveReady \/ ReceiveEvent
    <3>1. UNCHANGED <<posConn, hasPage, load>> /\ Good(run')
      BY <2>5, <2>s DEF ReceiveReady, ReceiveEvent
    <3> QED
      BY <1>q, <2>2, <2>p, <3>1
  <2>6. ASSUME NEW l \in Loads, Page(l) PROVE Hearing'
    <3> DEFINE q == load[l]
    <3>g. ASSUME NEW r, load' = [load EXCEPT ![l] = r], Good(r) PROVE PageGood
      BY <1>0, <2>2, <3>g
    <3>1. CASE AskPage(l)
      <4> DEFINE r == Counted([Idle EXCEPT !.early = ~hasPage])
      <4>1. [Idle EXCEPT !.early = ~hasPage] \in Request
        BY <1>0, IdleType DEF Request, TypeOK
      <4>2. Good(r)
        BY <1>0, <3>1, <4>1, CountedHears DEF AskPage, Attends
      <4>3. UNCHANGED <<posConn, hasPage, run>> /\ load' = [load EXCEPT ![l] = r]
        BY <3>1 DEF AskPage
      <4> QED
        BY <1>q, <2>2, <2>p, <3>g, <4>2, <4>3
    <3>2. CASE ListPage(l)
      <4>1. PICK ms : load' = [load EXCEPT ![l] = Listed(load[l], ms, FALSE)]
        BY <3>2 DEF ListPage
      <4> DEFINE r == Listed(load[l], ms, FALSE)
      <4>2. r.conn = load[l].conn /\ r.top = load[l].top
        BY <1>0 DEF Listed, Request
      <4>3. load[l].step \in CountedSteps
        BY <3>2 DEF ListPage, CountedSteps
      <4>4. Good(r)
        BY <2>2, <4>2, <4>3 DEF Attends
      <4>5. UNCHANGED <<posConn, hasPage, run>>
        BY <3>2 DEF ListPage
      <4> QED
        BY <1>q, <2>2, <2>p, <3>g, <4>1, <4>4, <4>5
    <3>3. CASE OpenFirst(l)
      <4>1. /\ load' = [load EXCEPT ![l] = Idle] /\ posConn' = q.conn /\ seq' = q.top
            /\ q.step \in CountedSteps
        BY <3>3 DEF OpenFirst, Positioned, CountedSteps
      <4>2. Good(run')
        BY <3>3, <2>s DEF OpenFirst
      <4>3. PosGood
        BY <2>2, <4>1 DEF Attends
      <4> QED
        BY <1>i, <1>q, <3>g, <4>1, <4>2, <4>3
    <3>4. CASE TakePage(l) \/ DropPage(l)
      <4>1. load' = [load EXCEPT ![l] = Idle] /\ UNCHANGED <<posConn, hasPage>>
        BY <3>4 DEF TakePage, DropPage
      <4>2. Good(run')
        BY <3>4, <2>s DEF TakePage, DropPage
      <4> QED
        BY <1>i, <1>q, <2>p, <3>g, <4>1, <4>2
    <3>5. CASE FailPage(l)
      <4>1. load' = [load EXCEPT ![l] = Idle] /\ UNCHANGED <<posConn, hasPage, run>>
        BY <3>5 DEF FailPage
      <4> QED
        BY <1>i, <1>q, <2>2, <2>p, <3>g, <4>1
    <3> QED
      BY <2>6, <3>1, <3>2, <3>3, <3>4, <3>5 DEF Page
  <2>7. CASE CatchUp
    <3>1. load' = load /\ hasPage' = hasPage
      BY <2>7 DEF CatchUp, CountChanges, ListChanges, MergeChanges, CaughtUp, FailChanges,
                  RefuseChanges, RetryChanges
    <3>2. CASE CountChanges
      <4>1. Good(run') /\ posConn' = posConn
        BY <1>0, <3>2, CountedHears DEF CountChanges, Attends
      <4> QED
        BY <1>q, <2>2, <2>p, <3>1, <4>1
    <3>3. CASE ListChanges
      <4>1. /\ run'.conn = run.conn /\ run'.top = run.top /\ run.step \in CountedSteps
            /\ posConn' = posConn
        BY <1>0, <3>3 DEF ListChanges, Listed, Request, CountedSteps
      <4>2. Good(run')
        BY <2>2, <4>1 DEF Attends
      <4> QED
        BY <1>q, <2>2, <2>p, <3>1, <4>1, <4>2
    <3>4. CASE MergeChanges \/ FailChanges \/ RefuseChanges \/ RetryChanges
      <4>1. /\ run' = Idle \/ (\E n : run' = Asked(n)) \/ run' = [Idle EXCEPT !.step = "backoff"]
            /\ posConn' = posConn
        BY <3>4 DEF MergeChanges, FailChanges, RefuseChanges, RetryChanges
      <4> QED
        BY <1>i, <1>q, <2>2, <2>p, <3>1, <4>1
    <3>5. CASE CaughtUp
      <4>1. /\ run' = Idle \/ (\E n : run' = Asked(n))
            /\ posConn' = run.conn /\ run.step \in CountedSteps
        BY <3>5 DEF CaughtUp, CountedSteps
      <4>2. run.top \in Nat /\ run.top <= seq'
        BY <1>0, <3>5, HighestType DEF CaughtUp, Positioned, Request
      <4>3. PosGood
        BY <1>0, <2>2, <4>1, <4>2, HearsFurther DEF Attends
      <4> QED
        BY <1>i, <1>q, <2>2, <3>1, <4>1, <4>3
    <3> QED
      BY <2>7, <3>2, <3>3, <3>4, <3>5 DEF CatchUp
  <2>8. CASE Server \/ UNCHANGED vars
    <3>1. UNCHANGED <<posConn, hasPage, run, load>>
      BY <2>8 DEF Server, SendMessage, EditMessage, ToggleReaction, PinMessage, UnpinMessage,
                  DeleteMessage, MoveCutoff, ListExpired, SweepChannel, Commit, vars
    <3> QED
      BY <2>4, <3>1
  <2>9. CASE Delivery
    <3>1. CASE ReceiveReady \/ ReceiveEvent
      BY <2>5, <3>1
    <3>2. CASE ~(ReceiveReady \/ ReceiveEvent)
      <4>1. UNCHANGED <<posConn, hasPage, run, load>>
        BY <2>9, <3>2 DEF Delivery, ReloadRow, LoseEvent, Publish, Connect, Disconnect
      <4> QED
        BY <2>4, <4>1
    <3> QED
      BY <3>1, <3>2
  <2> QED
    BY <1>2, <2>6, <2>7, <2>8, <2>9 DEF Next
<1> QED
  BY <1>1, <1>2

LEMMA HearingAlways == Spec => []Hearing
<1>1. Init => Hearing
  <2> SUFFICES ASSUME Init PROVE Hearing
    OBVIOUS
  <2>1. /\ posConn = 0 /\ conn = 0 /\ hasPage = FALSE /\ run = Idle
        /\ \A l \in Loads : load[l] = Idle
    BY DEF Init
  <2>2. Attends(Missed, subscribed, conn, Idle)
    BY <2>1, Unheard
  <2> QED
    BY <2>1, <2>2, HearingParts
<1>2. SaidInv' => TypeOK'
  BY DEF SaidInv
<1> QED
  BY <1>1, <1>2, SaidAlways, HearingStep, PTL DEF Spec

\* A settled log whose position was set by a load read under the connection
\* still up is the server's: the position is the channel's and every row the
\* log can be held to know is the server's row (catchUp.ts, position.ts).
THEOREM QuietLogIsCurrent == Spec => []QuietMeansCurrent
<1>1. KnowInv /\ Hearing /\ GapIsOwed /\ KnownThroughPosition => QuietMeansCurrent
  <2> SUFFICES ASSUME KnowInv, Hearing, GapIsOwed, KnownThroughPosition, Settled, posConn = conn
               PROVE  /\ seq = channelSeq
                      /\ \A m \in Judged : Knows(rows[m], messages[m], channelSeq)
    BY DEF QuietMeansCurrent
  <2>1. seq \in Nat /\ seenSeq \in Nat /\ channelSeq \in Nat /\ seq <= channelSeq
    BY DEF KnowInv, SaidInv, TypeOK, PositionsFit
  <2>2. seenSeq <= seq
    BY <2>1 DEF GapIsOwed, Settled
  <2>3. ASSUME NEW n \in Nat, n > seq PROVE ~Told(n) /\ ~(n <= seq)
    BY <2>1, <2>2, <2>3 DEF Told, Settled
  <2>4. \A n \in Missed : n <= seq
    BY DEF Hearing, Hears, Settled
  <2>5. seq = channelSeq
    <3>1. ASSUME seq < channelSeq PROVE FALSE
      <4>1. channelSeq \in Missed
        BY <2>1, <2>3, <3>1 DEF Missed
      <4> QED
        BY <2>1, <2>4, <3>1, <4>1
    <3> QED
      BY <2>1, <3>1
  <2> QED
    BY <2>5 DEF KnownThroughPosition, Settled
<1> QED
  BY <1>1, KnowAlways, HearingAlways, GapAlwaysOwed, EveryChangeThroughPosition, PTL
=============================================================================
