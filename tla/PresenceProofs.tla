--------------------------- MODULE PresenceProofs ---------------------------
(***************************************************************************)
(* Proofs about Presence, for every set of spaces and connections, with a  *)
(* grace or without: its types, that every space was last told what the    *)
(* table says, that nobody is told offline where they are counted, that a  *)
(* grace timer is armed exactly while one is needed and takes the person   *)
(* offline only if nobody came back since, and that the person is counted  *)
(* where they are a member once every connection has read its events.      *)
(***************************************************************************)
EXTENDS Presence, FiniteSetTheorems, TLAPS

(***************************************************************************)
(* Types, and what the entry counts                                        *)
(***************************************************************************)
Entry == [id : Nat, present : BOOLEAN, conns : Nat, mobileConns : Nat, mobile : BOOLEAN,
          spaces : SUBSET Spaces, settling : Nat]
Event == [joined : BOOLEAN, space : Spaces]
News == [joined : BOOLEAN, space : Spaces, at : Nat]
Conn == [phase : {"new", "listed", "subscribed", "connecting", "open", "closed"},
         spaces : SUBSET Spaces, inbox : Seq(Event)]
Timer == [id : Nat, generation : Nat, fired : BOOLEAN, since : Nat]
Holding == [op : {"free", "connect", "publish"}, conn : SUBSET Conns, added : SUBSET Spaces,
            all : BOOLEAN, say : SUBSET Spaces, online : BOOLEAN]
Telling == [online : BOOLEAN, mobile : BOOLEAN]

Live == {c \in Conns : conn[c].phase \in {"connecting", "open"}}
EverLive == {c \in Conns : conn[c].phase \in {"connecting", "open", "closed"}}

Typed ==
    /\ made \subseteq Spaces /\ member \subseteq made /\ news \subseteq News
    /\ conn \in [Conns -> Conn] /\ entry \in Entry
    /\ \A t \in timers : t \in Timer
    /\ hold \in Holding /\ told \in [Spaces -> Telling]
    /\ shown \in BOOLEAN /\ silent \subseteq Spaces /\ blurred \subseteq Spaces
    /\ moves \in 0 .. MaxMoves

\* The entry counts the connections there are, and one that is not there
\* counts none.
Counted ==
    /\ entry.conns = Cardinality(Live)
    /\ entry.mobileConns = Cardinality(Live \cap MobileConns)

\* A connection that holds the lock is being connected.
HeldConnects == \A c \in hold.conn : conn[c].phase = "connecting"

Base == Typed /\ Counted /\ HeldConnects

LEMMA LiveFinite ==
    /\ IsFiniteSet(Live) /\ IsFiniteSet(Live \cap MobileConns) /\ IsFiniteSet(EverLive)
    /\ Cardinality(Live) \in Nat /\ Cardinality(Live \cap MobileConns) \in Nat
    /\ Ever = Cardinality(EverLive) /\ Ever \in Nat
<1>1. Live \subseteq Conns /\ EverLive \subseteq Conns
  BY DEF Live, EverLive
<1>2. IsFiniteSet(Live) /\ IsFiniteSet(EverLive) /\ IsFiniteSet(Live \cap MobileConns)
  BY <1>1, PresenceAssumption, FS_Subset
<1>3. Ever = Cardinality(EverLive)
  BY DEF Ever, EverLive
<1> QED
  BY <1>2, <1>3, FS_CardinalityType

\* What the code makes of an entry is an entry.
LEMMA EntryTyped ==
  ASSUME NEW e \in Entry
  PROVE  /\ Stopped(e) \in Entry /\ Armed(e) \in Entry
         /\ \A S \in SUBSET Spaces : [e EXCEPT !.spaces = S] \in Entry
         /\ \A b \in BOOLEAN : [e EXCEPT !.mobile = b] \in Entry
BY DEF Entry, Stopped, Armed

LEMMA NoEntryTyped == \A i \in Nat : NoEntry(i) \in Entry
BY DEF NoEntry, Entry

LEMMA FreeTyped ==
    /\ Free \in Holding
    /\ \A S \in SUBSET Spaces, b \in BOOLEAN : Publishing(S, b) \in Holding
BY DEF Free, Holding, Publishing, Held

LEMMA InitBase == Init => Base
<1> SUFFICES ASSUME Init PROVE Base
  OBVIOUS
<1>1. entry \in Entry /\ hold \in Holding
  BY NoEntryTyped, FreeTyped DEF Init
<1>2. conn \in [Conns -> Conn] /\ told \in [Spaces -> Telling]
  BY DEF Init, Conn, Telling
<1>3. Live = {} /\ Live \cap MobileConns = {}
  BY DEF Init, Live
<1>4. Counted
  BY <1>3, FS_EmptySet DEF Init, Counted, NoEntry
<1> QED
  <2>1. /\ made \subseteq Spaces /\ member \subseteq made /\ news \subseteq News /\ timers = {}
        /\ shown \in BOOLEAN /\ silent \subseteq Spaces /\ blurred \subseteq Spaces
    BY Zenon DEF Init
  <2>3. moves \in 0 .. MaxMoves
    <3>1. moves = MaxMoves
      BY Zenon DEF Init
    <3> QED
      BY <3>1, PresenceAssumption
  <2>2. HeldConnects
    BY DEF Init, Free, HeldConnects
  <2> QED
    BY <1>1, <1>2, <1>4, <2>1, <2>2, <2>3 DEF Base, Typed

(***************************************************************************)
(* Steps that leave the count and the timers alone                         *)
(***************************************************************************)

\* They may take the person out of a space, or put them in one.
Quiet ==
    /\ Live' = Live /\ EverLive' = EverLive /\ timers' = timers
    /\ \E S \in SUBSET Spaces : entry' = [entry EXCEPT !.spaces = S]

Saying == (\E s \in Spaces : Announce(s)) \/ TellConnected \/ DndChanged

Hearing ==
    \E c \in Conns : ListSpaces(c) \/ Subscribe(c) \/ AddTopic(c) \/ HearJoined(c) \/ HearRemoved(c)

Committing == \E s \in Spaces : Join(s) \/ Leave(s) \/ CreateSpace(s)

Moving == Committing \/ \E n \in news : Publish(n)

LEMMA Kinds ==
  Next => \/ Saying \/ Hearing \/ Moving
          \/ \E t \in timers : Fire(t) \/ Settle(t)
          \/ \E c \in Conns : Connect(c) \/ \E now \in BOOLEAN : Disconnect(c, now)
BY DEF Next, Saying, Hearing, Moving, Committing

\* Phases of a connection that is not counted, or that goes on being.
LEMMA PhaseQuiet ==
  ASSUME Typed, NEW f, f \in [Conns -> Conn], conn' = f,
         \A c \in Conns : \/ f[c].phase = conn[c].phase
                          \/ conn[c].phase \in {"new", "listed"} /\ f[c].phase \in {"listed", "subscribed"}
                          \/ conn[c].phase \in {"connecting", "open"} /\ f[c].phase = "open"
  PROVE  Live' = Live /\ EverLive' = EverLive
BY DEF Live, EverLive

\* One connection's row is replaced.
LEMMA RowSet ==
  ASSUME Typed, NEW c \in Conns, NEW x \in Conn, conn' = [conn EXCEPT ![c] = x]
  PROVE  conn' \in [Conns -> Conn] /\ \A d \in Conns : conn'[d] = IF d = c THEN x ELSE conn[d]
BY DEF Typed

LEMMA PhaseSet ==
  ASSUME NEW x \in Conn, NEW p \in {"listed", "subscribed", "connecting", "open", "closed"}
  PROVE  /\ [x EXCEPT !.phase = p] \in Conn /\ [x EXCEPT !.phase = p].phase = p
BY DEF Conn

LEMMA SameEntrySpaces == ASSUME Typed PROVE entry = [entry EXCEPT !.spaces = entry.spaces] /\ entry.spaces \in SUBSET Spaces
BY DEF Typed, Entry

LEMMA SayingTyped ==
  ASSUME Base, Saying
  PROVE  Typed' /\ HeldConnects' /\ Quiet
<1> USE DEF Base
<1>1. CASE \E s \in Spaces : Announce(s)
  <2> PICK s \in Spaces : Announce(s)
    BY <1>1
  <2>1. /\ hold.online \in BOOLEAN /\ entry.mobile \in BOOLEAN /\ hold.say \ {s} \in SUBSET Spaces
        /\ (hold.online /\ entry.mobile) \in BOOLEAN
    BY DEF Typed, Holding, Entry
  <2>2. [online |-> hold.online, mobile |-> hold.online /\ entry.mobile] \in Telling
    BY <2>1 DEF Telling
  <2>3. told' \in [Spaces -> Telling]
    BY <2>2 DEF Announce, Typed
  <2>4. hold' \in Holding /\ (hold'.conn = {} \/ hold'.conn = hold.conn)
    <3>1. [hold EXCEPT !.say = hold.say \ {s}] \in Holding /\ [hold EXCEPT !.say = hold.say \ {s}].conn = hold.conn
      BY <2>1 DEF Typed, Holding
    <3>2. Publishing(hold.say \ {s}, hold.online) \in Holding /\ Publishing(hold.say \ {s}, hold.online).conn = {}
      BY <2>1, FreeTyped DEF Publishing, Held, Free
    <3> QED
      BY <3>1, <3>2 DEF Announce
  <2>5. UNCHANGED <<entry, timers, conn, blurred, made, member, news, moves>> /\ shown' \in BOOLEAN
    BY <2>1 DEF Announce, world
  <2>6. silent' \subseteq Spaces
    BY DEF Announce, Typed
  <2>7. Typed'
    BY <2>3, <2>4, <2>5, <2>6 DEF Typed
  <2> QED
    BY <2>4, <2>5, <2>7, SameEntrySpaces DEF HeldConnects, Quiet, Live, EverLive
<1>2. CASE TellConnected
  <2>1. hold' \in Holding /\ hold'.conn = {}
    <3>1. entry.spaces \in SUBSET Spaces /\ hold.added \cap entry.spaces \in SUBSET Spaces
      BY DEF Typed, Entry, Holding
    <3>2. \A S : Publishing(S, TRUE).conn = {}
      BY DEF Publishing, Held, Free
    <3> QED
      BY <1>2, <3>1, <3>2, FreeTyped DEF TellConnected
  <2> DEFINE f == [c \in Conns |-> IF c \in hold.conn THEN [conn[c] EXCEPT !.phase = "open"] ELSE conn[c]]
  <2>2. /\ f \in [Conns -> Conn]
        /\ \A c \in Conns : f[c].phase = conn[c].phase \/ (conn[c].phase = "connecting" /\ f[c].phase = "open")
    <3>1. ASSUME NEW c \in Conns
          PROVE  /\ f[c] \in Conn
                 /\ f[c].phase = conn[c].phase \/ (conn[c].phase = "connecting" /\ f[c].phase = "open")
      <4>1. conn[c] \in Conn
        BY DEF Typed
      <4>0. [conn[c] EXCEPT !.phase = "open"] \in Conn /\ [conn[c] EXCEPT !.phase = "open"].phase = "open"
        BY <4>1, PhaseSet
      <4>2. PICK x \in Conn : x = [conn[c] EXCEPT !.phase = "open"] /\ x.phase = "open"
        BY <4>0
      <4>3. f[c] = IF c \in hold.conn THEN x ELSE conn[c]
        BY <4>2
      <4> HIDE DEF f
      <4>4. CASE c \in hold.conn
        <5>1. f[c] = x /\ conn[c].phase = "connecting"
          BY <4>3, <4>4 DEF HeldConnects
        <5> QED
          BY <4>2, <5>1
      <4>5. CASE c \notin hold.conn
        BY <4>1, <4>3, <4>5
      <4> QED
        BY <4>4, <4>5
    <3> QED
      BY <3>1
  <2>3. conn' = f /\ UNCHANGED <<entry, timers, told, shown, silent, blurred, made, member, news, moves>>
    BY <1>2 DEF TellConnected, heard, world
  <2> HIDE DEF f
  <2>4. Live' = Live /\ EverLive' = EverLive
    BY <2>2, <2>3, PhaseQuiet
  <2>5. Typed'
    BY <2>1, <2>2, <2>3 DEF Typed
  <2> QED
    BY <2>1, <2>3, <2>4, <2>5, SameEntrySpaces DEF HeldConnects, Quiet
<1>3. CASE DndChanged
  <2>1. entry.spaces \in SUBSET Spaces
    BY DEF Typed, Entry
  <2>2. hold' \in Holding /\ hold'.conn = {}
    BY <1>3, <2>1, FreeTyped DEF DndChanged, Publishing, Held, Free
  <2>3. UNCHANGED <<conn, entry, timers, told, shown, silent, blurred, made, member, news, moves>>
    BY <1>3 DEF DndChanged, heard, world
  <2>4. Typed'
    BY <2>2, <2>3 DEF Typed
  <2> QED
    BY <2>2, <2>3, <2>4, SameEntrySpaces DEF HeldConnects, Quiet, Live, EverLive
<1> QED
  BY <1>1, <1>2, <1>3 DEF Saying

LEMMA HearingTyped ==
  ASSUME Base, Hearing
  PROVE  Typed' /\ HeldConnects' /\ Quiet
<1> USE DEF Base
<1> PICK c \in Conns : ListSpaces(c) \/ Subscribe(c) \/ AddTopic(c) \/ HearJoined(c) \/ HearRemoved(c)
  BY DEF Hearing
<1>1. CASE ListSpaces(c) \/ Subscribe(c)
  <2>1. /\ conn' \in [Conns -> Conn]
        /\ \A d \in Conns :
              \/ conn'[d] = conn[d]
              \/ conn[d].phase \in {"new", "listed"} /\ conn'[d].phase \in {"listed", "subscribed"}
    <3>0. conn[c] \in Conn /\ member \in SUBSET Spaces
      BY DEF Typed
    <3>1. CASE ListSpaces(c)
      <4>0. [conn[c] EXCEPT !.phase = "listed", !.spaces = member] \in Conn /\ [conn[c] EXCEPT !.phase = "listed", !.spaces = member].phase = "listed"
        BY <3>0 DEF Conn
      <4>1. PICK x \in Conn : x = [conn[c] EXCEPT !.phase = "listed", !.spaces = member] /\ x.phase = "listed"
        BY <4>0
      <4>2. conn' = [conn EXCEPT ![c] = x] /\ conn[c].phase = "new"
        BY <3>1, <4>1 DEF ListSpaces, Typed
      <4> QED
        BY <4>1, <4>2, RowSet
    <3>2. CASE Subscribe(c)
      <4>0. [conn[c] EXCEPT !.phase = "subscribed"] \in Conn /\ [conn[c] EXCEPT !.phase = "subscribed"].phase = "subscribed"
        BY <3>0, PhaseSet
      <4>1. PICK x \in Conn : x = [conn[c] EXCEPT !.phase = "subscribed"] /\ x.phase = "subscribed"
        BY <4>0
      <4>2. conn' = [conn EXCEPT ![c] = x] /\ conn[c].phase = "listed"
        BY <3>2, <4>1 DEF Subscribe, Phase, Typed
      <4> QED
        BY <4>1, <4>2, RowSet
    <3> QED
      BY <1>1, <3>1, <3>2
  <2>2. UNCHANGED <<entry, timers, hold, told, shown, silent, blurred, made, member, news, moves>>
    BY <1>1 DEF ListSpaces, Subscribe, heard, world
  <2>3. Live' = Live /\ EverLive' = EverLive
    BY <2>1, PhaseQuiet
  <2>4. Typed'
    BY <2>1, <2>2 DEF Typed
  <2>5. HeldConnects'
    BY <2>1, <2>2 DEF HeldConnects, Typed, Holding
  <2> QED
    BY <2>2, <2>3, <2>4, <2>5, SameEntrySpaces DEF Quiet
<1>2. CASE HearJoined(c) \/ HearRemoved(c)
  <2>1. conn[c].inbox \in Seq(Event) /\ conn[c].inbox # <<>>
    BY <1>2 DEF HearJoined, HearRemoved, Typed, Conn
  <2>2. Head(conn[c].inbox) \in Event /\ Tail(conn[c].inbox) \in Seq(Event)
    BY <2>1
  <2>3. Head(conn[c].inbox).space \in Spaces
    BY <2>2 DEF Event
  <2>4. conn[c] \in Conn /\ conn[c].spaces \ {Head(conn[c].inbox).space} \in SUBSET Spaces
    BY DEF Typed, Conn
  <2>5. conn' \in [Conns -> Conn] /\ \A d \in Conns : conn'[d].phase = conn[d].phase
    <3>1. PICK x \in Conn : x.phase = conn[c].phase /\ conn' = [conn EXCEPT ![c] = x]
      <4>1. CASE HearJoined(c)
        <5>1. PICK x : x = [conn[c] EXCEPT !.inbox = Tail(conn[c].inbox)]
          OBVIOUS
        <5>2. x \in Conn /\ x.phase = conn[c].phase
          BY <2>2, <2>4, <5>1 DEF Conn
        <5>3. conn' = [conn EXCEPT ![c] = x]
          BY <4>1, <5>1 DEF HearJoined
        <5> QED
          BY <5>2, <5>3
      <4>2. CASE HearRemoved(c)
        <5>1. PICK x : x = [conn[c] EXCEPT !.inbox = Tail(conn[c].inbox),
                                           !.spaces = conn[c].spaces \ {Head(conn[c].inbox).space}]
          OBVIOUS
        <5>2. x \in Conn /\ x.phase = conn[c].phase
          BY <2>2, <2>4, <5>1 DEF Conn
        <5>3. conn' = [conn EXCEPT ![c] = x]
          BY <4>2, <5>1 DEF HearRemoved, Typed
        <5> QED
          BY <5>2, <5>3
      <4> QED
        BY <1>2, <4>1, <4>2
    <3>2. conn' \in [Conns -> Conn] /\ \A d \in Conns : conn'[d] = IF d = c THEN x ELSE conn[d]
      BY <3>1, RowSet
    <3> QED
      BY <3>1, <3>2
  <2>6. Live' = Live /\ EverLive' = EverLive
    BY <2>5, PhaseQuiet
  <2>7. PICK S \in SUBSET Spaces : entry' = [entry EXCEPT !.spaces = S]
    <3>1. entry.spaces \cup {Head(conn[c].inbox).space} \in SUBSET Spaces
          /\ entry.spaces \ {Head(conn[c].inbox).space} \in SUBSET Spaces
      BY <2>3 DEF Typed, Entry
    <3> QED
      BY <1>2, <3>1 DEF HearJoined, HearRemoved
  <2>8. entry' \in Entry
    BY <2>7, EntryTyped DEF Typed
  <2>9. hold' \in Holding /\ (hold'.conn = {} \/ hold' = hold)
    <3>1. {Head(conn[c].inbox).space} \ entry.spaces \in SUBSET Spaces
      BY <2>3
    <3>2. \A T : Publishing(T, TRUE).conn = {}
      BY DEF Publishing, Held, Free
    <3> QED
      BY <1>2, <3>1, <3>2, FreeTyped DEF HearJoined, HearRemoved, Typed
  <2>10. silent' \subseteq Spaces /\ UNCHANGED <<timers, told, shown, blurred, made, member, news, moves>>
    BY <1>2, <2>3 DEF HearJoined, HearRemoved, heard, world, Typed
  <2>11. Typed'
    BY <2>5, <2>8, <2>9, <2>10 DEF Typed
  <2>12. HeldConnects'
    BY <2>5, <2>9 DEF HeldConnects, Typed, Holding
  <2> QED
    BY <2>6, <2>7, <2>10, <2>11, <2>12 DEF Quiet
<1>3. CASE AddTopic(c)
  <2>1. conn[c] \in Conn /\ conn[c].inbox \in Seq(Event) /\ conn[c].inbox # <<>>
    BY <1>3 DEF AddTopic, Typed, Conn
  <2>2. Head(conn[c].inbox) \in Event
    BY <2>1
  <2>3. PICK S \in SUBSET Spaces : S = conn[c].spaces \cup {Head(conn[c].inbox).space}
    BY <2>1, <2>2 DEF Conn, Event
  <2>4. PICK x : x = [conn[c] EXCEPT !.spaces = S]
    OBVIOUS
  <2>5. x \in Conn /\ x.phase = conn[c].phase
    BY <2>1, <2>4 DEF Conn
  <2>6. conn' = [conn EXCEPT ![c] = x]
    BY <1>3, <2>3, <2>4 DEF AddTopic
  <2>7. conn' \in [Conns -> Conn] /\ \A d \in Conns : conn'[d] = IF d = c THEN x ELSE conn[d]
    BY <2>5, <2>6, RowSet
  <2>8. UNCHANGED <<entry, timers, hold, told, shown, silent, blurred, made, member, news, moves>>
    BY <1>3 DEF AddTopic, heard, world
  <2>9. \A d \in Conns : conn'[d].phase = conn[d].phase
    BY <2>5, <2>7
  <2>10. Live' = Live /\ EverLive' = EverLive
    BY <2>7, <2>9, PhaseQuiet
  <2>11. Typed'
    BY <2>7, <2>8 DEF Typed
  <2>12. HeldConnects'
    BY <2>8, <2>9 DEF HeldConnects, Typed, Holding
  <2> QED
    BY <2>8, <2>10, <2>11, <2>12, SameEntrySpaces DEF Quiet
<1> QED
  BY <1>1, <1>2, <1>3

LEMMA MovingTyped ==
  ASSUME Base, Moving
  PROVE  Typed' /\ HeldConnects' /\ Quiet
<1> USE DEF Base
<1>1. CASE Committing
  <2>1. PICK s \in Spaces : Join(s) \/ Leave(s) \/ CreateSpace(s)
    BY <1>1 DEF Committing
  <2>2. UNCHANGED <<conn, entry, timers, hold, told, shown, silent>>
    BY <2>1 DEF Join, Leave, CreateSpace, Committed, heard
  <2>3. moves' \in 0 .. MaxMoves /\ moves \in Nat
    BY <2>1, PresenceAssumption DEF Join, Leave, CreateSpace, Committed, Typed
  <2>4. made' \subseteq Spaces /\ member' \subseteq made'
    BY <2>1 DEF Join, Leave, CreateSpace, Committed, Typed
  <2>5. blurred' \subseteq Spaces /\ news' \subseteq News
    <3>1. \A n \in news : n.space \in Spaces
      BY DEF Typed, News
    <3>2. \A b \in BOOLEAN : [joined |-> b, space |-> s, at |-> moves] \in News
      BY <2>3 DEF News
    <3>3. ASSUME NEW b \in BOOLEAN, Committed(b, s) PROVE blurred' \subseteq Spaces /\ news' \subseteq News
      BY <3>1, <3>2, <3>3 DEF Committed, Typed
    <3>4. CASE CreateSpace(s)
      BY <3>4 DEF CreateSpace, Typed
    <3> QED
      BY <2>1, <3>3, <3>4 DEF Join, Leave
  <2>6. Typed'
    BY <2>2, <2>3, <2>4, <2>5 DEF Typed
  <2> QED
    BY <2>2, <2>6, SameEntrySpaces DEF HeldConnects, Quiet, Live, EverLive
<1>2. ASSUME NEW n \in news, Publish(n) PROVE Typed' /\ HeldConnects' /\ Quiet
  <2>1. PICK e \in Event : e = [joined |-> n.joined, space |-> n.space]
    BY DEF Typed, News, Event
  <2> DEFINE f == [c \in Conns |-> IF Hears(c, n) THEN [conn[c] EXCEPT !.inbox = Append(@, e)] ELSE conn[c]]
  <2>2. conn' = f /\ UNCHANGED <<made, member, entry, timers, hold, told, shown, silent, moves>>
    BY <1>2, <2>1 DEF Publish, heard
  <2>3. f \in [Conns -> Conn] /\ \A c \in Conns : f[c].phase = conn[c].phase
    <3>1. ASSUME NEW c \in Conns PROVE f[c] \in Conn /\ f[c].phase = conn[c].phase
      <4>1. Append(conn[c].inbox, e) \in Seq(Event)
        BY DEF Typed, Conn
      <4>2. [conn[c] EXCEPT !.inbox = Append(@, e)] \in Conn
            /\ [conn[c] EXCEPT !.inbox = Append(@, e)].phase = conn[c].phase
        BY <4>1 DEF Typed, Conn
      <4> QED
        BY <4>2 DEF Typed
    <3> QED
      BY <3>1
  <2> HIDE DEF f
  <2>4. Live' = Live /\ EverLive' = EverLive
    BY <2>2, <2>3, PhaseQuiet
  <2>5. blurred' \subseteq Spaces /\ news' \subseteq News
    BY <1>2 DEF Publish, Typed, News
  <2>6. Typed'
    BY <2>2, <2>3, <2>5 DEF Typed
  <2>7. HeldConnects'
    BY <2>2, <2>3 DEF HeldConnects, Typed, Holding
  <2> QED
    BY <2>2, <2>4, <2>6, <2>7, SameEntrySpaces DEF Quiet
<1> QED
  BY <1>1, <1>2 DEF Moving

\* Such a step keeps the count.
LEMMA QuietCounted ==
  ASSUME Base, Quiet
  PROVE  Counted'
<1>1. entry'.conns = entry.conns /\ entry'.mobileConns = entry.mobileConns
  BY DEF Base, Typed, Entry, Quiet
<1> QED
  BY <1>1 DEF Base, Counted, Quiet

(***************************************************************************)
(* Connections made and closed, and timers                                 *)
(***************************************************************************)

\* What is made of an entry, field by field.
LEMMA StoppedFields ==
  ASSUME NEW e \in Entry, NEW x, x = Stopped(e)
  PROVE  /\ x \in Entry /\ x.id = e.id /\ x.present = e.present /\ x.mobile = e.mobile
         /\ x.spaces = e.spaces /\ x.conns = e.conns
         /\ x.mobileConns = e.mobileConns /\ x.settling = e.settling + 1
BY DEF Entry, Stopped

LEMMA ArmedFields ==
  ASSUME NEW e \in Entry
  PROVE  /\ Armed(e) \in Entry /\ Armed(e).id = e.id /\ Armed(e).present = e.present
         /\ Armed(e).mobile = e.mobile /\ Armed(e).spaces = e.spaces /\ Armed(e).conns = e.conns
         /\ Armed(e).mobileConns = e.mobileConns /\ Armed(e).settling = e.settling + 2
BY DEF Entry, Armed

LEMMA MobileFields ==
  ASSUME NEW e \in Entry, NEW b \in BOOLEAN, NEW x, x = [e EXCEPT !.mobile = b]
  PROVE  /\ x \in Entry /\ x.id = e.id /\ x.present = e.present /\ x.mobile = b
         /\ x.spaces = e.spaces /\ x.conns = e.conns
         /\ x.mobileConns = e.mobileConns /\ x.settling = e.settling
BY DEF Entry

LEMMA LaterFields ==
  ASSUME NEW t \in Timer, NEW x, x = [t EXCEPT !.since = @ + 1]
  PROVE  /\ x \in Timer /\ x.id = t.id /\ x.generation = t.generation /\ x.fired = t.fired
         /\ x.since = t.since + 1
BY DEF Timer

LEMMA TimerFields ==
  ASSUME NEW e \in Entry, NEW t, t = TimerOf(e)
  PROVE  /\ t \in Timer /\ t.id = e.id /\ t.generation = e.settling /\ t.fired = FALSE
         /\ t.since = Ever
<1>1. PICK n \in Nat, i \in Nat, g \in Nat : n = Ever /\ i = e.id /\ g = e.settling
  BY LiveFinite DEF Entry
<1>2. t = [id |-> i, generation |-> g, fired |-> FALSE, since |-> n]
  BY <1>1 DEF TimerOf
<1> QED
  BY <1>1, <1>2 DEF Timer

LEMMA NoEntryFields ==
  ASSUME NEW i \in Nat
  PROVE  /\ NoEntry(i) \in Entry /\ NoEntry(i).id = i /\ NoEntry(i).present = FALSE
         /\ NoEntry(i).mobile = FALSE /\ NoEntry(i).spaces = {} /\ NoEntry(i).conns = 0
         /\ NoEntry(i).mobileConns = 0 /\ NoEntry(i).settling = 0
BY DEF Entry, NoEntry

\* An entry that is not there counts nothing.
Absent == ~entry.present => entry.conns = 0 /\ entry.mobileConns = 0

\* The entry a connection is counted in.
LEMMA FoundFields ==
  ASSUME Typed, Absent, NEW c \in Conns
  PROVE  /\ Found(c) \in Entry /\ Found(c).present = TRUE
         /\ Found(c).conns = entry.conns /\ Found(c).mobileConns = entry.mobileConns
         /\ entry.present => Found(c) = entry
         /\ ~entry.present => /\ Found(c).id = entry.id + 1 /\ Found(c).spaces = {}
                              /\ Found(c).settling = 0 /\ (Found(c).mobile <=> c \in MobileConns)
<1>0. entry \in Entry /\ entry.id \in Nat /\ entry.id + 1 \in Nat
  BY DEF Typed, Entry
<1>1. CASE entry.present
  BY <1>0, <1>1 DEF Found, Entry
<1>2. CASE ~entry.present
  <2>1. NoEntry(entry.id + 1) \in Entry
    BY <1>0, NoEntryFields
  <2>2. (c \in MobileConns) \in BOOLEAN
    OBVIOUS
  <2>3. Found(c) = [NoEntry(entry.id + 1) EXCEPT !.present = TRUE, !.mobile = c \in MobileConns]
    BY <1>2 DEF Found
  <2>4. /\ Found(c) \in Entry /\ Found(c).present = TRUE
        /\ Found(c).conns = NoEntry(entry.id + 1).conns
        /\ Found(c).mobileConns = NoEntry(entry.id + 1).mobileConns
        /\ Found(c).id = NoEntry(entry.id + 1).id /\ Found(c).spaces = NoEntry(entry.id + 1).spaces
        /\ Found(c).settling = NoEntry(entry.id + 1).settling
        /\ Found(c).mobile <=> c \in MobileConns
    BY <2>1, <2>2, <2>3 DEF Entry
  <2> QED
    BY <1>0, <1>2, <2>4, NoEntryFields DEF Absent
<1> QED
  BY <1>1, <1>2

\* An entry to be moved to mobile.
Due(e) == ~e.mobile /\ OnlyMobile(e)

\* A timer takes the place of those that did not fire.
ArmedAs(e, n) ==
    \E t \in Timer : /\ t.id = e.id /\ t.generation = e.settling /\ t.fired = FALSE /\ t.since = n
                     /\ timers' = FiredTimers \cup {t}

\* What a connection makes of the entry and the timers.
ConnectMakes(c) ==
    /\ entry' \in Entry /\ entry'.present = TRUE
    /\ entry'.conns = entry.conns + 1
    /\ entry'.mobileConns = (IF c \in MobileConns THEN entry.mobileConns + 1 ELSE entry.mobileConns)
    /\ entry'.spaces = Kept(c) \cup conn[c].spaces
    /\ IF entry.present THEN entry'.id = entry.id /\ entry'.settling > entry.settling
       ELSE entry'.id = entry.id + 1
    /\ IF Due(entry') THEN ArmedAs(entry', Ever + 1) ELSE timers' = FiredTimers
    /\ Due(entry') => IF entry.present THEN ~entry.mobile ELSE c \notin MobileConns
    /\ hold'.op = "connect" /\ hold'.online = FALSE
    /\ hold'.say = Dropped(c) /\ hold'.added = Added(c)
    /\ hold'.all \/ ~entry.present \/ entry'.mobile = entry.mobile

LEMMA ConnectEntry ==
  ASSUME Base, Absent, NEW c \in Conns, Connect(c)
  PROVE  ConnectMakes(c)
<1> USE DEF Base
<1>1. PICK f \in Entry : f = Found(c)
  BY FoundFields
<1>2. PICK S \in SUBSET Spaces : S = Kept(c) \cup conn[c].spaces
  <2>1. conn[c].spaces \in SUBSET Spaces /\ f.spaces \in SUBSET Spaces
    BY DEF Typed, Conn, Entry
  <2>2. Kept(c) \in SUBSET Spaces
    BY <1>1, <2>1 DEF Kept
  <2> QED
    BY <2>1, <2>2
<1>3. PICK e : e = Counting(c)
  OBVIOUS
<1>4. /\ e \in Entry /\ e.id = f.id /\ e.present = f.present /\ e.mobile = f.mobile
      /\ e.spaces = S /\ e.conns = f.conns + 1
      /\ e.mobileConns = (IF c \in MobileConns THEN f.mobileConns + 1 ELSE f.mobileConns)
      /\ e.settling = f.settling + 1
  <2>1. PICK n \in Nat, m \in Nat :
           n = f.conns + 1 /\ m = IF c \in MobileConns THEN f.mobileConns + 1 ELSE f.mobileConns
    BY DEF Entry
  <2>2. e = Stopped([f EXCEPT !.spaces = S, !.conns = n, !.mobileConns = m])
    <3>1. [f EXCEPT !.spaces = S, !.conns = @ + 1, !.mobileConns = IF c \in MobileConns THEN @ + 1 ELSE @]
             = [f EXCEPT !.spaces = S, !.conns = n, !.mobileConns = m]
      BY <2>1 DEF Entry
    <3>2. e = Stopped([Found(c) EXCEPT !.spaces = Kept(c) \cup conn[c].spaces, !.conns = @ + 1,
                                       !.mobileConns = IF c \in MobileConns THEN @ + 1 ELSE @])
      BY Zenon, <1>3 DEF Counting
    <3>3. e = Stopped([f EXCEPT !.spaces = S, !.conns = @ + 1,
                                !.mobileConns = IF c \in MobileConns THEN @ + 1 ELSE @])
      BY Zenon, <1>1, <1>2, <3>2
    <3> QED
      BY Zenon, <3>1, <3>3
  <2>3. /\ e \in Entry /\ e.id = f.id /\ e.present = f.present /\ e.mobile = f.mobile
        /\ e.spaces = S /\ e.conns = n /\ e.mobileConns = m /\ e.settling = f.settling + 1
    <3>1. PICK x : x = [f EXCEPT !.spaces = S, !.conns = n, !.mobileConns = m]
      OBVIOUS
    <3>2. e = Stopped(x)
      BY <2>2, <3>1
    <3>3. /\ x \in Entry /\ x.id = f.id /\ x.present = f.present /\ x.mobile = f.mobile
          /\ x.spaces = S /\ x.conns = n /\ x.mobileConns = m /\ x.settling = f.settling
      BY <3>1 DEF Entry
    <3>4. /\ e \in Entry /\ e.id = x.id /\ e.present = x.present /\ e.mobile = x.mobile
          /\ e.spaces = x.spaces /\ e.conns = x.conns
          /\ e.mobileConns = x.mobileConns /\ e.settling = x.settling + 1
      BY <3>2, <3>3, StoppedFields
    <3> QED
      BY <3>3, <3>4
  <2> QED
    BY <2>1, <2>3
<1>5. /\ entry' = IF ToMobile(e) THEN Armed(e)
                  ELSE [e EXCEPT !.mobile = @ /\ ~(e.mobile /\ ~OnlyMobile(e))]
      /\ timers' = FiredTimers \cup
            (IF ToMobile(e) THEN {[TimerOf(entry') EXCEPT !.since = @ + 1]} ELSE {})
  BY <1>3 DEF Connect
<1>8. /\ hold'.op = "connect" /\ hold'.online = FALSE /\ hold'.say = Dropped(c)
      /\ hold'.added = Added(c) /\ hold'.all = (e.mobile /\ ~OnlyMobile(e))
  <2>1. hold' = [Held("connect", Dropped(c), FALSE) EXCEPT
                   !.conn = {c}, !.added = Added(c), !.all = e.mobile /\ ~OnlyMobile(e)]
    BY <1>3 DEF Connect
  <2> QED
    BY <2>1 DEF Held, Free
<1>9. entry.present => f = entry
  BY <1>1, FoundFields
<1>6. CASE ToMobile(e)
  <2>1. entry' = Armed(e)
    BY <1>5, <1>6
  <2>2. /\ entry' \in Entry /\ entry'.id = e.id /\ entry'.present = e.present
        /\ entry'.mobile = e.mobile /\ entry'.spaces = e.spaces /\ entry'.conns = e.conns
        /\ entry'.mobileConns = e.mobileConns /\ entry'.settling = e.settling + 2
    BY <1>4, <2>1, ArmedFields
  <2>3. Due(entry')
    BY <1>6, <2>2 DEF ToMobile, OnlyMobile, Due
  <2>5. timers' = FiredTimers \cup {[TimerOf(entry') EXCEPT !.since = @ + 1]}
    BY <1>5, <1>6
  <2>4. ArmedAs(entry', Ever + 1)
    <3>1. PICK t \in Timer : /\ t = TimerOf(entry') /\ t.id = entry'.id
                             /\ t.generation = entry'.settling /\ t.fired = FALSE /\ t.since = Ever
      BY <2>2, TimerFields
    <3>2. PICK x \in Timer : /\ x = [t EXCEPT !.since = @ + 1] /\ x.id = t.id
                             /\ x.generation = t.generation /\ x.fired = t.fired /\ x.since = t.since + 1
      BY LaterFields
    <3> QED
      BY <2>5, <3>1, <3>2 DEF ArmedAs
  <2>6. f.settling \in Nat /\ e.settling + 2 > f.settling
    BY <1>4 DEF Entry
  <2>7. IF entry.present THEN ~entry.mobile ELSE c \notin MobileConns
    <3>1. ~f.mobile
      BY <1>4, <1>6 DEF ToMobile
    <3> QED
      BY <1>1, <3>1, FoundFields
  <2> QED
    BY <1>1, <1>2, <1>4, <1>8, <1>9, <2>2, <2>3, <2>4, <2>6, <2>7, FoundFields DEF ConnectMakes
<1>7. CASE ~ToMobile(e)
  <2>0. PICK b \in BOOLEAN : b = (e.mobile /\ ~(e.mobile /\ ~OnlyMobile(e)))
    OBVIOUS
  <2>1. entry' = [e EXCEPT !.mobile = b]
    BY <1>5, <1>7, <2>0
  <2>2. /\ entry' \in Entry /\ entry'.id = e.id /\ entry'.present = e.present
        /\ entry'.mobile = b /\ entry'.spaces = e.spaces /\ entry'.conns = e.conns
        /\ entry'.mobileConns = e.mobileConns /\ entry'.settling = e.settling
    BY <1>4, <2>1, MobileFields
  <2>3. ~Due(entry')
    BY <1>7, <2>0, <2>2 DEF ToMobile, OnlyMobile, Due
  <2>4. timers' = FiredTimers
    BY <1>5, <1>7
  <2>5. f.settling \in Nat /\ e.settling > f.settling
    BY <1>4 DEF Entry
  <2> QED
    <3>1. hold'.all \/ ~entry.present \/ entry'.mobile = entry.mobile
      BY <1>4, <1>8, <1>9, <2>0, <2>2 DEF Entry
    <3> QED
      BY <1>1, <1>2, <1>4, <1>8, <2>2, <2>3, <2>4, <2>5, <3>1, FoundFields DEF ConnectMakes
<1> QED
  BY <1>6, <1>7

\* It is one connection more.
LEMMA ConnectLive ==
  ASSUME Base, NEW c \in Conns, Connect(c)
  PROVE  /\ conn' \in [Conns -> Conn] /\ conn'[c].phase = "connecting" /\ hold.op = "free"
         /\ \A d \in Conns : d # c => conn'[d] = conn[d]
         /\ Cardinality(Live)' = Cardinality(Live) + 1
         /\ Cardinality(Live \cap MobileConns)' =
               Cardinality(Live \cap MobileConns) + (IF c \in MobileConns THEN 1 ELSE 0)
         /\ Ever' = Ever + 1
<1>0. conn[c] \in Conn /\ conn[c].phase = "subscribed" /\ conn' = Phase(c, "connecting") /\ hold.op = "free"
  BY DEF Connect, Base, Typed
<1>1. [conn[c] EXCEPT !.phase = "connecting"] \in Conn /\ [conn[c] EXCEPT !.phase = "connecting"].phase = "connecting"
  BY <1>0, PhaseSet
<1>2. PICK x \in Conn : x = [conn[c] EXCEPT !.phase = "connecting"] /\ x.phase = "connecting"
  BY <1>1
<1>3. conn' = [conn EXCEPT ![c] = x]
  BY <1>0, <1>2 DEF Phase, Base, Typed
<1>4. conn' \in [Conns -> Conn] /\ \A d \in Conns : conn'[d] = IF d = c THEN x ELSE conn[d]
  BY <1>3, RowSet DEF Base
<1>5. Live' = Live \cup {c} /\ c \notin Live /\ EverLive' = EverLive \cup {c} /\ c \notin EverLive
  <2>1. \A d \in Conns : conn'[d].phase = IF d = c THEN "connecting" ELSE conn[d].phase
    BY <1>2, <1>4
  <2>2. Live' = Live \cup {c} /\ c \notin Live
    BY <1>0, <2>1 DEF Live
  <2>3. EverLive' = EverLive \cup {c} /\ c \notin EverLive
    BY <1>0, <2>1 DEF EverLive
  <2> QED
    BY <2>2, <2>3
<1>6. (Live \cap MobileConns)' = (IF c \in MobileConns THEN (Live \cap MobileConns) \cup {c} ELSE Live \cap MobileConns)
  BY <1>5
<1>7. Ever' = Cardinality(EverLive')
  BY DEF Ever, EverLive
<1>8. Cardinality(Live)' = Cardinality(Live) + 1
  BY <1>5, LiveFinite, FS_AddElement
<1>9. Cardinality(EverLive') = Ever + 1
  BY <1>5, LiveFinite, FS_AddElement
<1>10. Cardinality(Live \cap MobileConns)' =
               Cardinality(Live \cap MobileConns) + (IF c \in MobileConns THEN 1 ELSE 0)
  <2>1. CASE c \in MobileConns
    <3>1. c \notin Live \cap MobileConns
      BY <1>5
    <3>2. Cardinality((Live \cap MobileConns) \cup {c}) = Cardinality(Live \cap MobileConns) + 1
      BY <3>1, LiveFinite, FS_AddElement
    <3> QED
      BY <1>6, <2>1, <3>2
  <2>2. CASE c \notin MobileConns
    BY <1>6, <2>2, LiveFinite
  <2> QED
    BY <2>1, <2>2
<1> QED
  BY <1>0, <1>2, <1>4, <1>7, <1>8, <1>9, <1>10

\* What a closed connection makes of them: it was the last and goes at once,
\* or a grace is waited for, or the rest goes on.
Fewer(c) ==
    /\ entry' \in Entry /\ entry'.id = entry.id
    /\ entry'.present = entry.present /\ entry'.spaces = entry.spaces
    /\ entry'.conns = entry.conns - 1
    /\ entry'.mobileConns = (IF c \in MobileConns THEN entry.mobileConns - 1 ELSE entry.mobileConns)

GoesNow ==
    /\ entry.conns = 1 /\ entry' = NoEntry(entry.id) /\ timers' = FiredTimers
    /\ hold' = Publishing(entry.spaces, FALSE)

Waits(c) ==
    /\ Fewer(c) /\ entry'.mobile = entry.mobile /\ entry'.settling = entry.settling + 2
    /\ entry'.conns = 0 \/ Due(entry')
    /\ ArmedAs(entry', Ever) /\ hold' = Free /\ Grace

GoesOn(c) ==
    /\ Fewer(c) /\ entry'.settling = entry.settling /\ timers' = timers
    /\ entry'.conns > 0 /\ ~Due(entry')
    /\ \/ entry'.mobile = entry.mobile /\ hold' = Free
       \/ ~Grace /\ hold' = Publishing(entry.spaces, TRUE)

\* The counts a closed connection leaves.
LEMMA FewerFields ==
  ASSUME NEW e \in Entry, NEW n \in Nat, NEW m \in Nat, NEW x,
         x = [e EXCEPT !.conns = n, !.mobileConns = m]
  PROVE  /\ x \in Entry /\ x.id = e.id /\ x.present = e.present /\ x.mobile = e.mobile
         /\ x.spaces = e.spaces /\ x.conns = n /\ x.mobileConns = m /\ x.settling = e.settling
BY DEF Entry

LEMMA DisconnectEntry ==
  ASSUME Base, NEW c \in Conns, NEW now \in BOOLEAN, Disconnect(c, now)
  PROVE  GoesNow \/ Waits(c) \/ GoesOn(c)
<1>0. entry \in Entry /\ conn[c].phase = "open" /\ c \in Live
  BY DEF Base, Typed, Disconnect, Live
<1>1. entry.conns \in Nat /\ entry.conns >= 1 /\ entry.mobileConns \in Nat
      /\ (c \in MobileConns => entry.mobileConns >= 1)
  <2>1. Cardinality(Live) >= 1
    BY <1>0, LiveFinite, FS_EmptySet
  <2>2. c \in MobileConns => Cardinality(Live \cap MobileConns) >= 1
    <3>1. c \in MobileConns => c \in Live \cap MobileConns
      BY <1>0
    <3> QED
      BY <3>1, LiveFinite, FS_EmptySet
  <2> QED
    BY <2>1, <2>2, LiveFinite DEF Base, Counted
<1>2. PICK n \in Nat, m \in Nat :
         /\ n = entry.conns - 1
         /\ m = IF c \in MobileConns THEN entry.mobileConns - 1 ELSE entry.mobileConns
  BY <1>1
<1>3. PICK e : e = [entry EXCEPT !.conns = @ - 1, !.mobileConns = IF c \in MobileConns THEN @ - 1 ELSE @]
  OBVIOUS
<1>4. e = [entry EXCEPT !.conns = n, !.mobileConns = m]
  BY <1>0, <1>2, <1>3 DEF Entry
<1>5. /\ e \in Entry /\ e.id = entry.id /\ e.present = entry.present /\ e.mobile = entry.mobile
      /\ e.spaces = entry.spaces /\ e.conns = n /\ e.mobileConns = m /\ e.settling = entry.settling
  BY <1>0, <1>4 DEF Entry
<1> DEFINE gone == e.conns = 0 /\ (now \/ ~Grace)
           toMobile == e.conns > 0 /\ ToMobile(e)
           waits == ~gone /\ (e.conns = 0 \/ (toMobile /\ Grace))
<1>6. /\ entry' = CASE gone -> NoEntry(entry.id)
                    [] waits -> Armed(e)
                    [] OTHER -> [e EXCEPT !.mobile = @ \/ toMobile]
      /\ timers' = CASE gone -> FiredTimers
                     [] waits -> FiredTimers \cup {TimerOf(Armed(e))}
                     [] OTHER -> timers
      /\ hold' = IF gone THEN Publishing(entry.spaces, FALSE)
                 ELSE IF toMobile /\ ~Grace THEN Publishing(entry.spaces, TRUE) ELSE Free
  BY Zenon, <1>3 DEF Disconnect
<1>7. CASE gone
  <2>1. /\ entry' = NoEntry(entry.id) /\ timers' = FiredTimers
        /\ hold' = Publishing(entry.spaces, FALSE)
    BY <1>6, <1>7
  <2>2. entry.conns = 1
    BY <1>1, <1>2, <1>5, <1>7
  <2> QED
    BY <2>1, <2>2 DEF GoesNow
<1>8. CASE waits
  <2>1. ~gone /\ entry' = Armed(e) /\ timers' = FiredTimers \cup {TimerOf(Armed(e))}
    BY <1>6, <1>8
  <2>2. Grace /\ hold' = Free
    BY <1>6, <1>8, PresenceAssumption
  <2>3. /\ entry' \in Entry /\ entry'.id = e.id /\ entry'.present = e.present
        /\ entry'.mobile = e.mobile /\ entry'.spaces = e.spaces /\ entry'.conns = e.conns
        /\ entry'.mobileConns = e.mobileConns /\ entry'.settling = e.settling + 2
    BY <1>5, <2>1, ArmedFields
  <2>4. entry'.conns = 0 \/ Due(entry')
    BY <1>8, <2>3 DEF ToMobile, OnlyMobile, Due
  <2>5. ArmedAs(entry', Ever)
    <3>1. timers' = FiredTimers \cup {TimerOf(entry')}
      BY <2>1
    <3>2. PICK t \in Timer : /\ t = TimerOf(entry') /\ t.id = entry'.id
                             /\ t.generation = entry'.settling /\ t.fired = FALSE /\ t.since = Ever
      BY <2>3, TimerFields
    <3> QED
      BY <3>1, <3>2 DEF ArmedAs
  <2> QED
    BY <1>2, <1>5, <2>2, <2>3, <2>4, <2>5 DEF Waits, Fewer
<1>9. CASE ~gone /\ ~waits
  <2>0. PICK b \in BOOLEAN : b = (e.mobile \/ toMobile)
    OBVIOUS
  <2>1. entry' = [e EXCEPT !.mobile = b] /\ timers' = timers
    BY <1>6, <1>9, <2>0
  <2>2. /\ entry' \in Entry /\ entry'.id = e.id /\ entry'.present = e.present /\ entry'.mobile = b
        /\ entry'.spaces = e.spaces /\ entry'.conns = e.conns
        /\ entry'.mobileConns = e.mobileConns /\ entry'.settling = e.settling
    BY <1>5, <2>1, MobileFields
  <2>3. entry'.conns > 0
    BY <1>5, <1>9, <2>2
  <2>4. ~Due(entry')
    BY <1>5, <2>0, <2>2, <2>3 DEF ToMobile, OnlyMobile, Due
  <2>5. \/ entry'.mobile = entry.mobile /\ hold' = Free
        \/ ~Grace /\ hold' = Publishing(entry.spaces, TRUE)
    <3>1. CASE toMobile
      BY <1>6, <1>9, <3>1
    <3>2. CASE ~toMobile
      <4>1. e.mobile \in BOOLEAN
        BY <1>5 DEF Entry
      <4>2. b = e.mobile
        BY <2>0, <3>2, <4>1
      <4>3. hold' = Free
        BY <1>6, <1>9, <3>2
      <4> QED
        BY <1>5, <2>2, <4>2, <4>3
    <3> QED
      BY <3>1, <3>2
  <2> QED
    BY <1>2, <1>5, <2>1, <2>2, <2>3, <2>4, <2>5 DEF GoesOn, Fewer
<1> QED
  BY <1>7, <1>8, <1>9

\* It is one connection fewer.
LEMMA DisconnectLive ==
  ASSUME Base, NEW c \in Conns, NEW now \in BOOLEAN, Disconnect(c, now)
  PROVE  /\ conn' \in [Conns -> Conn] /\ hold.op = "free"
         /\ \A d \in Conns : d # c => conn'[d] = conn[d]
         /\ c \in Live /\ Live' = Live \ {c}
         /\ Cardinality(Live)' = Cardinality(Live) - 1
         /\ Cardinality(Live \cap MobileConns)' =
               Cardinality(Live \cap MobileConns) - (IF c \in MobileConns THEN 1 ELSE 0)
         /\ Ever' = Ever
<1>0. conn[c] \in Conn /\ conn[c].phase = "open" /\ conn' = [conn EXCEPT ![c] = Closed] /\ hold.op = "free"
  BY DEF Disconnect, Base, Typed
<1>1. Closed \in Conn /\ Closed.phase = "closed"
  <2>1. <<>> \in Seq(Event)
    OBVIOUS
  <2> QED
    BY <2>1 DEF Closed, Conn
<1>2. PICK x \in Conn : x = Closed /\ x.phase = "closed"
  BY <1>1
<1>3. conn' = [conn EXCEPT ![c] = x]
  BY <1>0, <1>2
<1>4. conn' \in [Conns -> Conn] /\ \A d \in Conns : conn'[d] = IF d = c THEN x ELSE conn[d]
  BY <1>3, RowSet DEF Base
<1>5. Live' = Live \ {c} /\ c \in Live /\ EverLive' = EverLive
  BY <1>0, <1>2, <1>4 DEF Live, EverLive
<1>6. (Live \cap MobileConns)' = (IF c \in MobileConns THEN (Live \cap MobileConns) \ {c} ELSE Live \cap MobileConns)
  BY <1>5
<1>7. Ever' = Ever
  BY <1>5, LiveFinite DEF Ever, EverLive
<1>8. Cardinality(Live)' = Cardinality(Live) - 1
  BY <1>5, LiveFinite, FS_RemoveElement
<1>9. Cardinality(Live \cap MobileConns)' =
               Cardinality(Live \cap MobileConns) - (IF c \in MobileConns THEN 1 ELSE 0)
  <2>1. CASE c \in MobileConns
    <3>1. c \in Live \cap MobileConns
      BY <1>5, <2>1
    <3>2. Cardinality((Live \cap MobileConns) \ {c}) = Cardinality(Live \cap MobileConns) - 1
      BY <3>1, LiveFinite, FS_RemoveElement
    <3> QED
      BY <1>6, <2>1, <3>2
  <2>2. CASE c \notin MobileConns
    <3>1. Cardinality(Live \cap MobileConns)' = Cardinality(Live \cap MobileConns)
      BY <1>6, <2>2
    <3> QED
      BY <2>2, <3>1, LiveFinite
  <2> QED
    BY <2>1, <2>2
<1> QED
  BY <1>0, <1>4, <1>5, <1>7, <1>8, <1>9

\* What a timer that had its turn makes of them: the person goes, or is moved
\* to mobile, or nothing.
SettleMakes(t) ==
    \/ /\ StillArmed(t) /\ entry.conns = 0 /\ entry' = NoEntry(entry.id)
       /\ timers' = FiredTimers \ {t} /\ hold' = Publishing(entry.spaces, FALSE)
    \/ /\ timers' = timers \ {t}
       /\ \/ ~StillArmed(t) /\ entry' = entry /\ hold' = Free
          \/ /\ StillArmed(t) /\ entry.conns # 0 /\ ~Due(entry) /\ entry' = entry /\ hold' = Free
          \/ /\ StillArmed(t) /\ entry.conns # 0 /\ Due(entry)
             /\ entry' = [entry EXCEPT !.mobile = TRUE] /\ hold' = Publishing(entry.spaces, TRUE)

LEMMA SettleEntry ==
  ASSUME Base, NEW t \in timers, Settle(t)
  PROVE  SettleMakes(t) /\ t.fired /\ hold.op = "free" /\ conn' = conn /\ told' = told /\ silent' = silent
<1> DEFINE gone == StillArmed(t) /\ entry.conns = 0
           toMobile == StillArmed(t) /\ ~gone /\ ToMobile(entry)
<1>1. /\ entry' = (IF gone THEN NoEntry(entry.id) ELSE [entry EXCEPT !.mobile = @ \/ toMobile])
      /\ timers' = (IF gone THEN FiredTimers ELSE timers) \ {t}
      /\ hold' = IF gone \/ toMobile THEN Publishing(entry.spaces, ~gone) ELSE Free
      /\ t.fired /\ hold.op = "free" /\ UNCHANGED <<conn, heard, silent, blurred, world>>
  BY DEF Settle
<1>2. entry \in Entry /\ entry.mobile \in BOOLEAN
  BY DEF Base, Typed, Entry
<1>3. CASE gone
  <2>1. (~gone) = FALSE
    BY <1>3
  <2> QED
    BY <1>1, <1>3, <2>1 DEF SettleMakes, heard
<1>4. CASE toMobile
  <2>1. (~gone) = TRUE /\ (entry.mobile \/ toMobile) = TRUE
    BY <1>4
  <2>2. Due(entry)
    BY <1>4 DEF ToMobile, OnlyMobile, Due
  <2>3. entry' = [entry EXCEPT !.mobile = TRUE] /\ hold' = Publishing(entry.spaces, TRUE)
    BY <1>1, <1>4, <2>1
  <2> QED
    BY <1>1, <1>4, <2>2, <2>3 DEF SettleMakes, heard
<1>5. CASE ~gone /\ ~toMobile
  <2>1. (entry.mobile \/ toMobile) = entry.mobile
    BY <1>2, <1>5
  <2>2. [entry EXCEPT !.mobile = entry.mobile] = entry
    BY <1>2 DEF Entry
  <2>3. entry' = entry
    BY <1>1, <1>5, <2>1, <2>2
  <2>4. StillArmed(t) => ~Due(entry)
    BY <1>5 DEF ToMobile, OnlyMobile, Due
  <2> QED
    BY <1>1, <1>5, <2>3, <2>4 DEF SettleMakes, heard
<1> QED
  BY <1>3, <1>4, <1>5

(***************************************************************************)
(* Types and counts in every step                                          *)
(***************************************************************************)
LEMMA PublishingConn == \A S, b : Publishing(S, b).conn = {} /\ Free.conn = {}
BY DEF Publishing, Held, Free

\* The entry is there while anything is counted in it.
AbsentInv == Base /\ Absent

LEMMA TimersTyped ==
  ASSUME Typed, NEW e, NEW n, ArmedAs(e, n)
  PROVE  \A t \in timers' : t \in Timer
BY DEF ArmedAs, FiredTimers, Typed

LEMMA ConnectBase ==
  ASSUME AbsentInv, NEW c \in Conns, Connect(c)
  PROVE  AbsentInv'
<1> USE DEF AbsentInv
<1>1. ConnectMakes(c)
  BY ConnectEntry
<1>2. /\ conn' \in [Conns -> Conn] /\ conn'[c].phase = "connecting"
      /\ Cardinality(Live)' = Cardinality(Live) + 1
      /\ Cardinality(Live \cap MobileConns)' =
            Cardinality(Live \cap MobileConns) + (IF c \in MobileConns THEN 1 ELSE 0)
  BY ConnectLive
<1>3. \A t \in timers' : t \in Timer
  BY <1>1, TimersTyped DEF ConnectMakes, FiredTimers, Base, Typed
<1>4. hold' \in Holding /\ hold'.conn = {c}
  <2>1. PICK S \in SUBSET Spaces, A \in SUBSET Spaces : S = Dropped(c) /\ A = Added(c)
    BY DEF Base, Typed, Entry, Conn, Dropped, Added
  <2>2. PICK b \in BOOLEAN : b = (Counting(c).mobile /\ ~OnlyMobile(Counting(c)))
    OBVIOUS
  <2>3. hold' = [Held("connect", S, FALSE) EXCEPT !.conn = {c}, !.added = A, !.all = b]
    BY <2>1, <2>2 DEF Connect
  <2>4. PICK h \in Holding : h = Held("connect", S, FALSE)
    BY DEF Held, Free, Holding
  <2>5. hold' = [h EXCEPT !.conn = {c}, !.added = A, !.all = b]
    BY <2>3, <2>4
  <2> QED
    BY <2>5 DEF Holding
<1>5. UNCHANGED <<told, shown, silent, blurred, made, member, news, moves>>
  BY DEF Connect, heard, world
<1>6. Typed'
  BY <1>1, <1>2, <1>3, <1>4, <1>5 DEF Base, Typed, ConnectMakes
<1>7. Counted'
  <2>1. entry'.conns = Cardinality(Live)'
    BY <1>1, <1>2 DEF Base, Counted, ConnectMakes
  <2>2. CASE c \in MobileConns
    BY <1>1, <1>2, <2>1, <2>2 DEF Base, Counted, ConnectMakes
  <2>3. CASE c \notin MobileConns
    BY <1>1, <1>2, <2>1, <2>3, LiveFinite DEF Base, Counted, ConnectMakes
  <2> QED
    BY <2>2, <2>3
<1>8. HeldConnects' /\ Absent'
  BY <1>1, <1>2, <1>4 DEF HeldConnects, Absent, ConnectMakes
<1> QED
  BY <1>6, <1>7, <1>8 DEF Base

LEMMA DisconnectBase ==
  ASSUME AbsentInv, NEW c \in Conns, NEW now \in BOOLEAN, Disconnect(c, now)
  PROVE  AbsentInv'
<1> USE DEF AbsentInv
<1>0. GoesNow \/ Waits(c) \/ GoesOn(c)
  BY DisconnectEntry
<1>1. /\ conn' \in [Conns -> Conn] /\ c \in Live /\ Live' = Live \ {c}
      /\ Cardinality(Live)' = Cardinality(Live) - 1
      /\ Cardinality(Live \cap MobileConns)' =
            Cardinality(Live \cap MobileConns) - (IF c \in MobileConns THEN 1 ELSE 0)
  BY DisconnectLive
<1>2. entry.present /\ entry \in Entry /\ entry.id \in Nat /\ entry.spaces \in SUBSET Spaces
  <2>1. Cardinality(Live) # 0
    BY <1>1, LiveFinite, FS_EmptySet
  <2> QED
    BY <2>1 DEF Base, Counted, Absent, Typed, Entry
<1>3. entry' \in Entry
  <2>1. NoEntry(entry.id) \in Entry
    BY <1>2, NoEntryFields
  <2> QED
    BY <1>0, <2>1 DEF GoesNow, Waits, GoesOn, Fewer
<1>4. \A t \in timers' : t \in Timer
  BY <1>0, TimersTyped DEF GoesNow, Waits, GoesOn, FiredTimers, Base, Typed
<1>5. hold' \in Holding /\ hold'.conn = {}
  BY <1>0, <1>2, FreeTyped, PublishingConn DEF GoesNow, Waits, GoesOn
<1>6. UNCHANGED <<told, shown, silent, made, member, news, moves>> /\ blurred' \subseteq Spaces
  <2>1. UNCHANGED <<told, shown, silent, made, member, news, moves>>
    BY DEF Disconnect, heard, world
  <2>2. \A i \in DOMAIN conn[c].inbox : conn[c].inbox[i].space \in Spaces
    <3>1. conn[c].inbox \in Seq(Event)
      BY DEF Base, Typed, Conn
    <3>2. \A i \in DOMAIN conn[c].inbox : conn[c].inbox[i] \in Event
      BY <3>1
    <3> QED
      BY <3>2 DEF Event
  <2>3. blurred \subseteq Spaces /\ \A n \in news : n.space \in Spaces
    BY DEF Base, Typed, News
  <2>4. blurred' \subseteq Spaces
    BY <2>2, <2>3 DEF Disconnect
  <2> QED
    BY <2>1, <2>4
<1>7. Typed'
  BY <1>1, <1>3, <1>4, <1>5, <1>6 DEF Base, Typed
<1>8. Counted' /\ Absent'
  <2>1. CASE GoesNow
    <3>1. Cardinality(Live') = 0
      BY <1>1, <2>1 DEF GoesNow, Base, Counted
    <3>2. IsFiniteSet(Live')
      BY <1>1, LiveFinite, FS_RemoveElement
    <3>3. Live' = {}
      BY <3>1, <3>2, FS_EmptySet
    <3>4. Live' \cap MobileConns = {}
      BY <3>3
    <3>5. (Live \cap MobileConns)' = {}
      BY <3>4
    <3> QED
      BY <1>2, <2>1, <3>1, <3>5, FS_EmptySet, NoEntryFields DEF GoesNow, Counted, Absent
  <2>2. CASE Waits(c) \/ GoesOn(c)
    <3>1. Fewer(c)
      BY <2>2 DEF Waits, GoesOn
    <3>2. CASE c \in MobileConns
      BY <1>1, <1>2, <3>1, <3>2 DEF Fewer, Base, Counted, Absent
    <3>3. CASE c \notin MobileConns
      BY <1>1, <1>2, <3>1, <3>3, LiveFinite DEF Fewer, Base, Counted, Absent
    <3> QED
      BY <3>2, <3>3
  <2> QED
    BY <1>0, <2>1, <2>2
<1>9. HeldConnects'
  BY <1>5 DEF HeldConnects
<1> QED
  BY <1>7, <1>8, <1>9 DEF Base

LEMMA TimerBase ==
  ASSUME AbsentInv, NEW t \in timers, Fire(t) \/ Settle(t)
  PROVE  AbsentInv'
<1> USE DEF AbsentInv
<1>1. CASE Fire(t)
  <2>1. \A u \in timers' : u \in Timer
    <3>1. [t EXCEPT !.fired = TRUE] \in Timer
      BY DEF Base, Typed, Timer
    <3> QED
      BY <1>1, <3>1 DEF Fire, Base, Typed
  <2>2. UNCHANGED <<conn, entry, hold, told, shown, silent, blurred, made, member, news, moves>>
    BY <1>1 DEF Fire, heard, world
  <2>3. Typed'
    BY <2>1, <2>2 DEF Base, Typed
  <2> QED
    BY <2>2, <2>3 DEF Base, Counted, Live, HeldConnects, Absent
<1>2. CASE Settle(t)
  <2>0. SettleMakes(t) /\ conn' = conn
    BY <1>2, SettleEntry
  <2>1. entry \in Entry /\ entry.id \in Nat /\ entry.spaces \in SUBSET Spaces
    BY DEF Base, Typed, Entry
  <2>2. /\ entry' \in Entry /\ entry'.conns = entry.conns
        /\ entry'.present = entry.present \/ entry.conns = 0
        /\ entry'.mobileConns = entry.mobileConns \/ (entry.conns = 0 /\ entry'.mobileConns = 0)
    <3>1. CASE entry.conns = 0 /\ entry' = NoEntry(entry.id)
      BY <2>1, <3>1, NoEntryFields
    <3>2. CASE entry' = entry
      BY <2>1, <3>2
    <3>3. CASE entry' = [entry EXCEPT !.mobile = TRUE]
      BY <2>1, <3>3 DEF Entry
    <3> QED
      BY <2>0, <3>1, <3>2, <3>3 DEF SettleMakes
  <2>3. entry.conns = 0 => entry.mobileConns = 0
    <3>1. ASSUME entry.conns = 0 PROVE entry.mobileConns = 0
      <4>1. Live = {}
        BY <3>1, LiveFinite, FS_EmptySet DEF Base, Counted
      <4>2. Live \cap MobileConns = {}
        BY <4>1
      <4> QED
        BY <4>2, FS_EmptySet DEF Base, Counted
    <3> QED
      BY <3>1
  <2>4. hold' \in Holding /\ hold'.conn = {}
    BY <2>0, <2>1, FreeTyped, PublishingConn DEF SettleMakes
  <2>5. \A u \in timers' : u \in Timer
    BY <2>0 DEF SettleMakes, FiredTimers, Base, Typed
  <2>6. UNCHANGED <<told, shown, silent, blurred, made, member, news, moves>>
    BY <1>2 DEF Settle, heard, world
  <2>7. Typed'
    BY <2>0, <2>2, <2>4, <2>5, <2>6 DEF Base, Typed
  <2>8. Counted' /\ HeldConnects'
    BY <2>0, <2>2, <2>3, <2>4 DEF Base, Counted, Live, HeldConnects
  <2>9. Absent'
    BY <2>2, <2>3 DEF Absent
  <2> QED
    BY <2>7, <2>8, <2>9 DEF Base
<1> QED
  BY <1>1, <1>2

LEMMA NextBase ==
  ASSUME AbsentInv, [Next]_vars
  PROVE  AbsentInv'
<1>1. CASE Saying \/ Hearing \/ Moving
  <2>1. Typed' /\ HeldConnects' /\ Quiet
    BY <1>1, SayingTyped, HearingTyped, MovingTyped DEF AbsentInv
  <2>2. Counted'
    BY <2>1, QuietCounted DEF AbsentInv
  <2>3. entry'.conns = entry.conns /\ entry'.mobileConns = entry.mobileConns /\ entry'.present = entry.present
    BY <2>1 DEF AbsentInv, Base, Typed, Entry, Quiet
  <2> QED
    BY <2>1, <2>2, <2>3 DEF AbsentInv, Base, Absent
<1>2. CASE UNCHANGED vars
  BY <1>2 DEF vars, AbsentInv, Base, Absent, Typed, Counted, Live, HeldConnects
<1> QED
  BY <1>1, <1>2, Kinds, ConnectBase, DisconnectBase, TimerBase

LEMMA InitAbsent == Init => AbsentInv
<1> SUFFICES ASSUME Init PROVE Absent
  BY InitBase DEF AbsentInv
<1> QED
  BY NoEntryFields DEF Init, Absent

(***************************************************************************)
(* Grace timers                                                            *)
(***************************************************************************)

\* No timer was armed for an entry to come, nor with a count to come, and
\* one whose count still stands was armed since the last connection was made.
TimersKnown ==
    \A t \in timers :
        /\ t.id <= entry.id
        /\ entry.present /\ t.id = entry.id => t.generation <= entry.settling
        /\ StillArmed(t) => t.since = Ever

\* At most one timer's count still stands.
OneArmed == \A t, u \in timers : StillArmed(t) /\ StillArmed(u) => t = u

\* One does exactly while the entry has something to settle.
Unsettled == entry.present /\ (entry.conns = 0 \/ Due(entry))

ArmedWhileDue == Unsettled <=> \E t \in timers : StillArmed(t)

\* With no grace an entry has nothing to settle.
NoGraceNoWait == ~Grace => ~Unsettled

TimerInv == AbsentInv /\ TimersKnown /\ OneArmed /\ ArmedWhileDue /\ NoGraceNoWait

LEMMA TimerInit == Init => TimerInv
<1> SUFFICES ASSUME Init PROVE TimersKnown /\ OneArmed /\ ArmedWhileDue /\ NoGraceNoWait
  BY InitAbsent DEF TimerInv
<1>1. timers = {} /\ entry = NoEntry(0)
  BY DEF Init
<1>2. ~entry.present
  BY <1>1, NoEntryFields
<1> QED
  BY <1>1, <1>2 DEF TimersKnown, OneArmed, ArmedWhileDue, NoGraceNoWait, Unsettled

\* A new timer for the entry's count leaves no other whose count stands.
LEMMA NewlyArmed ==
  ASSUME TimerInv, entry' \in Entry, entry'.present, NEW n \in Nat, n = Ever', ArmedAs(entry', n),
         IF entry.present THEN entry'.id = entry.id /\ entry'.settling > entry.settling
         ELSE entry'.id = entry.id + 1,
         entry'.conns = 0 \/ Due(entry'), Grace
  PROVE  (TimersKnown /\ OneArmed /\ ArmedWhileDue /\ NoGraceNoWait)'
<1>1. PICK t \in Timer : /\ t.id = entry'.id /\ t.generation = entry'.settling /\ t.fired = FALSE
                         /\ t.since = n /\ timers' = FiredTimers \cup {t}
  BY DEF ArmedAs
<1>2. entry \in Entry /\ \A u \in timers : u \in Timer
  BY DEF TimerInv, AbsentInv, Base, Typed
<1>3. \A u \in FiredTimers : /\ u \in timers /\ u.id <= entry'.id
                             /\ u.id = entry'.id => u.generation < entry'.settling
  BY <1>2 DEF TimerInv, TimersKnown, FiredTimers, Entry, Timer
<1>4. \A u \in FiredTimers : ~StillArmed(u)'
  <2>1. \A u \in FiredTimers : u.id = entry'.id => u.generation # entry'.settling
    BY <1>2, <1>3 DEF Entry, Timer
  <2> QED
    BY <2>1 DEF StillArmed
<1>5. StillArmed(t)'
  BY <1>1 DEF StillArmed
<1>6. TimersKnown'
  <2>1. ASSUME NEW u \in timers'
        PROVE  /\ u.id <= entry'.id
               /\ entry'.present /\ u.id = entry'.id => u.generation <= entry'.settling
               /\ StillArmed(u)' => u.since = Ever'
    <3>1. CASE u = t
      BY <1>1, <3>1 DEF Timer, Entry
    <3>2. CASE u \in FiredTimers
      BY <1>2, <1>3, <1>4, <3>2 DEF Timer, Entry
    <3> QED
      BY <1>1, <3>1, <3>2
  <2> QED
    BY <2>1 DEF TimersKnown
<1>7. OneArmed'
  BY <1>1, <1>4 DEF OneArmed
<1>8. Unsettled'
  BY DEF Unsettled
<1> QED
  BY <1>1, <1>5, <1>6, <1>7, <1>8 DEF ArmedWhileDue, NoGraceNoWait

\* An entry made or counted anew with nothing to settle has no timer.
LEMMA NoneArmed ==
  ASSUME TimerInv, entry' \in Entry, timers' \subseteq timers,
         \/ ~entry'.present /\ entry'.id = entry.id
         \/ entry'.present /\ entry.present /\ entry'.id = entry.id /\ entry'.settling > entry.settling
         \/ entry'.present /\ ~entry.present /\ entry'.id = entry.id + 1,
         ~Unsettled'
  PROVE  (TimersKnown /\ OneArmed /\ ArmedWhileDue /\ NoGraceNoWait)'
<1>2. entry \in Entry /\ \A u \in timers : u \in Timer
  BY DEF TimerInv, AbsentInv, Base, Typed
<1>3. \A u \in timers' : /\ u.id <= entry'.id
                         /\ entry'.present /\ u.id = entry'.id => u.generation < entry'.settling
  BY <1>2 DEF TimerInv, TimersKnown, Entry, Timer
<1>4. \A u \in timers' : ~StillArmed(u)'
  <2>1. \A u \in timers' : entry'.present /\ u.id = entry'.id => u.generation # entry'.settling
    BY <1>2, <1>3 DEF Entry, Timer
  <2> QED
    BY <2>1 DEF StillArmed
<1>5. \A u \in timers' : entry'.present /\ u.id = entry'.id => u.generation <= entry'.settling
  BY <1>2, <1>3 DEF Entry, Timer
<1> QED
  BY <1>3, <1>4, <1>5 DEF TimersKnown, OneArmed, ArmedWhileDue, NoGraceNoWait

\* A step that leaves the entry's count and settling alone leaves the timers
\* that stand.
LEMMA TimersSame ==
  ASSUME TimerInv, Ever' = Ever, entry'.id = entry.id, entry'.present = entry.present,
         entry'.settling = entry.settling, timers' \subseteq timers,
         \A t \in timers : StillArmed(t) => t \in timers',
         Unsettled' <=> Unsettled
  PROVE  (TimersKnown /\ OneArmed /\ ArmedWhileDue /\ NoGraceNoWait)'
<1>1. \A t : StillArmed(t)' <=> StillArmed(t)
  BY DEF StillArmed
<1> QED
  BY <1>1 DEF TimerInv, TimersKnown, OneArmed, ArmedWhileDue, NoGraceNoWait

LEMMA QuietTimers ==
  ASSUME TimerInv, Quiet
  PROVE  (TimersKnown /\ OneArmed /\ ArmedWhileDue /\ NoGraceNoWait)'
<1>1. /\ entry'.id = entry.id /\ entry'.present = entry.present /\ entry'.settling = entry.settling
      /\ entry'.conns = entry.conns /\ entry'.mobileConns = entry.mobileConns /\ entry'.mobile = entry.mobile
  BY DEF TimerInv, AbsentInv, Base, Typed, Entry, Quiet
<1>2. Ever' = Ever
  BY LiveFinite DEF Quiet, Ever, EverLive
<1>3. Unsettled' <=> Unsettled
  BY <1>1 DEF Unsettled, Due, OnlyMobile
<1> QED
  BY <1>1, <1>2, <1>3, TimersSame DEF Quiet

LEMMA FireTimers ==
  ASSUME TimerInv, NEW t \in timers, Fire(t)
  PROVE  (TimersKnown /\ OneArmed /\ ArmedWhileDue /\ NoGraceNoWait)'
<1>1. PICK u \in Timer : /\ u = [t EXCEPT !.fired = TRUE] /\ u.id = t.id /\ u.generation = t.generation
                         /\ u.since = t.since
  <2>1. t \in Timer
    BY DEF TimerInv, AbsentInv, Base, Typed
  <2>2. [t EXCEPT !.fired = TRUE] \in Timer /\ [t EXCEPT !.fired = TRUE].id = t.id
        /\ [t EXCEPT !.fired = TRUE].generation = t.generation /\ [t EXCEPT !.fired = TRUE].since = t.since
    BY <2>1 DEF Timer
  <2> QED
    BY <2>2
<1>2. timers' = (timers \ {t}) \cup {u} /\ entry' = entry /\ conn' = conn
  BY <1>1 DEF Fire
<1>3. Ever' = Ever /\ (Unsettled' <=> Unsettled) /\ \A x : StillArmed(x)' <=> StillArmed(x)
  BY <1>2 DEF Ever, Unsettled, Due, OnlyMobile, StillArmed
<1>4. StillArmed(u) <=> StillArmed(t)
  BY <1>1 DEF StillArmed
<1>5. TimersKnown'
  BY <1>1, <1>2, <1>3, <1>4 DEF TimerInv, TimersKnown
<1>6. OneArmed'
  BY <1>2, <1>3, <1>4 DEF TimerInv, OneArmed
<1>7. ArmedWhileDue' /\ NoGraceNoWait'
  BY <1>2, <1>3, <1>4 DEF TimerInv, ArmedWhileDue, NoGraceNoWait
<1> QED
  BY <1>5, <1>6, <1>7

LEMMA SettleTimers ==
  ASSUME TimerInv, NEW t \in timers, Settle(t)
  PROVE  (TimersKnown /\ OneArmed /\ ArmedWhileDue /\ NoGraceNoWait)'
<1>0. SettleMakes(t) /\ t.fired /\ conn' = conn
  BY SettleEntry DEF TimerInv, AbsentInv
<1>1. entry \in Entry /\ entry.id \in Nat /\ Ever' = Ever
  BY <1>0 DEF TimerInv, AbsentInv, Base, Typed, Entry, Ever
<1>2. CASE StillArmed(t) /\ entry.conns = 0 /\ entry' = NoEntry(entry.id) /\ timers' = FiredTimers \ {t}
  <2>1. entry' \in Entry /\ ~entry'.present /\ entry'.id = entry.id
    BY <1>1, <1>2, NoEntryFields
  <2>2. ~Unsettled'
    BY <2>1 DEF Unsettled
  <2> QED
    BY <1>2, <2>1, <2>2, NoneArmed DEF FiredTimers
<1>3. CASE ~StillArmed(t) /\ entry' = entry /\ timers' = timers \ {t}
  <2>1. Unsettled' <=> Unsettled
    BY <1>3 DEF Unsettled, Due, OnlyMobile
  <2> QED
    BY <1>1, <1>3, <2>1, TimersSame
<1>4. ~(StillArmed(t) /\ entry.conns # 0 /\ ~Due(entry))
  BY DEF TimerInv, ArmedWhileDue, Unsettled
<1>5. CASE /\ StillArmed(t) /\ entry.conns # 0 /\ Due(entry)
           /\ entry' = [entry EXCEPT !.mobile = TRUE] /\ timers' = timers \ {t}
  <2>1. /\ entry'.id = entry.id /\ entry'.present = entry.present /\ entry'.settling = entry.settling
        /\ entry'.conns = entry.conns /\ entry'.mobile = TRUE
    BY <1>1, <1>5 DEF Entry
  <2>2. ~Unsettled'
    BY <1>5, <2>1 DEF Unsettled, Due
  <2>3. \A u : StillArmed(u)' <=> StillArmed(u)
    BY <2>1 DEF StillArmed
  <2>4. \A u \in timers' : ~StillArmed(u)
    BY <1>5 DEF TimerInv, OneArmed
  <2> QED
    BY <1>1, <1>5, <2>1, <2>2, <2>3, <2>4
    DEF TimerInv, TimersKnown, OneArmed, ArmedWhileDue, NoGraceNoWait
<1> QED
  BY <1>0, <1>2, <1>3, <1>4, <1>5 DEF SettleMakes

\* No more are mobile than there are.
LEMMA MobileCounted ==
  ASSUME Base
  PROVE  /\ entry.conns \in Nat /\ entry.mobileConns \in Nat /\ entry.mobileConns <= entry.conns
         /\ entry.mobileConns = entry.conns => Live \subseteq MobileConns
<1>1. Live \cap MobileConns \subseteq Live
  OBVIOUS
<1>2. Cardinality(Live \cap MobileConns) <= Cardinality(Live)
  BY <1>1, LiveFinite, FS_Subset
<1>3. ASSUME Cardinality(Live \cap MobileConns) = Cardinality(Live) PROVE Live \subseteq MobileConns
  <2>1. Live \cap MobileConns = Live
    BY <1>1, <1>3, LiveFinite, FS_Subset
  <2> QED
    BY <2>1
<1> QED
  BY <1>2, <1>3, LiveFinite DEF Base, Counted

LEMMA ConnectTimers ==
  ASSUME TimerInv, NEW c \in Conns, Connect(c)
  PROVE  (TimersKnown /\ OneArmed /\ ArmedWhileDue /\ NoGraceNoWait)'
<1>1. ConnectMakes(c) /\ Ever' = Ever + 1 /\ Ever + 1 \in Nat
  BY ConnectEntry, ConnectLive, LiveFinite DEF TimerInv, AbsentInv
<1>2. entry'.conns # 0
  BY <1>1 DEF ConnectMakes, TimerInv, AbsentInv, Base, Typed, Entry
<1>3. CASE Due(entry') /\ Grace
  BY <1>1, <1>3, NewlyArmed DEF ConnectMakes
<1>4. CASE ~Due(entry')
  <2>1. ~Unsettled'
    BY <1>2, <1>4 DEF Unsettled, Due, OnlyMobile
  <2>2. timers' \subseteq timers
    BY <1>1, <1>4 DEF ConnectMakes, FiredTimers
  <2> QED
    BY <1>1, <2>1, <2>2, NoneArmed DEF ConnectMakes
<1>5. CASE Due(entry') /\ ~Grace
  <2>1. entry.conns \in Nat /\ entry.mobileConns \in Nat /\ entry.mobileConns <= entry.conns
    BY MobileCounted DEF TimerInv, AbsentInv
  <2>2. entry'.mobileConns = entry'.conns
    BY <1>5 DEF Due, OnlyMobile
  <2>3. c \in MobileConns /\ entry.mobileConns = entry.conns
    BY <1>1, <2>1, <2>2 DEF ConnectMakes
  <2>4. entry.present /\ ~entry.mobile
    BY <1>1, <1>5, <2>3 DEF ConnectMakes
  <2>5. Unsettled
    BY <2>3, <2>4 DEF Unsettled, Due, OnlyMobile
  <2> QED
    BY <1>5, <2>5 DEF TimerInv, NoGraceNoWait
<1> QED
  BY <1>3, <1>4, <1>5

LEMMA DisconnectTimers ==
  ASSUME TimerInv, NEW c \in Conns, NEW now \in BOOLEAN, Disconnect(c, now)
  PROVE  (TimersKnown /\ OneArmed /\ ArmedWhileDue /\ NoGraceNoWait)'
<1>0. Base /\ Absent /\ entry \in Entry /\ entry.id \in Nat /\ entry.conns \in Nat /\ entry.settling \in Nat
  BY DEF TimerInv, AbsentInv, Base, Typed, Entry
<1>1. GoesNow \/ Waits(c) \/ GoesOn(c)
  BY <1>0, DisconnectEntry
<1>2. c \in Live /\ Ever' = Ever
  BY <1>0, DisconnectLive
<1>3. entry.present
  <2>1. Cardinality(Live) # 0
    BY <1>2, LiveFinite, FS_EmptySet
  <2> QED
    BY <1>0, <2>1 DEF Base, Counted, Absent
<1>4. CASE GoesNow
  <2>1. entry' \in Entry /\ ~entry'.present /\ entry'.id = entry.id
    BY <1>0, <1>4, NoEntryFields DEF GoesNow
  <2>2. ~Unsettled' /\ timers' \subseteq timers
    BY <1>4, <2>1 DEF Unsettled, GoesNow, FiredTimers
  <2> QED
    BY <2>1, <2>2, NoneArmed
<1>5. CASE Waits(c)
  <2>1. /\ entry' \in Entry /\ entry'.present /\ entry'.id = entry.id
        /\ entry'.settling > entry.settling /\ (entry'.conns = 0 \/ Due(entry'))
        /\ ArmedAs(entry', Ever) /\ Grace
    BY <1>0, <1>3, <1>5 DEF Waits, Fewer
  <2> QED
    BY <1>2, <1>3, <2>1, NewlyArmed, LiveFinite
<1>6. CASE GoesOn(c)
  <2>1. /\ entry'.id = entry.id /\ entry'.present = entry.present /\ entry'.settling = entry.settling
        /\ entry'.conns = entry.conns - 1 /\ entry'.conns > 0 /\ ~Due(entry') /\ timers' = timers
        /\ c \in MobileConns => entry'.mobileConns = entry.mobileConns - 1
        /\ entry'.mobile = entry.mobile \/ ~Grace
    BY <1>6 DEF GoesOn, Fewer
  <2>2. ~Unsettled'
    BY <2>1 DEF Unsettled, Due, OnlyMobile
  <2>3. ~Unsettled
    <3> SUFFICES ASSUME Unsettled PROVE FALSE
      OBVIOUS
    <3>1. entry.conns # 0
      BY <1>0, <2>1
    <3>2. Due(entry)
      BY <3>1 DEF Unsettled
    <3>3. c \in MobileConns
      BY <1>0, <1>2, <3>2, MobileCounted DEF Due, OnlyMobile
    <3>4. entry'.mobileConns = entry'.conns
      BY <2>1, <3>2, <3>3 DEF Due, OnlyMobile
    <3>5. CASE entry'.mobile = entry.mobile
      BY <2>1, <3>2, <3>4, <3>5 DEF Due, OnlyMobile
    <3>6. CASE ~Grace
      BY <3>6 DEF TimerInv, NoGraceNoWait
    <3> QED
      BY <2>1, <3>5, <3>6
  <2> QED
    BY <1>2, <2>1, <2>2, <2>3, TimersSame
<1> QED
  BY <1>1, <1>4, <1>5, <1>6

LEMMA NextTimers ==
  ASSUME TimerInv, [Next]_vars
  PROVE  TimerInv'
<1>0. AbsentInv'
  BY NextBase DEF TimerInv
<1> SUFFICES (TimersKnown /\ OneArmed /\ ArmedWhileDue /\ NoGraceNoWait)'
  BY <1>0 DEF TimerInv
<1>1. CASE Saying \/ Hearing \/ Moving
  <2>1. Quiet
    BY <1>1, SayingTyped, HearingTyped, MovingTyped DEF TimerInv, AbsentInv
  <2> QED
    BY <2>1, QuietTimers
<1>2. CASE UNCHANGED vars
  BY <1>2 DEF vars, TimerInv, TimersKnown, OneArmed, ArmedWhileDue, NoGraceNoWait, Unsettled, Due,
              OnlyMobile, StillArmed, Ever
<1> QED
  BY <1>1, <1>2, Kinds, FireTimers, SettleTimers, ConnectTimers, DisconnectTimers

LEMMA Timers == Spec => []TimerInv
<1> QED
  BY TimerInit, NextTimers, PTL DEF Spec

\* For every set of connections, with a grace or without: an entry with
\* nobody left, or to be moved to mobile, has one timer that will still find
\* it so, and no other has one (presence.go armSettle, stopSettle).
THEOREM EntriesSettle == Spec => []EntryIsSettled
<1>1. TimerInv => EntryIsSettled
  BY DEF TimerInv, ArmedWhileDue, Unsettled, Due, EntryIsSettled
<1> QED
  BY <1>1, Timers, PTL

\* For every set of connections: a timer takes the person offline only if no
\* connection was made since it was armed (presence.go settleNow).
THEOREM GraceKept == Spec => GraceIsWhole
<1>1. ASSUME TimerInv, [Next]_vars
      PROVE  [\A t \in timers \ timers' :
                 t.fired /\ entry.present /\ ~entry'.present => t.since = Ever]_vars
  <2> SUFFICES ASSUME NEW t \in timers, t \notin timers', t.fired, entry.present, ~entry'.present
               PROVE  t.since = Ever
    OBVIOUS
  <2>0. Base /\ Absent /\ entry \in Entry
    BY <1>1 DEF TimerInv, AbsentInv, Base, Typed
  <2>1. CASE Saying \/ Hearing \/ Moving
    <3>1. Quiet
      BY <2>0, <2>1, SayingTyped, HearingTyped, MovingTyped
    <3> QED
      BY <3>1 DEF Quiet
  <2>2. CASE UNCHANGED vars
    BY <2>2 DEF vars
  <2>3. ASSUME NEW c \in Conns, Connect(c) PROVE FALSE
    BY <2>0, <2>3, ConnectEntry DEF ConnectMakes
  <2>4. ASSUME NEW c \in Conns, NEW now \in BOOLEAN, Disconnect(c, now) PROVE FALSE
    <3>1. GoesNow \/ Waits(c) \/ GoesOn(c)
      BY <2>0, <2>4, DisconnectEntry
    <3> QED
      BY <3>1 DEF GoesNow, Waits, GoesOn, ArmedAs, FiredTimers
  <2>5. ASSUME NEW u \in timers, Fire(u) PROVE FALSE
    BY <2>5 DEF Fire
  <2>6. ASSUME NEW u \in timers, Settle(u) PROVE t.since = Ever
    <3>1. SettleMakes(u)
      BY <2>0, <2>6, SettleEntry
    <3>2. entry' = entry => FALSE
      BY Zenon
    <3>3. t = u /\ StillArmed(u)
      <4>1. t = u
        BY <3>1 DEF SettleMakes, FiredTimers
      <4>2. ~StillArmed(u) => entry' = entry
        BY <3>1 DEF SettleMakes
      <4> QED
        BY <3>2, <4>1, <4>2
    <3> QED
      BY <1>1, <3>3 DEF TimerInv, TimersKnown
  <2> QED
    BY <1>1, <2>1, <2>2, <2>3, <2>4, <2>5, <2>6, Kinds
<1> QED
  BY <1>1, Timers, PTL DEF Spec, GraceIsWhole

(***************************************************************************)
(* What the spaces were told                                               *)
(***************************************************************************)
Shown(s) == told[s].online = TRUE /\ told[s].mobile = entry.mobile

Left(s) == told[s].online => s \in silent

\* Each space knows what the table says, but those still to be told.
OnlineTold(S) ==
    \A s \in Spaces : (s \in entry.spaces \ S => Shown(s)) /\ (s \notin entry.spaces => Left(s))

\* The person has gone; the spaces in S do not know it yet.
OfflineTold(S) == entry.spaces = {} /\ \A s \in Spaces \ S : Left(s)

\* While a connection is made: the spaces the person left are still to be
\* told, then those it added, or all of them.
ConnectTold ==
    /\ hold.online = FALSE /\ hold.say \cap entry.spaces = {}
    /\ hold.all \/ \A s \in entry.spaces \ hold.added : Shown(s)
    /\ \A s \in Spaces : s \notin entry.spaces \cup hold.say => Left(s)

ToldInv ==
    /\ hold.op = "free" => hold.say = {} /\ OnlineTold({})
    /\ hold.op = "publish" /\ hold.online => OnlineTold(hold.say)
    /\ hold.op = "publish" /\ ~hold.online => OfflineTold(hold.say)
    /\ hold.op = "connect" => ConnectTold

LEMMA PublishingFields ==
  ASSUME NEW S, NEW b \in BOOLEAN
  PROVE  /\ Free.op = "free" /\ Free.say = {}
         /\ S = {} => Publishing(S, b) = Free
         /\ S # {} => /\ Publishing(S, b).op = "publish" /\ Publishing(S, b).say = S
                      /\ Publishing(S, b).online = b
BY DEF Publishing, Held, Free

\* Online is told where the person is counted; offline where nobody counts
\* them.
LEMMA OnlinePublished ==
  ASSUME NEW S, hold' = Publishing(S, TRUE), OnlineTold(S)'
  PROVE  ToldInv'
<1>1. CASE S = {}
  BY <1>1, PublishingFields DEF ToldInv
<1>2. CASE S # {}
  BY <1>2, PublishingFields DEF ToldInv
<1> QED
  BY <1>1, <1>2

LEMMA OfflinePublished ==
  ASSUME NEW S, hold' = Publishing(S, FALSE), OfflineTold(S)'
  PROVE  ToldInv'
<1>1. CASE S = {}
  BY <1>1, PublishingFields DEF ToldInv, OfflineTold, OnlineTold
<1>2. CASE S # {}
  BY <1>2, PublishingFields DEF ToldInv
<1> QED
  BY <1>1, <1>2

LEMMA FreePublished ==
  ASSUME hold' = Free, OnlineTold({})'
  PROVE  ToldInv'
BY PublishingFields DEF ToldInv

LEMMA InitTold == Init => ToldInv
<1> SUFFICES ASSUME Init PROVE ToldInv
  OBVIOUS
<1>1. hold = Free /\ entry = NoEntry(0) /\ \A s \in Spaces : told[s].online = FALSE
  BY DEF Init
<1>2. entry.spaces = {}
  BY <1>1, NoEntryFields
<1> QED
  BY <1>1, <1>2, PublishingFields DEF ToldInv, OnlineTold, Left

LEMMA AnnounceTold ==
  ASSUME Typed, ToldInv, NEW s \in Spaces, Announce(s)
  PROVE  ToldInv' /\ (~hold.online => s \notin entry.spaces)
<1>1. /\ s \in hold.say /\ entry' = entry /\ hold.say \in SUBSET Spaces /\ hold.online \in BOOLEAN
      /\ entry.mobile \in BOOLEAN /\ hold \in Holding
      /\ \A x \in Spaces : x # s => told'[x] = told[x] /\ (x \in silent' <=> x \in silent)
  BY DEF Announce, Typed, Holding, Entry
<1>2. /\ told'[s].online = hold.online
      /\ hold.online => told'[s].mobile = entry.mobile /\ (s \notin entry.spaces => s \in silent')
  BY <1>1 DEF Announce, Typed
<1>3. hold.op # "free" /\ hold.op \in {"publish", "connect"}
  BY <1>1 DEF ToldInv, Holding
<1>4. CASE hold.op = "publish" /\ hold.online
  <2>1. hold' = Publishing(hold.say \ {s}, TRUE)
    BY <1>1, <1>4 DEF Announce
  <2>2. PICK S \in SUBSET Spaces : S = hold.say \ {s}
    BY <1>1
  <2>3. OnlineTold(hold.say)
    BY <1>4 DEF ToldInv
  <2>4. OnlineTold(S)'
    BY <1>1, <1>2, <1>4, <2>2, <2>3 DEF OnlineTold, Shown, Left
  <2> QED
    BY <1>4, <2>1, <2>2, <2>4, OnlinePublished
<1>5. CASE hold.op = "publish" /\ ~hold.online
  <2>1. hold' = Publishing(hold.say \ {s}, FALSE)
    BY <1>1, <1>5 DEF Announce
  <2>2. PICK S \in SUBSET Spaces : S = hold.say \ {s}
    BY <1>1
  <2>3. OfflineTold(hold.say)
    BY <1>5 DEF ToldInv
  <2>4. OfflineTold(S)'
    BY <1>1, <1>2, <1>5, <2>2, <2>3 DEF OfflineTold, Left
  <2> QED
    BY <2>1, <2>2, <2>3, <2>4, OfflinePublished DEF OfflineTold
<1>6. CASE hold.op = "connect"
  <2>1. ConnectTold
    BY <1>6 DEF ToldInv
  <2>2. /\ hold'.op = "connect" /\ hold'.online = hold.online /\ hold'.say = hold.say \ {s}
        /\ hold'.added = hold.added /\ hold'.all = hold.all
    BY <1>1, <1>6 DEF Announce, Holding
  <2>3. s \notin entry.spaces
    BY <1>1, <2>1 DEF ConnectTold
  <2>5. hold'.all \/ \A x \in entry'.spaces \ hold'.added : Shown(x)'
    <3>1. entry.spaces \in SUBSET Spaces
      BY DEF Typed, Entry
    <3> QED
      BY <1>1, <2>1, <2>2, <2>3, <3>1 DEF ConnectTold, Shown
  <2>4. ConnectTold'
    BY <1>1, <1>2, <2>1, <2>2, <2>3, <2>5 DEF ConnectTold, Left
  <2> QED
    BY <2>2, <2>3, <2>4 DEF ToldInv
<1> QED
  BY <1>3, <1>4, <1>5, <1>6

\* Steps that touch neither what was told nor who is counted where.
LEMMA SameTold ==
  ASSUME ToldInv, UNCHANGED <<told, silent, hold>>,
         entry'.spaces = entry.spaces, entry'.mobile = entry.mobile
  PROVE  ToldInv'
BY DEF ToldInv, OnlineTold, OfflineTold, ConnectTold, Shown, Left

\* With the lock free every space knows what the table says.
LEMMA FreeTold ==
  ASSUME ToldInv, hold.op = "free"
  PROVE  /\ \A s \in Spaces : s \in entry.spaces => Shown(s)
         /\ \A s \in Spaces : s \notin entry.spaces => Left(s)
BY DEF ToldInv, OnlineTold

LEMMA TellConnectedTold ==
  ASSUME Typed, ToldInv, TellConnected
  PROVE  ToldInv'
<1>1. /\ hold.op = "connect" /\ hold.say = {} /\ UNCHANGED <<entry, told, silent>>
      /\ entry.spaces \in SUBSET Spaces
  BY DEF TellConnected, heard, Typed, Entry
<1>2. ConnectTold
  BY <1>1 DEF ToldInv
<1>3. PICK S : /\ hold' = Publishing(S, TRUE)
               /\ S = entry.spaces \/ (~hold.all /\ S = hold.added \cap entry.spaces)
  BY DEF TellConnected
<1>4. \A s \in entry.spaces \ S : Shown(s)
  BY <1>2, <1>3 DEF ConnectTold
<1>5. OnlineTold(S)'
  BY <1>1, <1>2, <1>4 DEF ConnectTold, OnlineTold, Shown, Left
<1> QED
  BY <1>3, <1>5, OnlinePublished

LEMMA DndTold ==
  ASSUME Typed, ToldInv, DndChanged
  PROVE  ToldInv'
<1>1. PICK S : S = entry.spaces
  OBVIOUS
<1>2. hold.op = "free" /\ hold' = Publishing(S, TRUE) /\ UNCHANGED <<entry, told, silent>>
  BY <1>1 DEF DndChanged, heard
<1>3. OnlineTold(S)'
  BY <1>1, <1>2, FreeTold DEF OnlineTold, Left
<1> QED
  BY <1>2, <1>3, OnlinePublished

LEMMA HearingTold ==
  ASSUME Typed, ToldInv, NEW c \in Conns, HearJoined(c) \/ HearRemoved(c)
  PROVE  ToldInv'
<1>1. PICK s : s = Head(conn[c].inbox).space
  OBVIOUS
<1>2. entry \in Entry /\ entry.spaces \in SUBSET Spaces
  BY DEF Typed, Entry
<1>3. CASE HearJoined(c)
  <2>1. PICK S : S = {s} \ entry.spaces
    OBVIOUS
  <2>2. /\ hold.op = "free" /\ hold' = Publishing(S, TRUE) /\ told' = told /\ silent' = silent
        /\ entry' = [entry EXCEPT !.spaces = @ \cup {s}]
    BY <1>1, <1>3, <2>1 DEF HearJoined, heard
  <2>3. entry'.spaces = entry.spaces \cup {s} /\ entry'.mobile = entry.mobile
    BY <1>2, <2>2 DEF Entry
  <2>4. OnlineTold(S)'
    BY <2>1, <2>2, <2>3, FreeTold DEF OnlineTold, Shown, Left
  <2> QED
    BY <2>2, <2>4, OnlinePublished
<1>4. CASE HearRemoved(c)
  <2>1. /\ hold' = hold /\ told' = told /\ entry' = [entry EXCEPT !.spaces = @ \ {s}]
        /\ silent' = IF told[s].online THEN silent \cup {s} ELSE silent
    BY <1>1, <1>4 DEF HearRemoved, heard
  <2>2. entry'.spaces = entry.spaces \ {s} /\ entry'.mobile = entry.mobile
    BY <1>2, <2>1 DEF Entry
  <2>3. \A x \in Spaces : Left(x) \/ x = s => Left(x)'
    BY <2>1 DEF Left
  <2>4. \A x : Shown(x) => Shown(x)'
    BY <2>1, <2>2 DEF Shown
  <2>5. ASSUME NEW S, OnlineTold(S) PROVE OnlineTold(S)'
    BY <2>2, <2>3, <2>4, <2>5 DEF OnlineTold
  <2>6. ASSUME NEW S, OfflineTold(S) PROVE OfflineTold(S)'
    BY <2>2, <2>3, <2>6 DEF OfflineTold
  <2>7. ConnectTold => ConnectTold'
    BY <2>1, <2>2, <2>3, <2>4 DEF ConnectTold
  <2>8. CASE hold.op = "free"
    BY <2>1, <2>5, <2>8 DEF ToldInv
  <2>9. CASE hold.op # "free"
    <3>1. PICK S : S = hold.say
      OBVIOUS
    <3>2. S = hold'.say
      BY <2>1, <3>1
    <3>3. OnlineTold(S) => OnlineTold(S)'
      BY <2>5
    <3>4. OfflineTold(S) => OfflineTold(S)'
      BY <2>6
    <3> QED
      BY <2>1, <2>7, <2>9, <3>1, <3>2, <3>3, <3>4 DEF ToldInv
  <2> QED
    BY <2>8, <2>9
<1> QED
  BY <1>3, <1>4

LEMMA SettleTold ==
  ASSUME Base, ToldInv, NEW t \in timers, Settle(t)
  PROVE  ToldInv'
<1>1. SettleMakes(t) /\ hold.op = "free" /\ told' = told /\ silent' = silent
  BY SettleEntry
<1>2. PICK S : S = entry.spaces
  OBVIOUS
<1>3. entry \in Entry /\ entry.id \in Nat
  BY DEF Base, Typed, Entry
<1>4. CASE entry' = NoEntry(entry.id) /\ hold' = Publishing(entry.spaces, FALSE)
  <2>1. entry'.spaces = {}
    BY <1>3, <1>4, NoEntryFields
  <2>2. OfflineTold(S)'
    BY <1>1, <1>2, <2>1, FreeTold DEF OfflineTold, Left
  <2> QED
    BY <1>2, <1>4, <2>2, OfflinePublished
<1>5. CASE entry' = entry /\ hold' = Free
  <2>1. OnlineTold({})'
    BY <1>1, <1>5, FreeTold DEF OnlineTold, Left, Shown
  <2> QED
    BY <1>5, <2>1, FreePublished
<1>6. CASE entry' = [entry EXCEPT !.mobile = TRUE] /\ hold' = Publishing(entry.spaces, TRUE)
  <2>1. entry'.spaces = entry.spaces
    BY <1>3, <1>6 DEF Entry
  <2>2. OnlineTold(S)'
    BY <1>1, <1>2, <2>1, FreeTold DEF OnlineTold, Left
  <2> QED
    BY <1>2, <1>6, <2>2, OnlinePublished
<1> QED
  BY <1>1, <1>4, <1>5, <1>6 DEF SettleMakes

LEMMA DisconnectTold ==
  ASSUME Base, ToldInv, NEW c \in Conns, NEW now \in BOOLEAN, Disconnect(c, now)
  PROVE  ToldInv'
<1>1. GoesNow \/ Waits(c) \/ GoesOn(c)
  BY DisconnectEntry
<1>2. hold.op = "free" /\ told' = told /\ silent' = silent
  BY DEF Disconnect, heard
<1>3. entry \in Entry /\ entry.id \in Nat
  BY DEF Base, Typed, Entry
<1>4. PICK S : S = entry.spaces
  OBVIOUS
<1>5. CASE GoesNow
  <2>1. entry'.spaces = {} /\ hold' = Publishing(S, FALSE)
    BY <1>3, <1>4, <1>5, NoEntryFields DEF GoesNow
  <2>2. OfflineTold(S)'
    BY <1>2, <1>4, <2>1, FreeTold DEF OfflineTold, Left
  <2> QED
    BY <2>1, <2>2, OfflinePublished
<1>6. CASE entry'.mobile = entry.mobile /\ entry'.spaces = entry.spaces /\ hold' = Free
  <2>1. OnlineTold({})'
    BY <1>2, <1>6, FreeTold DEF OnlineTold, Left, Shown
  <2> QED
    BY <1>6, <2>1, FreePublished
<1>7. CASE entry'.spaces = entry.spaces /\ hold' = Publishing(entry.spaces, TRUE)
  <2>1. OnlineTold(S)'
    BY <1>2, <1>4, <1>7, FreeTold DEF OnlineTold, Left
  <2> QED
    BY <1>4, <1>7, <2>1, OnlinePublished
<1> QED
  BY <1>1, <1>5, <1>6, <1>7 DEF Waits, GoesOn, Fewer

LEMMA ConnectsTold ==
  ASSUME AbsentInv, ToldInv, NEW c \in Conns, Connect(c)
  PROVE  ToldInv'
<1>1. ConnectMakes(c) /\ hold.op = "free" /\ told' = told /\ silent' = silent
  BY ConnectEntry DEF AbsentInv, Connect, heard
<1>2. entry.spaces \in SUBSET Spaces /\ Kept(c) \subseteq Found(c).spaces
  BY DEF AbsentInv, Base, Typed, Entry, Kept
<1>3. Kept(c) \subseteq entry.spaces /\ (~entry.present => Kept(c) = {})
  BY <1>2, FoundFields DEF AbsentInv, Base
<1>4. /\ hold'.op = "connect" /\ hold'.online = FALSE
      /\ entry'.spaces = Kept(c) \cup conn[c].spaces
      /\ hold'.say = entry.spaces \ entry'.spaces /\ hold'.added = conn[c].spaces \ Kept(c)
      /\ hold'.all \/ ~entry.present \/ entry'.mobile = entry.mobile
  BY <1>1 DEF ConnectMakes, Dropped, Added
<1>5. hold'.all \/ \A s \in entry'.spaces \ hold'.added : Shown(s)'
  <2>1. \A s \in entry'.spaces \ hold'.added : s \in Kept(c)
    BY <1>4
  <2>2. \A s \in Kept(c) : Shown(s)
    BY <1>1, <1>2, <1>3, FreeTold
  <2> QED
    BY <1>1, <1>3, <1>4, <2>1, <2>2 DEF Shown
<1>6. \A s \in Spaces : s \notin entry'.spaces \cup hold'.say => Left(s)'
  BY <1>1, <1>4, FreeTold DEF Left
<1> QED
  BY <1>4, <1>5, <1>6 DEF ToldInv, ConnectTold

LEMMA NextTold ==
  ASSUME AbsentInv, ToldInv, [Next]_vars
  PROVE  ToldInv'
<1>0. Base /\ Typed
  BY DEF AbsentInv, Base
<1>1. CASE Saying
  BY <1>0, <1>1, AnnounceTold, TellConnectedTold, DndTold DEF Saying
<1>2. ASSUME NEW c \in Conns, ListSpaces(c) \/ Subscribe(c) \/ AddTopic(c) PROVE ToldInv'
  BY <1>2, SameTold DEF ListSpaces, Subscribe, AddTopic, heard
<1>3. CASE Hearing
  BY <1>0, <1>2, <1>3, HearingTold DEF Hearing
<1>4. CASE Moving
  <2>1. UNCHANGED <<told, silent, hold, entry>>
    BY <1>4 DEF Moving, Committing, Join, Leave, CreateSpace, Committed, Publish, heard
  <2> QED
    BY <2>1, SameTold
<1>5. ASSUME NEW t \in timers, Fire(t) PROVE ToldInv'
  BY <1>5, SameTold DEF Fire, heard
<1>6. CASE UNCHANGED vars
  BY <1>6, SameTold DEF vars
<1> QED
  BY <1>0, <1>1, <1>3, <1>4, <1>5, <1>6, Kinds, SettleTold, ConnectsTold, DisconnectTold

LEMMA Tellings == Spec => [](AbsentInv /\ ToldInv)
<1>1. Init => AbsentInv /\ ToldInv
  BY InitAbsent, InitTold
<1>2. AbsentInv /\ ToldInv /\ [Next]_vars => (AbsentInv /\ ToldInv)'
  BY NextBase, NextTold
<1> QED
  BY <1>1, <1>2, PTL DEF Spec

\* For every set of spaces and connections, with a grace or without: with no
\* announcement under way each space was last told what the table says, a
\* space left excepted (presence.go hold; gateway.go).
THEOREM ToldTruly == Spec => []ToldAsCounted
<1>1. ASSUME AbsentInv, ToldInv PROVE ToldAsCounted
  <2> SUFFICES ASSUME hold.op = "free", NEW s \in Spaces
               PROVE  IF s \in entry.spaces THEN told[s] = [online |-> TRUE, mobile |-> entry.mobile]
                      ELSE told[s].online => s \in silent
    BY DEF ToldAsCounted
  <2>1. (s \in entry.spaces => Shown(s)) /\ (s \notin entry.spaces => Left(s))
    BY <1>1, FreeTold
  <2>2. told[s] \in Telling
    BY <1>1 DEF AbsentInv, Base, Typed
  <2> QED
    BY <2>1, <2>2 DEF Shown, Left, Telling
<1> QED
  BY <1>1, Tellings, PTL

\* For every set of spaces and connections: nobody is told offline in a space
\* they are counted in (gateway.go connectPresence, presence.go connect).
THEOREM NeverStale == Spec => NoStaleOffline
<1>1. ASSUME AbsentInv, ToldInv, [Next]_vars
      PROVE  [\A s \in Spaces : told[s].online /\ ~told'[s].online => s \notin entry.spaces]_vars
  <2>0. Base /\ Typed
    BY <1>1 DEF AbsentInv, Base
  <2> SUFFICES ASSUME NEW s \in Spaces, told[s].online, ~told'[s].online PROVE s \notin entry.spaces
    OBVIOUS
  <2>1. CASE \E x \in Spaces : Announce(x)
    <3> PICK x \in Spaces : Announce(x)
      BY <2>1
    <3>1. x = s /\ told'[x].online = hold.online
      BY <2>0 DEF Announce, Typed
    <3> QED
      BY <1>1, <2>0, <3>1, AnnounceTold
  <2>2. CASE told' = told
    BY <2>2
  <2> QED
    BY <1>1, <2>1, <2>2 DEF Next, Join, Leave, CreateSpace, Committed, Publish, Fire, Settle, ListSpaces,
       Subscribe, Connect, AddTopic, HearJoined, HearRemoved, Disconnect, TellConnected, DndChanged,
       heard, vars
<1> QED
  BY <1>1, Tellings, PTL DEF Spec, NoStaleOffline

(***************************************************************************)
(* Counted as a member, once the events are read                           *)
(***************************************************************************)

\* Events about a space that a connection has not read, and that the last of
\* them tells the truth.
About(q, s) == \E i \in 1 .. Len(q) : q[i].space = s

LastSays(q, s, b) ==
    \A i \in 1 .. Len(q) :
        q[i].space = s /\ (\A j \in 1 .. Len(q) : j > i => q[j].space # s) => (q[i].joined <=> b)

\* A connection knows the truth of a space, or will when it has read its
\* events: it hears the space exactly if the person is a member.
Knows(c, s) ==
    /\ LastSays(conn[c].inbox, s, s \in member)
    /\ About(conn[c].inbox, s) \/ (s \in conn[c].spaces <=> s \in member)

\* Of a space not blurred, at most the last move is not published; ...
OnePending(s) ==
    \A n, m \in news : n.space = s /\ m.space = s => n = m /\ (n.joined <=> s \in member)

\* ... where none is, each connection knows the truth ...
Reads(c, s) ==
    conn[c].phase = "listed" \/ Subscribed(c) => Unpublished(s) \/ Knows(c, s)

\* ... and the entry has it, if none has anything left to read.
EntryReads(s) ==
    \/ Live = {} \/ Unpublished(s)
    \/ \E c \in Live : About(conn[c].inbox, s)
    \/ s \in entry.spaces <=> s \in member

\* A space they are counted in is heard by a connection that a removal will
\* reach, unless they have just joined it.
Pending(s, b) == \E n \in news : n.space = s /\ n.joined = b
EntryHears(s) ==
    \/ Live = {} \/ Pending(s, TRUE) \/ s \notin entry.spaces
    \/ \E c \in Live : About(conn[c].inbox, s) \/ s \in conn[c].spaces

Truth(s) ==
    /\ OnePending(s) /\ EntryReads(s) /\ EntryHears(s)
    /\ \A c \in Conns : Reads(c, s)

Unread == \A c \in Conns : conn[c].phase \in {"new", "listed"} => conn[c].inbox = <<>>

\* A connection being made holds the lock.
ConnectsHold == \A c \in Conns : conn[c].phase = "connecting" => hold.op = "connect" /\ c \in hold.conn

NewsInv ==
    /\ Unread /\ ConnectsHold /\ \A n \in news : n.space \in made
    /\ \A s \in Spaces \ blurred : Truth(s)

LEMMA NoNews == \A s, b : ~About(<<>>, s) /\ LastSays(<<>>, s, b)
BY DEF About, LastSays

LEMMA TailNews ==
  ASSUME NEW q \in Seq(Event), q # <<>>, NEW s \in Spaces
  PROVE  /\ About(q, s) => Head(q).space = s \/ About(Tail(q), s)
         /\ About(Tail(q), s) => About(q, s)
         /\ \A b \in BOOLEAN : LastSays(q, s, b) => LastSays(Tail(q), s, b)
         /\ \A b \in BOOLEAN : LastSays(q, s, b) /\ Head(q).space = s /\ ~About(Tail(q), s)
                                 => (Head(q).joined <=> b)
<1> DEFINE t == Tail(q)
<1>1. Len(q) \in Nat /\ Len(q) > 0 /\ Len(t) = Len(q) - 1 /\ Head(q) = q[1]
  OBVIOUS
<1>2. \A i \in 1 .. Len(t) : t[i] = q[i + 1]
  OBVIOUS
<1> HIDE DEF t
<1>3. ASSUME NEW i \in 1 .. Len(q), i # 1 PROVE i - 1 \in 1 .. Len(t) /\ t[i - 1] = q[i]
  <2>1. i - 1 \in 1 .. Len(t) /\ (i - 1) + 1 = i
    BY <1>1, <1>3
  <2>2. t[i - 1] = q[(i - 1) + 1]
    BY <1>2, <2>1
  <2> QED
    BY <2>1, <2>2
<1>4. About(q, s) => Head(q).space = s \/ About(t, s)
  BY <1>1, <1>3 DEF About
<1>5. About(t, s) => About(q, s)
  BY <1>1, <1>2 DEF About
<1>6. ASSUME NEW b \in BOOLEAN, LastSays(q, s, b) PROVE LastSays(t, s, b)
  <2> SUFFICES ASSUME NEW i \in 1 .. Len(t), t[i].space = s,
                      \A j \in 1 .. Len(t) : j > i => t[j].space # s
               PROVE  t[i].joined <=> b
    BY DEF LastSays
  <2>1. i + 1 \in 1 .. Len(q) /\ q[i + 1] = t[i]
    BY <1>1, <1>2
  <2>2. ASSUME NEW j \in 1 .. Len(q), j > i + 1 PROVE q[j].space # s
    <3>1. j # 1 /\ j - 1 \in 1 .. Len(t) /\ t[j - 1] = q[j] /\ j - 1 > i
      BY <1>1, <1>3, <2>2
    <3> QED
      BY <3>1
  <2> QED
    BY <1>6, <2>1, <2>2 DEF LastSays
<1>7. ASSUME NEW b \in BOOLEAN, LastSays(q, s, b), Head(q).space = s, ~About(t, s)
      PROVE  Head(q).joined <=> b
  <2>1. ASSUME NEW j \in 1 .. Len(q), j > 1 PROVE q[j].space # s
    BY <1>3, <1>7, <2>1 DEF About
  <2>2. 1 \in 1 .. Len(q)
    BY <1>1
  <2> QED
    BY <1>1, <1>7, <2>1, <2>2 DEF LastSays
<1> QED
  BY <1>4, <1>5, <1>6, <1>7 DEF t

LEMMA AppendNews ==
  ASSUME NEW q \in Seq(Event), NEW e \in Event, NEW s \in Spaces
  PROVE  /\ About(Append(q, e), s) <=> About(q, s) \/ e.space = s
         /\ \A b \in BOOLEAN : e.space # s /\ LastSays(q, s, b) => LastSays(Append(q, e), s, b)
         /\ e.space = s => LastSays(Append(q, e), s, e.joined)
<1> DEFINE t == Append(q, e)
<1>1. Len(q) \in Nat /\ Len(t) = Len(q) + 1 /\ t[Len(q) + 1] = e
  OBVIOUS
<1>2. \A i \in 1 .. Len(q) : t[i] = q[i]
  OBVIOUS
<1> HIDE DEF t
<1>3. \A i \in 1 .. Len(t) : i = Len(q) + 1 \/ i \in 1 .. Len(q)
  BY <1>1
<1>4. About(t, s) <=> About(q, s) \/ e.space = s
  <2>1. Len(q) + 1 \in 1 .. Len(t) /\ 1 .. Len(q) \subseteq 1 .. Len(t)
    BY <1>1
  <2> QED
    BY <1>1, <1>2, <1>3, <2>1 DEF About
<1>5. ASSUME NEW b \in BOOLEAN, e.space # s, LastSays(q, s, b) PROVE LastSays(t, s, b)
  <2> SUFFICES ASSUME NEW i \in 1 .. Len(t), t[i].space = s,
                      \A j \in 1 .. Len(t) : j > i => t[j].space # s
               PROVE  t[i].joined <=> b
    BY DEF LastSays
  <2>1. i \in 1 .. Len(q) /\ t[i] = q[i]
    BY <1>1, <1>2, <1>3, <1>5
  <2>2. \A j \in 1 .. Len(q) : j \in 1 .. Len(t) /\ t[j] = q[j]
    BY <1>1, <1>2
  <2> QED
    BY <1>5, <2>1, <2>2 DEF LastSays
<1>6. ASSUME e.space = s PROVE LastSays(t, s, e.joined)
  <2> SUFFICES ASSUME NEW i \in 1 .. Len(t), \A j \in 1 .. Len(t) : j > i => t[j].space # s
               PROVE  t[i].joined <=> e.joined
    BY DEF LastSays
  <2>1. Len(q) + 1 \in 1 .. Len(t)
    BY <1>1
  <2>2. ~(Len(q) + 1 > i)
    BY <1>1, <1>6, <2>1
  <2>3. i = Len(q) + 1
    BY <1>1, <2>2
  <2> QED
    BY <1>1, <2>3
<1> QED
  BY <1>4, <1>5, <1>6 DEF t

LEMMA LiveRead == \A c \in Live : c \in Conns /\ Subscribed(c)
BY DEF Live, Subscribed

\* A step that leaves the moves, and what the connections know, alone.
LEMMA SameNews ==
  ASSUME NewsInv, UNCHANGED <<made, member, news, blurred>>,
         \A c \in Conns : /\ conn'[c].inbox = conn[c].inbox /\ conn'[c].spaces = conn[c].spaces
                          /\ \/ conn'[c].phase = conn[c].phase
                             \/ conn[c].phase = "connecting" /\ conn'[c].phase = "open",
         entry'.spaces = entry.spaces \/ Live = {},
         ConnectsHold'
  PROVE  NewsInv'
<1>1. Live' = Live
  BY DEF Live
<1>2. Unread'
  BY DEF NewsInv, Unread
<1>3. ASSUME NEW s \in Spaces, s \notin blurred PROVE Truth(s)'
  <2>1. Truth(s)
    BY <1>3 DEF NewsInv
  <2>2. ASSUME NEW c \in Conns PROVE Reads(c, s)'
    <3>1. Reads(c, s)
      BY <2>1 DEF Truth
    <3> QED
      BY <3>1 DEF Reads, Subscribed, Knows, Unpublished
  <2>3. OnePending(s)'
    BY <2>1 DEF Truth, OnePending
  <2>4. \A c \in Live : conn'[c].inbox = conn[c].inbox /\ conn'[c].spaces = conn[c].spaces
    BY LiveRead
  <2>5. EntryReads(s)'
    BY <1>1, <2>1, <2>4 DEF Truth, EntryReads, Unpublished
  <2>6. EntryHears(s)'
    BY <1>1, <2>1, <2>4 DEF Truth, EntryHears, Pending
  <2> QED
    BY <2>2, <2>3, <2>5, <2>6 DEF Truth
<1> QED
  BY <1>2, <1>3 DEF NewsInv

LEMMA InitNews == Init => NewsInv
<1> SUFFICES ASSUME Init PROVE NewsInv
  OBVIOUS
<1>1. news = {} /\ \A c \in Conns : conn[c].phase = "new" /\ conn[c].inbox = <<>>
  BY DEF Init
<1>2. Live = {}
  BY <1>1 DEF Live
<1>3. \A s \in Spaces : Truth(s)
  BY <1>1, <1>2 DEF Truth, OnePending, Reads, Subscribed, EntryReads, EntryHears
<1> QED
  BY <1>1, <1>3 DEF NewsInv, Unread, ConnectsHold

LEMMA SayingNews ==
  ASSUME Base, NewsInv, Saying
  PROVE  NewsInv'
<1>1. ASSUME NEW s \in Spaces, Announce(s) PROVE NewsInv'
  <2>1. hold.op = "connect" => hold'.op = "connect" /\ hold'.conn = hold.conn
    BY <1>1 DEF Announce, Base, Typed, Holding
  <2>2. UNCHANGED <<entry, conn, blurred, made, member, news>>
    BY <1>1 DEF Announce, world
  <2>3. ConnectsHold'
    BY <2>1, <2>2 DEF NewsInv, ConnectsHold
  <2> QED
    BY <2>2, <2>3, SameNews
<1>2. CASE TellConnected
  <2>1. UNCHANGED <<entry, blurred, made, member, news>>
    BY <1>2 DEF TellConnected, world
  <2>2. ASSUME NEW c \in Conns
        PROVE  /\ conn'[c].inbox = conn[c].inbox /\ conn'[c].spaces = conn[c].spaces
               /\ IF c \in hold.conn THEN conn'[c].phase = "open" ELSE conn'[c] = conn[c]
    <3>1. conn'[c] = IF c \in hold.conn THEN [conn[c] EXCEPT !.phase = "open"] ELSE conn[c]
      BY <1>2 DEF TellConnected
    <3>2. conn[c] \in Conn
      BY DEF Base, Typed
    <3> QED
      BY <3>1, <3>2 DEF Conn
  <2>3. ConnectsHold' /\ \A c \in hold.conn : conn[c].phase = "connecting"
    BY <2>2 DEF NewsInv, ConnectsHold, Base, HeldConnects
  <2> QED
    BY <2>1, <2>2, <2>3, SameNews
<1>3. CASE DndChanged
  <2>1. UNCHANGED <<entry, conn, blurred, made, member, news>> /\ hold.op = "free"
    BY <1>3 DEF DndChanged, world
  <2>2. ConnectsHold'
    BY <2>1 DEF NewsInv, ConnectsHold
  <2> QED
    BY <2>1, <2>2, SameNews
<1> QED
  BY <1>1, <1>2, <1>3 DEF Saying

LEMMA TimerNews ==
  ASSUME Base, NewsInv, NEW t \in timers, Fire(t) \/ Settle(t)
  PROVE  NewsInv'
<1>1. CASE Fire(t)
  <2>1. UNCHANGED <<entry, conn, blurred, made, member, news, hold>>
    BY <1>1 DEF Fire, world
  <2>2. ConnectsHold'
    BY <2>1 DEF NewsInv, ConnectsHold
  <2> QED
    BY <2>1, <2>2, SameNews
<1>2. CASE Settle(t)
  <2>1. UNCHANGED <<conn, blurred, made, member, news>> /\ hold.op = "free"
    BY <1>2 DEF Settle, world
  <2>2. ConnectsHold'
    BY <2>1 DEF NewsInv, ConnectsHold
  <2>3. entry'.spaces = entry.spaces \/ entry.conns = 0
    <3>1. SettleMakes(t)
      BY <1>2, SettleEntry
    <3>2. entry \in Entry
      BY DEF Base, Typed
    <3> QED
      BY <3>1, <3>2 DEF SettleMakes, Entry
  <2>4. entry.conns = 0 => Live = {}
    BY LiveFinite, FS_EmptySet DEF Base, Counted
  <2> QED
    BY <2>1, <2>2, <2>3, <2>4, SameNews
<1> QED
  BY <1>1, <1>2

\* What a step does to one space alone leaves the others as they were.
LEMMA OtherSpace ==
  ASSUME NEW s \in Spaces, Truth(s), Live' = Live, s \in member' <=> s \in member,
         \A n \in news \cup news' : n.space = s => (n \in news <=> n \in news'),
         \A c \in Conns : /\ conn'[c].phase = conn[c].phase
                          /\ s \in conn'[c].spaces <=> s \in conn[c].spaces
                          /\ About(conn'[c].inbox, s) <=> About(conn[c].inbox, s)
                          /\ \A b \in BOOLEAN : LastSays(conn[c].inbox, s, b) => LastSays(conn'[c].inbox, s, b),
         s \in entry'.spaces <=> s \in entry.spaces
  PROVE  Truth(s)'
<1>1. (Unpublished(s)' <=> Unpublished(s)) /\ (Pending(s, TRUE)' <=> Pending(s, TRUE))
  BY DEF Unpublished, Pending
<1>2. OnePending(s)'
  BY DEF Truth, OnePending
<1>3. ASSUME NEW c \in Conns PROVE Reads(c, s)'
  <2>1. Reads(c, s) /\ (Subscribed(c)' <=> Subscribed(c))
    BY DEF Truth, Subscribed
  <2>2. ASSUME Knows(c, s) PROVE Knows(c, s)'
    <3>1. (s \in member) \in BOOLEAN
      OBVIOUS
    <3>2. LastSays(conn'[c].inbox, s, s \in member)
      BY <2>2, <3>1 DEF Knows
    <3>3. LastSays(conn'[c].inbox, s, s \in member')
      BY <3>2 DEF LastSays
    <3> QED
      BY <2>2, <3>3 DEF Knows
  <2> QED
    BY <1>1, <2>1, <2>2 DEF Reads
<1>4. EntryReads(s)'
  BY <1>1, LiveRead DEF Truth, EntryReads
<1>5. EntryHears(s)'
  BY <1>1, LiveRead DEF Truth, EntryHears
<1> QED
  BY <1>2, <1>3, <1>4, <1>5 DEF Truth

LEMMA ListingNews ==
  ASSUME Base, NewsInv, NEW c \in Conns, ListSpaces(c) \/ Subscribe(c)
  PROVE  NewsInv'
<1>1. conn[c] \in Conn /\ UNCHANGED <<entry, hold, blurred, made, member, news>>
  BY DEF ListSpaces, Subscribe, world, Base, Typed
<1>2. /\ \A d \in Conns : d # c => conn'[d] = conn[d]
      /\ conn'[c].inbox = conn[c].inbox
      /\ \/ conn[c].phase = "new" /\ conn'[c].phase = "listed" /\ conn'[c].spaces = member
         \/ conn[c].phase = "listed" /\ conn'[c].phase = "subscribed" /\ conn'[c].spaces = conn[c].spaces
  <2>1. CASE ListSpaces(c)
    BY <1>1, <2>1 DEF ListSpaces, Base, Typed, Conn
  <2>2. CASE Subscribe(c)
    BY <1>1, <2>2 DEF Subscribe, Phase, Base, Typed, Conn
  <2> QED
    BY <2>1, <2>2
<1>3. conn[c].inbox = <<>>
  BY <1>2 DEF NewsInv, Unread
<1>4. Unread' /\ ConnectsHold'
  BY <1>1, <1>2, <1>3 DEF NewsInv, Unread, ConnectsHold
<1>5. Live' = Live /\ c \notin Live
  BY <1>2 DEF Live
<1>6. ASSUME NEW s \in Spaces, s \notin blurred PROVE Truth(s)'
  <2>1. Truth(s)
    BY <1>6 DEF NewsInv
  <2>2. OnePending(s)'
    BY <1>1, <2>1 DEF Truth, OnePending
  <2>3. \A d \in Live : conn'[d] = conn[d]
    BY <1>2, <1>5, LiveRead
  <2>4. EntryReads(s)'
    BY <1>1, <1>5, <2>1, <2>3 DEF Truth, EntryReads, Unpublished
  <2>5. EntryHears(s)'
    BY <1>1, <1>5, <2>1, <2>3 DEF Truth, EntryHears, Pending
  <2>6. ASSUME NEW d \in Conns PROVE Reads(d, s)'
    <3>1. Reads(d, s)
      BY <2>1 DEF Truth
    <3>2. CASE d # c
      BY <1>1, <1>2, <3>1, <3>2 DEF Reads, Subscribed, Knows, Unpublished
    <3>3. CASE d = c /\ conn'[c].phase = "listed"
      BY <1>1, <1>2, <1>3, <3>3, NoNews DEF Reads, Knows
    <3>4. CASE d = c /\ conn[c].phase = "listed"
      BY <1>1, <1>2, <3>1, <3>4 DEF Reads, Knows, Unpublished
    <3> QED
      BY <1>2, <3>2, <3>3, <3>4
  <2> QED
    BY <2>2, <2>4, <2>5, <2>6 DEF Truth
<1> QED
  BY <1>1, <1>4, <1>6 DEF NewsInv

\* A space joined or left: it is for the publish to tell, and the only one.
LEMMA CommittedNews ==
  ASSUME Base, NewsInv, NEW s \in made, NEW b \in BOOLEAN, Committed(b, s), made' = made,
         \A x \in Spaces : x \in member' <=> IF x = s THEN b ELSE x \in member
  PROVE  NewsInv'
<1>1. UNCHANGED <<conn, entry, hold>> /\ s \in Spaces
  BY DEF Committed, Base, Typed
<1>2. PICK e : e.joined = b /\ e.space = s /\ news' = news \cup {e}
  BY DEF Committed
<1>3. /\ blurred \subseteq blurred'
      /\ s \notin blurred' => \A n \in news : n.space # s
  BY DEF Committed
<1>4. Live' = Live /\ Unread' /\ ConnectsHold'
  BY <1>1 DEF Live, NewsInv, Unread, ConnectsHold
<1>5. ASSUME NEW x \in Spaces, x \notin blurred', x # s PROVE Truth(x)'
  <2>1. Truth(x)
    BY <1>3, <1>5 DEF NewsInv
  <2>2. x \in member' <=> x \in member
    BY <1>5
  <2>3. \A n \in news \cup news' : n.space = x => (n \in news <=> n \in news')
    BY <1>2, <1>5
  <2> QED
    BY <1>1, <1>4, <2>1, <2>2, <2>3, OtherSpace
<1>6. ASSUME s \notin blurred' PROVE Truth(s)'
  <2>1. Truth(s) /\ \A n \in news : n.space # s
    BY <1>1, <1>3, <1>6 DEF NewsInv
  <2>2. \A n \in news' : n.space = s => n = e
    BY <1>2, <2>1
  <2>3. OnePending(s)'
    BY <1>1, <1>2, <2>2 DEF OnePending
  <2>4. e \in news' /\ Unpublished(s)'
    BY <1>2 DEF Unpublished
  <2>5. EntryReads(s)' /\ \A c \in Conns : Reads(c, s)'
    BY <2>4 DEF EntryReads, Reads
  <2>6. EntryHears(s)'
    <3>1. CASE b
      BY <1>2, <2>4, <3>1 DEF EntryHears, Pending
    <3>2. CASE ~b
      BY <1>1, <1>4, <2>1 DEF Truth, EntryHears, Pending
    <3> QED
      BY <3>1, <3>2
  <2> QED
    BY <2>3, <2>5, <2>6 DEF Truth
<1>7. \A n \in news' : n.space \in made'
  BY <1>2 DEF NewsInv
<1> QED
  BY <1>4, <1>5, <1>6, <1>7 DEF NewsInv

LEMMA CreatedNews ==
  ASSUME Base, NewsInv, NEW s \in Spaces, CreateSpace(s)
  PROVE  NewsInv'
<1>1. /\ UNCHANGED <<conn, entry, hold, news>> /\ blurred \subseteq blurred'
      /\ made' = made \cup {s} /\ s \notin made
      /\ \A x \in Spaces : x # s => (x \in member' <=> x \in member)
      /\ s \notin blurred' => \A c \in Conns : conn[c].phase \in {"new", "closed"}
  BY DEF CreateSpace
<1>2. Live' = Live /\ Unread' /\ ConnectsHold'
  BY <1>1 DEF Live, NewsInv, Unread, ConnectsHold
<1>3. ASSUME NEW x \in Spaces, x \notin blurred', x # s PROVE Truth(x)'
  <2>1. Truth(x)
    BY <1>1, <1>3 DEF NewsInv
  <2> QED
    BY <1>1, <1>2, <1>3, <2>1, OtherSpace
<1>4. ASSUME s \notin blurred' PROVE Truth(s)'
  <2>1. \A c \in Conns : conn'[c].phase \in {"new", "closed"}
    BY <1>1, <1>4
  <2>2. Live' = {} /\ \A c \in Conns : Reads(c, s)'
    BY <2>1 DEF Live, Reads, Subscribed
  <2>3. \A n \in news' : n.space # s
    BY <1>1 DEF NewsInv
  <2>4. OnePending(s)'
    BY <2>3 DEF OnePending
  <2> QED
    BY <2>2, <2>4 DEF Truth, EntryReads, EntryHears
<1> QED
  BY <1>1, <1>2, <1>3, <1>4 DEF NewsInv

LEMMA CommittingNews ==
  ASSUME Base, NewsInv, Committing
  PROVE  NewsInv'
<1>1. PICK s \in Spaces : Join(s) \/ Leave(s) \/ CreateSpace(s)
  BY DEF Committing
<1>2. CASE Join(s)
  <2>1. /\ s \in made /\ Committed(TRUE, s) /\ made' = made
        /\ \A x \in Spaces : x \in member' <=> IF x = s THEN TRUE ELSE x \in member
    BY <1>2 DEF Join, Committed
  <2> QED
    BY <2>1, CommittedNews
<1>3. CASE Leave(s)
  <2>1. /\ s \in made /\ Committed(FALSE, s) /\ made' = made
        /\ \A x \in Spaces : x \in member' <=> IF x = s THEN FALSE ELSE x \in member
    BY <1>3 DEF Leave, Committed, Base, Typed
  <2> QED
    BY <2>1, CommittedNews
<1> QED
  BY <1>1, <1>2, <1>3, CreatedNews

\* A move is published: whom it does not reach knew it, or missed it.
LEMMA PublishNews ==
  ASSUME Base, NewsInv, NEW n \in news, Publish(n)
  PROVE  NewsInv'
<1>1. PICK e \in Event : e = [joined |-> n.joined, space |-> n.space] /\ e.joined = n.joined /\ e.space = n.space
  <2>1. n.joined \in BOOLEAN /\ n.space \in Spaces
    BY DEF Base, Typed, News
  <2>2. PICK e : e = [joined |-> n.joined, space |-> n.space]
    OBVIOUS
  <2>3. e \in Event /\ e.joined = n.joined /\ e.space = n.space
    BY <2>1, <2>2 DEF Event
  <2> QED
    BY <2>2, <2>3
<1>2. /\ UNCHANGED <<made, member, entry, hold>> /\ news' = news \ {n} /\ blurred \subseteq blurred'
      /\ n.space \notin blurred' => \A c \in Conns : ~Misses(c, n)
      /\ n.space \in Spaces /\ n.joined \in BOOLEAN
  BY DEF Publish, Base, Typed, News
<1>3. ASSUME NEW c \in Conns
      PROVE  /\ conn'[c].phase = conn[c].phase /\ conn'[c].spaces = conn[c].spaces
             /\ conn'[c].inbox = IF Hears(c, n) THEN Append(conn[c].inbox, e) ELSE conn[c].inbox
             /\ conn[c].inbox \in Seq(Event)
  <2>1. conn'[c] = IF Hears(c, n) THEN [conn[c] EXCEPT !.inbox = Append(@, e)] ELSE conn[c]
    BY <1>1 DEF Publish
  <2>2. conn[c] \in Conn
    BY DEF Base, Typed
  <2>3. CASE Hears(c, n)
    BY <2>1, <2>2, <2>3 DEF Conn
  <2>4. CASE ~Hears(c, n)
    BY <2>1, <2>2, <2>4 DEF Conn
  <2> QED
    BY <2>3, <2>4
<1>4. Unread' /\ ConnectsHold'
  BY <1>2, <1>3 DEF NewsInv, Unread, ConnectsHold, Hears, Subscribed
<1>5. Live' = Live
  BY <1>3 DEF Live
<1>6. ASSUME NEW x \in Spaces, x \notin blurred', x # n.space PROVE Truth(x)'
  <2>1. Truth(x)
    BY <1>2, <1>6 DEF NewsInv
  <2>2. ASSUME NEW c \in Conns
        PROVE  /\ conn'[c].phase = conn[c].phase
               /\ x \in conn'[c].spaces <=> x \in conn[c].spaces
               /\ About(conn'[c].inbox, x) <=> About(conn[c].inbox, x)
               /\ \A b \in BOOLEAN : LastSays(conn[c].inbox, x, b) => LastSays(conn'[c].inbox, x, b)
    <3>1. CASE Hears(c, n)
      BY <1>1, <1>3, <1>6, <3>1, AppendNews
    <3>2. CASE ~Hears(c, n)
      BY <1>3, <3>2
    <3> QED
      BY <1>3, <3>1, <3>2
  <2>3. \A m \in news \cup news' : m.space = x => (m \in news <=> m \in news')
    BY <1>2, <1>6
  <2> QED
    BY <1>2, <1>5, <2>1, <2>2, <2>3, OtherSpace
<1>7. ASSUME n.space \notin blurred' PROVE Truth(n.space)'
  <2>1. PICK s \in Spaces : s = n.space
    BY <1>2
  <2>2. Truth(s) /\ \A c \in Conns : ~Misses(c, n)
    BY <1>2, <1>7, <2>1 DEF NewsInv
  <2>3. (n.joined <=> s \in member) /\ \A m \in news' : m.space # s
    BY <1>2, <2>1, <2>2 DEF Truth, OnePending
  <2>4. OnePending(s)'
    BY <2>3 DEF OnePending
  <2>5. ASSUME NEW c \in Conns, Hears(c, n)
        PROVE  About(conn'[c].inbox, s) /\ LastSays(conn'[c].inbox, s, n.joined)
    BY <1>1, <1>3, <2>1, <2>5, AppendNews
  <2>6. ASSUME NEW c \in Conns, conn[c].phase = "listed" \/ Subscribed(c) PROVE Knows(c, s)'
    <3>1. CASE Hears(c, n)
      BY <1>2, <2>3, <2>5, <3>1 DEF Knows, LastSays
    <3>2. CASE conn[c].phase = "listed"
      <4>1. conn[c].inbox = <<>> /\ conn'[c].inbox = <<>>
        BY <1>3, <3>2 DEF NewsInv, Unread, Hears, Subscribed
      <4>2. (s \in conn[c].spaces) = n.joined
        BY <2>1, <2>2, <3>2 DEF Misses
      <4> QED
        BY <1>2, <1>3, <2>3, <4>1, <4>2, NoNews DEF Knows
    <3>3. CASE Subscribed(c) /\ ~Hears(c, n)
      <4>1. ~n.joined /\ s \notin conn[c].spaces /\ conn'[c].inbox = conn[c].inbox
        BY <1>3, <2>1, <3>3 DEF Hears
      <4>2. PICK q \in Seq(Event) : q = conn[c].inbox
        BY <1>3
      <4>3. \A i \in DOMAIN q : q[i] # [joined |-> TRUE, space |-> s]
        BY <2>1, <2>2, <3>3, <4>1, <4>2 DEF Misses
      <4>4. ASSUME NEW i \in 1 .. Len(q), q[i].space = s PROVE ~q[i].joined
        <5>1. i \in DOMAIN q /\ q[i] \in Event
          BY <4>4
        <5>2. PICK v \in Event : v = q[i] /\ v.space = s
          BY <4>4, <5>1
        <5>3. v.joined => v = [joined |-> TRUE, space |-> s]
          BY <5>2 DEF Event
        <5> QED
          BY <4>3, <5>1, <5>2, <5>3
      <4>5. LastSays(q, s, FALSE)
        BY <4>4 DEF LastSays
      <4>6. s \notin member' /\ s \notin conn'[c].spaces
        BY <1>2, <1>3, <2>3, <4>1
      <4> QED
        BY <4>1, <4>2, <4>5, <4>6 DEF Knows, LastSays
    <3> QED
      BY <2>6, <3>1, <3>2, <3>3
  <2>7. \A c \in Conns : Reads(c, s)'
    BY <1>3, <2>6 DEF Reads, Subscribed
  <2>8. \A c \in Live : About(conn[c].inbox, s) => About(conn'[c].inbox, s)
    BY <1>3, <2>5, LiveRead
  <2>9. CASE n.joined
    <3>1. \A c \in Live : About(conn'[c].inbox, s)
      BY <2>5, <2>9, LiveRead DEF Hears
    <3>2. EntryReads(s)' /\ EntryHears(s)'
      BY <1>5, <3>1 DEF EntryReads, EntryHears
    <3> QED
      BY <2>1, <2>4, <2>7, <3>2 DEF Truth
  <2>10. CASE ~n.joined
    <3>1. ~Pending(s, TRUE)
      BY <1>2, <2>1, <2>2, <2>10 DEF Truth, OnePending, Pending
    <3>2. \/ Live = {} \/ s \notin entry.spaces
          \/ \E c \in Live : About(conn[c].inbox, s) \/ s \in conn[c].spaces
      BY <2>2, <3>1 DEF Truth, EntryHears
    <3>3. \A c \in Live : s \in conn[c].spaces => About(conn'[c].inbox, s)
      BY <2>1, <2>5, LiveRead DEF Hears
    <3>4. Live = {} \/ s \notin entry.spaces \/ \E c \in Live : About(conn'[c].inbox, s)
      BY <2>8, <3>2, <3>3
    <3>5. s \notin member'
      BY <1>2, <2>3, <2>10
    <3>6. EntryReads(s)' /\ EntryHears(s)'
      BY <1>2, <1>5, <3>4, <3>5 DEF EntryReads, EntryHears
    <3> QED
      BY <2>1, <2>4, <2>7, <3>6 DEF Truth
  <2> QED
    BY <1>2, <2>9, <2>10
<1>8. \A m \in news' : m.space \in made'
  BY <1>2 DEF NewsInv
<1> QED
  BY <1>4, <1>6, <1>7, <1>8 DEF NewsInv

\* A space is heard from before the event is read.
LEMMA TopicNews ==
  ASSUME Base, NewsInv, NEW c \in Conns, AddTopic(c)
  PROVE  NewsInv'
<1>1. PICK s : s = Head(conn[c].inbox).space
  OBVIOUS
<1>2. /\ conn[c] \in Conn /\ conn[c].phase = "open" /\ conn[c].inbox # <<>>
      /\ UNCHANGED <<entry, hold, blurred, made, member, news>>
  BY DEF AddTopic, world, Base, Typed
<1>3. s \in Spaces /\ About(conn[c].inbox, s)
  <2>1. PICK q \in Seq(Event) : q = conn[c].inbox
    BY <1>2 DEF Conn
  <2>2. 1 \in 1 .. Len(q) /\ Head(q) = q[1] /\ q[1] \in Event
    BY <1>2, <2>1
  <2> QED
    BY <1>1, <2>1, <2>2 DEF About, Event
<1>4. /\ \A d \in Conns : conn'[d].phase = conn[d].phase /\ conn'[d].inbox = conn[d].inbox
      /\ \A d \in Conns, x \in Spaces :
            x \in conn'[d].spaces <=> x \in conn[d].spaces \/ (d = c /\ x = s)
  <2>1. PICK x : x = [conn[c] EXCEPT !.spaces = @ \cup {s}]
    OBVIOUS
  <2>2. x.phase = conn[c].phase /\ x.inbox = conn[c].inbox /\ x.spaces = conn[c].spaces \cup {s}
    BY <1>2, <2>1 DEF Conn
  <2>3. conn' = [conn EXCEPT ![c] = x]
    BY <1>1, <2>1 DEF AddTopic
  <2>4. \A d \in Conns : conn'[d] = IF d = c THEN x ELSE conn[d]
    BY <2>3 DEF Base, Typed
  <2> QED
    BY <2>2, <2>4
<1>5. Live' = Live /\ Unread' /\ ConnectsHold'
  BY <1>2, <1>4 DEF Live, NewsInv, Unread, ConnectsHold
<1>6. ASSUME NEW x \in Spaces, x \notin blurred PROVE Truth(x)'
  <2>1. Truth(x)
    BY <1>6 DEF NewsInv
  <2>2. CASE x # s
    BY <1>2, <1>4, <1>5, <2>1, <2>2, OtherSpace
  <2>3. CASE x = s
    <3>1. OnePending(s)'
      BY <1>2, <2>1, <2>3 DEF Truth, OnePending
    <3>2. ASSUME NEW d \in Conns PROVE Reads(d, s)'
      <4>1. Reads(d, s)
        BY <2>1, <2>3 DEF Truth
      <4> QED
        BY <1>2, <1>3, <1>4, <4>1 DEF Reads, Subscribed, Unpublished, Knows
    <3>3. EntryReads(s)'
      BY <1>2, <1>4, <1>5, <2>1, <2>3, LiveRead DEF Truth, EntryReads, Unpublished
    <3>4. EntryHears(s)'
      BY <1>2, <1>3, <1>4, <1>5, <2>1, <2>3, LiveRead DEF Truth, EntryHears, Pending
    <3> QED
      BY <2>3, <3>1, <3>2, <3>3, <3>4 DEF Truth
  <2> QED
    BY <2>2, <2>3
<1> QED
  BY <1>2, <1>5, <1>6 DEF NewsInv

\* The last unread event about a space leaves the entry right.
LEMMA HearingNews ==
  ASSUME Base, NewsInv, NEW c \in Conns, HearJoined(c) \/ HearRemoved(c)
  PROVE  NewsInv'
<1> DEFINE q == conn[c].inbox
<1>0. PICK s : s = Head(q).space
  OBVIOUS
<1>1. conn[c] \in Conn /\ conn[c].phase = "open" /\ q # <<>> /\ UNCHANGED <<blurred, made, member, news>>
  BY DEF HearJoined, HearRemoved, world, Base, Typed
<1>2. q \in Seq(Event) /\ Head(q) \in Event /\ s \in Spaces
  <2>1. q \in Seq(Event)
    BY <1>1 DEF Conn
  <2>2. Head(q) \in Event
    BY <1>1, <2>1
  <2> QED
    BY <1>0, <2>1, <2>2 DEF Event
<1>3. /\ \A d \in Conns : d # c => conn'[d] = conn[d]
      /\ conn'[c].phase = conn[c].phase /\ conn'[c].inbox = Tail(q)
      /\ \A x \in Spaces : x \in conn'[c].spaces <=> IF x = s THEN Head(q).joined ELSE x \in conn[c].spaces
  <2>1. CASE HearJoined(c)
    <3>1. conn' = [conn EXCEPT ![c] = [conn[c] EXCEPT !.inbox = Tail(q)]] /\ Head(q).joined /\ s \in conn[c].spaces
      BY <1>0, <2>1 DEF HearJoined
    <3> HIDE DEF q
    <3>2. PICK x : x = [conn[c] EXCEPT !.inbox = Tail(q)]
      OBVIOUS
    <3>3. x.phase = conn[c].phase /\ x.spaces = conn[c].spaces /\ x.inbox = Tail(q)
      BY <1>1, <3>2 DEF Conn
    <3>4. \A d \in Conns : conn'[d] = IF d = c THEN x ELSE conn[d]
      BY <3>1, <3>2 DEF Base, Typed
    <3> QED
      BY <3>1, <3>3, <3>4
  <2>2. CASE HearRemoved(c)
    <3>1. conn' = [conn EXCEPT ![c] = [conn[c] EXCEPT !.inbox = Tail(q), !.spaces = @ \ {s}]] /\ ~Head(q).joined
      BY <1>0, <2>2 DEF HearRemoved, Base, Typed
    <3> HIDE DEF q
    <3>2. PICK x : x = [conn[c] EXCEPT !.inbox = Tail(q), !.spaces = @ \ {s}]
      OBVIOUS
    <3>3. x.phase = conn[c].phase /\ x.spaces = conn[c].spaces \ {s} /\ x.inbox = Tail(q)
      BY <1>1, <3>2 DEF Conn
    <3>4. \A d \in Conns : conn'[d] = IF d = c THEN x ELSE conn[d]
      BY <3>1, <3>2 DEF Base, Typed
    <3> QED
      BY <3>1, <3>3, <3>4
  <2> QED
    BY <2>1, <2>2
<1>4. \A x \in Spaces : x \in entry'.spaces <=> IF x = s THEN Head(q).joined ELSE x \in entry.spaces
  <2>1. entry \in Entry
    BY DEF Base, Typed
  <2>2. CASE HearJoined(c)
    <3>1. entry' = [entry EXCEPT !.spaces = @ \cup {s}] /\ Head(q).joined
      BY <1>0, <2>2 DEF HearJoined
    <3> HIDE DEF q
    <3> QED
      BY <2>1, <3>1 DEF Entry
  <2>3. CASE HearRemoved(c)
    <3>1. entry' = [entry EXCEPT !.spaces = @ \ {s}] /\ ~Head(q).joined
      BY <1>0, <2>3 DEF HearRemoved
    <3> HIDE DEF q
    <3> QED
      BY <2>1, <3>1 DEF Entry
  <2> QED
    BY <2>2, <2>3
<1>5. (hold'.op = hold.op /\ hold'.conn = hold.conn) \/ hold.op = "free"
  BY DEF HearJoined, HearRemoved
<1> HIDE DEF q
<1>6. Unread' /\ ConnectsHold'
  BY <1>1, <1>3, <1>5 DEF NewsInv, Unread, ConnectsHold
<1>7. Live' = Live /\ c \in Live
  BY <1>1, <1>3 DEF Live
<1>8. ASSUME NEW x \in Spaces, x \notin blurred, x # s PROVE Truth(x)'
  <2>1. Truth(x)
    BY <1>8 DEF NewsInv
  <2>2. About(Tail(q), x) <=> About(q, x)
    BY <1>0, <1>1, <1>2, <1>8, TailNews
  <2>3. \A b \in BOOLEAN : LastSays(q, x, b) => LastSays(Tail(q), x, b)
    BY <1>1, <1>2, TailNews
  <2>4. ASSUME NEW d \in Conns
        PROVE  /\ conn'[d].phase = conn[d].phase
               /\ x \in conn'[d].spaces <=> x \in conn[d].spaces
               /\ About(conn'[d].inbox, x) <=> About(conn[d].inbox, x)
               /\ \A b \in BOOLEAN : LastSays(conn[d].inbox, x, b) => LastSays(conn'[d].inbox, x, b)
    <3>1. CASE d = c
      BY <1>3, <1>8, <2>2, <2>3, <3>1 DEF q
    <3>2. CASE d # c
      BY <1>3, <3>2
    <3> QED
      BY <3>1, <3>2
  <2> QED
    BY <1>1, <1>4, <1>7, <1>8, <2>1, <2>4, OtherSpace
<1>9. ASSUME s \notin blurred PROVE Truth(s)'
  <2>1. Truth(s)
    BY <1>2, <1>9 DEF NewsInv
  <2>2. OnePending(s)' /\ (Unpublished(s)' <=> Unpublished(s))
    BY <1>1, <2>1 DEF Truth, OnePending, Unpublished
  <2>3. Unpublished(s) \/ (LastSays(Tail(q), s, s \in member)
                             /\ (About(Tail(q), s) \/ (Head(q).joined <=> s \in member)))
    <3>1. ASSUME ~Unpublished(s) PROVE LastSays(q, s, s \in member)
      BY <1>1, <2>1, <3>1 DEF Truth, Reads, Subscribed, Knows, q
    <3>2. (s \in member) \in BOOLEAN /\ Head(q).space = s
      BY <1>0
    <3>3. ASSUME NEW b \in BOOLEAN, LastSays(q, s, b)
          PROVE  LastSays(Tail(q), s, b) /\ (About(Tail(q), s) \/ (Head(q).joined <=> b))
      BY <1>1, <1>2, <3>2, <3>3, TailNews
    <3> QED
      BY <3>1, <3>2, <3>3
  <2>4. ASSUME NEW d \in Conns PROVE Reads(d, s)'
    <3>1. CASE d # c
      <4>1. Reads(d, s)
        BY <2>1 DEF Truth
      <4> QED
        BY <1>1, <1>3, <2>2, <3>1, <4>1 DEF Reads, Subscribed, Knows
    <3>2. CASE d = c
      <4>1. s \in conn'[c].spaces <=> Head(q).joined
        BY <1>2, <1>3
      <4> QED
        BY <1>1, <1>3, <2>2, <2>3, <3>2, <4>1 DEF Reads, Knows
    <3> QED
      BY <3>1, <3>2
  <2>5. EntryReads(s)'
    <3>1. s \in entry'.spaces <=> Head(q).joined
      BY <1>2, <1>4
    <3> QED
      BY <1>1, <1>3, <1>7, <2>2, <2>3, <3>1 DEF EntryReads
  <2>6. EntryHears(s)'
    BY <1>2, <1>3, <1>4, <1>7 DEF EntryHears
  <2> QED
    BY <2>2, <2>4, <2>5, <2>6 DEF Truth
<1> QED
  BY <1>1, <1>2, <1>6, <1>8, <1>9 DEF NewsInv

\* A connection with nothing to read listed the spaces there are; what it
\* has to read is one more reader's news.
LEMMA ConnectNews ==
  ASSUME AbsentInv, NewsInv, NEW c \in Conns, Connect(c)
  PROVE  NewsInv'
<1> USE DEF AbsentInv
<1>1. /\ conn[c] \in Conn /\ conn[c].phase = "subscribed" /\ hold.op = "free"
      /\ UNCHANGED <<blurred, made, member, news>>
  BY DEF Connect, world, Base, Typed
<1>2. /\ \A d \in Conns : d # c => conn'[d] = conn[d]
      /\ conn'[c].phase = "connecting" /\ conn'[c].spaces = conn[c].spaces /\ conn'[c].inbox = conn[c].inbox
  <2>1. conn' = [conn EXCEPT ![c] = [conn[c] EXCEPT !.phase = "connecting"]]
    BY DEF Connect, Phase
  <2> QED
    BY <1>1, <2>1 DEF Base, Typed, Conn
<1>3. hold'.op = "connect" /\ hold'.conn = {c}
  BY DEF Connect, Held, Free
<1>4. Unread' /\ ConnectsHold'
  BY <1>1, <1>2, <1>3 DEF NewsInv, Unread, ConnectsHold
<1>5. Live' = Live \cup {c} /\ c \notin Live
  BY <1>1, <1>2 DEF Live
<1>6. \A d \in Conns : conn'[d].spaces = conn[d].spaces /\ conn'[d].inbox = conn[d].inbox
  BY <1>2
<1>7. entry'.spaces = Kept(c) \cup conn[c].spaces
  BY ConnectEntry DEF ConnectMakes
<1>8. /\ entry.conns = 0 <=> Live = {}
      /\ entry.conns = 0 => Kept(c) \subseteq conn[c].spaces
      /\ entry.conns # 0 => Kept(c) = entry.spaces
  <2>1. entry.conns = 0 <=> Live = {}
    BY LiveFinite, FS_EmptySet DEF Base, Counted
  <2>2. /\ Found(c).conns = entry.conns
        /\ entry.present => Found(c) = entry
        /\ ~entry.present => Found(c).spaces = {} /\ entry.conns = 0
    BY FoundFields DEF Base, Absent
  <2> QED
    BY <2>1, <2>2 DEF Kept
<1>9. ASSUME NEW x \in Spaces, x \notin blurred PROVE Truth(x)'
  <2>1. Truth(x)
    BY <1>9 DEF NewsInv
  <2>2. /\ OnePending(x)' /\ (Unpublished(x)' <=> Unpublished(x))
        /\ Pending(x, TRUE)' <=> Pending(x, TRUE)
    BY <1>1, <2>1 DEF Truth, OnePending, Unpublished, Pending
  <2>3. ASSUME NEW d \in Conns PROVE Reads(d, x)'
    <3>1. Reads(d, x)
      BY <2>1 DEF Truth
    <3> QED
      BY <1>1, <1>2, <2>2, <3>1 DEF Reads, Subscribed, Knows
  <2>4. EntryReads(x)'
    <3> SUFFICES ASSUME ~Unpublished(x), \A d \in Live' : ~About(conn'[d].inbox, x)
                 PROVE  x \in entry'.spaces <=> x \in member
      BY <1>1, <2>2 DEF EntryReads
    <3>1. ~About(conn[c].inbox, x) /\ \A d \in Live : ~About(conn[d].inbox, x)
      BY <1>5, <1>6, LiveRead
    <3>2. x \in conn[c].spaces <=> x \in member
      BY <1>1, <2>1, <3>1 DEF Truth, Reads, Subscribed, Knows
    <3>3. CASE Live = {}
      BY <1>7, <1>8, <3>2, <3>3
    <3>4. CASE Live # {}
      <4>1. x \in entry.spaces <=> x \in member
        BY <2>1, <3>1, <3>4 DEF Truth, EntryReads
      <4> QED
        BY <1>7, <1>8, <3>2, <3>4, <4>1
    <3> QED
      BY <3>3, <3>4
  <2>5. EntryHears(x)'
    <3> SUFFICES ASSUME ~Pending(x, TRUE), x \in entry'.spaces
                 PROVE  \E d \in Live' : About(conn'[d].inbox, x) \/ x \in conn'[d].spaces
      BY <2>2 DEF EntryHears
    <3>1. CASE x \in conn[c].spaces
      BY <1>2, <1>5, <3>1
    <3>2. CASE x \notin conn[c].spaces
      <4>1. Live # {} /\ x \in entry.spaces
        BY <1>7, <1>8, <3>2
      <4>2. PICK d \in Live : About(conn[d].inbox, x) \/ x \in conn[d].spaces
        BY <2>1, <4>1 DEF Truth, EntryHears
      <4> QED
        BY <1>5, <1>6, <4>2, LiveRead
    <3> QED
      BY <3>1, <3>2
  <2> QED
    BY <2>2, <2>3, <2>4, <2>5 DEF Truth
<1> QED
  BY <1>1, <1>4, <1>9 DEF NewsInv

\* Of a space one that closes had nothing to read of, and no removal is to
\* come, the connections that stay know the truth.
LEMMA DisconnectNews ==
  ASSUME Base, NewsInv, NEW c \in Conns, NEW now \in BOOLEAN, Disconnect(c, now)
  PROVE  NewsInv'
<1>1. /\ conn[c] \in Conn /\ conn[c].phase = "open" /\ hold.op = "free"
      /\ UNCHANGED <<made, member, news>> /\ blurred \subseteq blurred'
  BY DEF Disconnect, world, Base, Typed
<1>2. /\ \A d \in Conns : d # c => conn'[d] = conn[d]
      /\ conn'[c].phase = "closed"
  BY DEF Disconnect, Closed, Base, Typed
<1>3. Unread' /\ ConnectsHold'
  BY <1>1, <1>2 DEF NewsInv, Unread, ConnectsHold
<1>4. Live' = Live \ {c} /\ c \in Live
  BY <1>1, <1>2 DEF Live
<1>5. entry'.spaces = entry.spaces \/ Live' = {}
  <2>1. GoesNow \/ Waits(c) \/ GoesOn(c)
    BY DisconnectEntry
  <2>2. ASSUME entry.conns = 1 PROVE Live' = {}
    <3>1. Cardinality(Live) = 1
      BY <2>2 DEF Base, Counted
    <3>2. Cardinality(Live \ {c}) = Cardinality(Live) - 1
      BY <1>4, LiveFinite, FS_RemoveElement
    <3>3. Cardinality(Live \ {c}) = 0
      BY <3>1, <3>2
    <3>4. IsFiniteSet(Live \ {c})
      BY LiveFinite, FS_Subset
    <3> QED
      BY <1>4, <3>3, <3>4, FS_EmptySet
  <2> QED
    BY <2>1, <2>2 DEF GoesNow, Waits, GoesOn, Fewer
<1>6. ASSUME NEW x \in Spaces, x \notin blurred' PROVE Truth(x)'
  <2>1. Truth(x)
    BY <1>1, <1>6 DEF NewsInv
  <2>2. /\ OnePending(x)' /\ (Unpublished(x)' <=> Unpublished(x))
        /\ Pending(x, TRUE)' <=> Pending(x, TRUE)
    BY <1>1, <2>1 DEF Truth, OnePending, Unpublished, Pending
  <2>3. ~About(conn[c].inbox, x)
    <3>1. PICK q \in Seq(Event) : q = conn[c].inbox
      BY <1>1 DEF Conn
    <3>2. \A i \in DOMAIN q : q[i].space # x
      BY <1>6, <3>1 DEF Disconnect
    <3>3. DOMAIN q = 1 .. Len(q)
      OBVIOUS
    <3> QED
      BY <3>1, <3>2, <3>3 DEF About
  <2>4. Unpublished(x) => Pending(x, TRUE)
    <3>1. \A n \in news : n.space = x => n.joined
      BY <1>6 DEF Disconnect
    <3>2. \A n \in news : n.joined \in BOOLEAN
      BY DEF Base, Typed, News
    <3> QED
      BY <3>1, <3>2 DEF Unpublished, Pending
  <2>5. ASSUME NEW d \in Conns PROVE Reads(d, x)'
    <3>1. Reads(d, x)
      BY <2>1 DEF Truth
    <3>2. CASE d # c
      BY <1>1, <1>2, <2>2, <3>1, <3>2 DEF Reads, Subscribed, Knows
    <3>3. CASE d = c
      BY <1>2, <3>3 DEF Reads, Subscribed
    <3> QED
      BY <3>2, <3>3
  <2>6. \A d \in Live' : d \in Live /\ d # c /\ conn'[d] = conn[d]
    BY <1>2, <1>4, LiveRead
  <2>7. CASE Live' = {}
    BY <2>2, <2>5, <2>7 DEF Truth, EntryReads, EntryHears
  <2>8. CASE Live' # {}
    <3>1. entry'.spaces = entry.spaces /\ Live # {}
      BY <1>5, <2>6, <2>8
    <3>2. \A d \in Live : About(conn[d].inbox, x) => d \in Live' /\ About(conn'[d].inbox, x)
      BY <1>4, <2>3, <2>6
    <3>3. EntryReads(x)'
      BY <1>1, <2>1, <2>2, <3>1, <3>2 DEF Truth, EntryReads
    <3>4. EntryHears(x)'
      <4> SUFFICES ASSUME ~Pending(x, TRUE), x \in entry.spaces,
                          \A d \in Live' : ~About(conn'[d].inbox, x)
                   PROVE  \E d \in Live' : x \in conn'[d].spaces
        BY <2>2, <3>1 DEF EntryHears
      <4>1. ~Unpublished(x) /\ \A d \in Live : ~About(conn[d].inbox, x)
        BY <2>4, <3>2
      <4>2. x \in member
        BY <2>1, <3>1, <4>1 DEF Truth, EntryReads
      <4>3. PICK d \in Live' : d \in Live /\ conn'[d] = conn[d]
        BY <2>6, <2>8
      <4>4. Knows(d, x)
        BY <2>1, <4>1, <4>3, LiveRead DEF Truth, Reads
      <4> QED
        BY <4>1, <4>2, <4>3, <4>4 DEF Knows
    <3> QED
      BY <2>2, <2>5, <3>3, <3>4 DEF Truth
  <2> QED
    BY <2>7, <2>8
<1> QED
  BY <1>1, <1>3, <1>6 DEF NewsInv

LEMMA NextNews ==
  ASSUME AbsentInv, NewsInv, [Next]_vars
  PROVE  NewsInv'
<1>0. Base
  BY DEF AbsentInv
<1>1. CASE Saying
  BY <1>0, <1>1, SayingNews
<1>2. CASE Hearing
  BY <1>0, <1>2, ListingNews, TopicNews, HearingNews DEF Hearing
<1>3. CASE Moving
  BY <1>0, <1>3, CommittingNews, PublishNews DEF Moving
<1>4. CASE UNCHANGED vars
  <2>1. UNCHANGED <<conn, entry, hold, blurred, made, member, news>>
    BY <1>4 DEF vars
  <2>2. ConnectsHold'
    BY <2>1 DEF NewsInv, ConnectsHold
  <2> QED
    BY <2>1, <2>2, SameNews
<1> QED
  BY <1>0, <1>1, <1>2, <1>3, <1>4, Kinds, TimerNews, ConnectNews, DisconnectNews

\* For every set of spaces and connections, however they come and go while
\* the person makes, joins and leaves spaces: once a move is published and
\* every connection has read its events, the person is counted where they are
\* a member, the spaces of the moves some connection could not hear apart
\* (gateway.go subscribe, applyControlEvent; presence.go connect).
THEOREM CountedTruly == Spec => []CountedAsMember
<1>1. Init => AbsentInv /\ NewsInv
  BY InitAbsent, InitNews
<1>2. AbsentInv /\ NewsInv /\ [Next]_vars => (AbsentInv /\ NewsInv)'
  BY NextBase, NextNews
<1>3. ASSUME AbsentInv, NewsInv PROVE CountedAsMember
  <2> SUFFICES ASSUME hold.op = "free", entry.conns > 0,
                      \A c \in Conns : conn[c].phase = "open" => conn[c].inbox = <<>>,
                      NEW s \in Spaces \ blurred, ~Unpublished(s)
               PROVE  s \in entry.spaces <=> s \in member
    BY DEF CountedAsMember
  <2>1. \A c \in Live : conn[c].inbox = <<>>
    BY <1>3 DEF NewsInv, ConnectsHold, Live
  <2>2. Live # {}
    <3>1. entry.conns = Cardinality(Live)
      BY <1>3 DEF AbsentInv, Base, Counted
    <3>2. Live = {} => Cardinality(Live) = 0
      BY FS_EmptySet
    <3> QED
      BY <3>1, <3>2
  <2>3. EntryReads(s)
    BY <1>3 DEF NewsInv, Truth
  <2> QED
    BY <2>1, <2>2, <2>3, NoNews DEF EntryReads
<1> QED
  BY <1>1, <1>2, <1>3, PTL DEF Spec
=============================================================================
