------------------------------ MODULE Presence ------------------------------
(***************************************************************************)
(* Presence in the realtime gateway (internal/realtime presence.go and     *)
(* gateway.go): one person's connections, the spaces they are counted in,  *)
(* the grace timer that takes them offline, and what the other people in   *)
(* each space are told.                                                    *)
(*                                                                         *)
(* The table is read and written under one lock, so a call on it is one    *)
(* step.  Telling the spaces about a change takes a publish per space, and *)
(* only the person's own lock ("hold") keeps two changes' publishes apart; *)
(* a removal from a space does not take it.  Do not disturb is kept to     *)
(* what it does here: a change to it tells every space again.              *)
(***************************************************************************)
EXTENDS Integers, FiniteSets, Sequences

CONSTANTS
    Spaces,
    Conns,        \* the person's connections, each made once
    MobileConns,  \* those a mobile app makes
    Grace,        \* whether STOOP_PRESENCE_GRACE is above zero
    MaxMoves      \* bound: spaces made, joined and left

ASSUME PresenceAssumption ==
    /\ IsFiniteSet(Conns) /\ MobileConns \subseteq Conns
    /\ Grace \in BOOLEAN /\ MaxMoves \in Nat

VARIABLES
    made,     \* the spaces that are, or were
    member,   \* those the person belongs to
    news,     \* their moves that are not published yet
    conn,     \* each connection: its phase, the spaces it listed and then hears,
              \* and the events it has not read
    entry,    \* the person's presenceEntry
    timers,   \* grace timers armed, and those that fired and wait for hold
    hold,     \* who holds the person's lock, and what is still to publish
    told,     \* what the people of each space were last told
    shown,    \* whether someone in every space sees the person online
    silent,   \* history: spaces left with nothing told
    blurred,  \* history: spaces of a move some connection did not hear
    moves     \* what is left of the bound

vars == <<made, member, news, conn, entry, timers, hold, told, shown, silent, blurred, moves>>
heard == <<told, shown>>
world == <<made, member, news, moves>>

NoEntry(id) == [id |-> id, present |-> FALSE, conns |-> 0, mobileConns |-> 0,
                mobile |-> FALSE, spaces |-> {}, settling |-> 0]
Free == [op |-> "free", conn |-> {}, added |-> {}, all |-> FALSE, say |-> {}, online |-> FALSE]

Init ==
    /\ made \in SUBSET Spaces /\ member \in SUBSET made /\ news = {}
    /\ conn = [c \in Conns |-> [phase |-> "new", spaces |-> {}, inbox |-> <<>>]]
    /\ entry = NoEntry(0)
    /\ timers = {}
    /\ hold = Free
    /\ told = [s \in Spaces |-> [online |-> FALSE, mobile |-> FALSE]]
    /\ shown = FALSE /\ silent = {} /\ blurred = {}
    /\ moves = MaxMoves

-----------------------------------------------------------------------------
(* The lock, and publishing under it *)

Held(op, S, online) == [Free EXCEPT !.op = op, !.say = S, !.online = online]

\* publishPresence, and the lock released once nothing is left to say.
Publishing(S, online) == IF S = {} THEN Free ELSE Held("publish", S, online)

\* One space is told; the spaces come in any order.
Announce(s) ==
    /\ s \in hold.say
    /\ told' = [told EXCEPT ![s] = [online |-> hold.online, mobile |-> hold.online /\ entry.mobile]]
    /\ shown' = hold.online
    /\ silent' = IF hold.online /\ s \notin entry.spaces THEN silent \cup {s} ELSE silent \ {s}
    /\ hold' = IF hold.op = "publish" THEN Publishing(hold.say \ {s}, hold.online)
               ELSE [hold EXCEPT !.say = @ \ {s}]
    /\ UNCHANGED <<entry, timers, conn, blurred, world>>

-----------------------------------------------------------------------------
(* The grace timer *)

\* stopSettle: the count moves on, and a timer that did not fire is gone.
Stopped(e) == [e EXCEPT !.settling = @ + 1]
FiredTimers == {t \in timers : t.fired}

\* armSettle stops the one before it, and counts again.
Armed(e) == [e EXCEPT !.settling = @ + 2]

\* History: how many connections there have been.
Ever == Cardinality({c \in Conns : conn[c].phase \in {"connecting", "open", "closed"}})

\* Slip: the count is taken before it moves on.
TimerBefore(e) == [id |-> e.id, generation |-> e.settling - 1, fired |-> FALSE, since |-> Ever]

TimerOf(e) == [id |-> e.id, generation |-> e.settling, fired |-> FALSE, since |-> Ever]

Fire(t) ==
    /\ t \in timers /\ ~t.fired
    /\ timers' = (timers \ {t}) \cup {[t EXCEPT !.fired = TRUE]}
    /\ UNCHANGED <<conn, entry, hold, heard, silent, blurred, world>>

\* Slip: the count is not looked at.
SameEntry(t) == entry.present /\ t.id = entry.id

StillArmed(t) == entry.present /\ t.id = entry.id /\ t.generation = entry.settling

OnlyMobile(e) == e.mobileConns = e.conns

\* Slip: a phone's connection settles nothing.
NeverToMobile(e) == FALSE

ToMobile(e) == ~e.mobile /\ OnlyMobile(e)

\* settleNow
Settle(t) ==
    /\ t \in timers /\ t.fired /\ hold.op = "free"
    /\ LET gone == StillArmed(t) /\ entry.conns = 0
           toMobile == StillArmed(t) /\ ~gone /\ ToMobile(entry)
       IN /\ entry' = IF gone THEN NoEntry(entry.id) ELSE [entry EXCEPT !.mobile = @ \/ toMobile]
          /\ timers' = (IF gone THEN FiredTimers ELSE timers) \ {t}
          /\ hold' = IF gone \/ toMobile THEN Publishing(entry.spaces, ~gone) ELSE Free
    /\ UNCHANGED <<conn, heard, silent, blurred, world>>

-----------------------------------------------------------------------------
(* A connection *)

Phase(c, p) == [conn EXCEPT ![c].phase = p]

\* ListSpaceIDs, then the subscription: what is published from then on
\* reaches the connection.
ListSpaces(c) ==
    /\ conn[c].phase = "new"
    /\ conn' = [conn EXCEPT ![c].phase = "listed", ![c].spaces = member]
    /\ UNCHANGED <<entry, timers, hold, heard, silent, blurred, world>>

Subscribe(c) ==
    /\ conn[c].phase = "listed" /\ conn' = Phase(c, "subscribed")
    /\ UNCHANGED <<entry, timers, hold, heard, silent, blurred, world>>

\* presence.connect: the entry is found or made ...
Found(c) == IF entry.present THEN entry
            ELSE [NoEntry(entry.id + 1) EXCEPT !.present = TRUE, !.mobile = c \in MobileConns]

\* ... loses the spaces left while no connection was there to see it ...
Kept(c) ==
    IF Found(c).conns = 0 THEN Found(c).spaces \cap conn[c].spaces ELSE Found(c).spaces

\* Slip: a space this connection did not list was left.
NotListed(c) == entry.spaces \ conn[c].spaces

Dropped(c) == entry.spaces \ (Kept(c) \cup conn[c].spaces)

\* ... and counts one more.
Counting(c) ==
    Stopped([Found(c) EXCEPT !.spaces = Kept(c) \cup conn[c].spaces, !.conns = @ + 1,
                             !.mobileConns = IF c \in MobileConns THEN @ + 1 ELSE @])

\* Slip: only a first connection's spaces are news.
AllOfThem(c) == IF entry.present THEN {} ELSE conn[c].spaces

\* The spaces no connection has recorded before.
Added(c) == conn[c].spaces \ Kept(c)

\* connectPresence: those the person left meanwhile are told first.
Connect(c) ==
    LET e == Counting(c)
        toComputer == e.mobile /\ ~OnlyMobile(e)
        later == ToMobile(e)
        now == IF later THEN Armed(e) ELSE [e EXCEPT !.mobile = @ /\ ~toComputer]
    IN
    /\ conn[c].phase = "subscribed" /\ hold.op = "free"
    /\ entry' = now
    /\ timers' = FiredTimers \cup (IF later THEN {[TimerOf(now) EXCEPT !.since = @ + 1]} ELSE {})
    /\ hold' = [Held("connect", Dropped(c), FALSE) EXCEPT
                  !.conn = {c}, !.added = Added(c), !.all = toComputer]
    /\ conn' = Phase(c, "connecting")
    /\ UNCHANGED <<heard, silent, blurred, world>>

\* Do not disturb has been read: a change to it, or a computer joining a
\* person on mobile, is told everywhere.
TellConnected ==
    /\ hold.op = "connect" /\ hold.say = {}
    /\ \E dndChanged \in BOOLEAN :
          hold' = Publishing(IF dndChanged \/ hold.all THEN entry.spaces ELSE hold.added \cap entry.spaces, TRUE)
    /\ conn' = [c \in Conns |-> IF c \in hold.conn THEN [conn[c] EXCEPT !.phase = "open"] ELSE conn[c]]
    /\ UNCHANGED <<entry, timers, heard, silent, blurred, world>>

\* The subscription goes, with what it holds unread.
Closed == [phase |-> "closed", spaces |-> {}, inbox |-> <<>>]

\* disconnectPresence; now is for a session that ended.
Disconnect(c, now) ==
    LET e == [entry EXCEPT !.conns = @ - 1,
                           !.mobileConns = IF c \in MobileConns THEN @ - 1 ELSE @]
        gone == e.conns = 0 /\ (now \/ ~Grace)
        toMobile == e.conns > 0 /\ ToMobile(e)
        waits == ~gone /\ (e.conns = 0 \/ (toMobile /\ Grace))
    IN
    /\ conn[c].phase = "open" /\ hold.op = "free"
    /\ entry' = CASE gone -> NoEntry(entry.id)
                  [] waits -> Armed(e)
                  [] OTHER -> [e EXCEPT !.mobile = @ \/ toMobile]
    /\ timers' = CASE gone -> FiredTimers
                   [] waits -> FiredTimers \cup {TimerOf(Armed(e))}
                   [] OTHER -> timers
    /\ hold' = IF gone THEN Publishing(entry.spaces, FALSE)
               ELSE IF toMobile /\ ~Grace THEN Publishing(entry.spaces, TRUE) ELSE Free
    /\ conn' = [conn EXCEPT ![c] = Closed]
    /\ blurred' = blurred \cup {conn[c].inbox[i].space : i \in DOMAIN conn[c].inbox}
                          \cup {n.space : n \in {m \in news : ~m.joined}}
    /\ UNCHANGED <<heard, silent, world>>

\* applyControlEvent, on the oldest event the connection has not read: it
\* hears a space the person joined from then on ...
AddTopic(c) ==
    LET s == Head(conn[c].inbox).space IN
    /\ conn[c].phase = "open" /\ conn[c].inbox # <<>> /\ Head(conn[c].inbox).joined
    /\ s \notin conn[c].spaces
    /\ conn' = [conn EXCEPT ![c].spaces = @ \cup {s}]
    /\ UNCHANGED <<entry, timers, hold, heard, silent, blurred, world>>

\* ... and counts and tells it under the lock; one they left is dropped
\* without it.
HearJoined(c) ==
    LET s == Head(conn[c].inbox).space IN
    /\ conn[c].phase = "open" /\ conn[c].inbox # <<>> /\ Head(conn[c].inbox).joined
    /\ s \in conn[c].spaces /\ hold.op = "free"
    /\ conn' = [conn EXCEPT ![c].inbox = Tail(@)]
    /\ entry' = [entry EXCEPT !.spaces = @ \cup {s}]
    /\ hold' = Publishing({s} \ entry.spaces, TRUE)
    /\ UNCHANGED <<timers, heard, silent, blurred, world>>

HearRemoved(c) ==
    LET s == Head(conn[c].inbox).space IN
    /\ conn[c].phase = "open" /\ conn[c].inbox # <<>> /\ ~Head(conn[c].inbox).joined
    /\ conn' = [conn EXCEPT ![c].inbox = Tail(@), ![c].spaces = @ \ {s}]
    /\ entry' = [entry EXCEPT !.spaces = @ \ {s}]
    /\ silent' = IF told[s].online THEN silent \cup {s} ELSE silent
    /\ UNCHANGED <<timers, hold, heard, blurred, world>>

\* Do not disturb is set on a device, or reaches its end.
DndChanged ==
    /\ entry.present /\ hold.op = "free"
    /\ hold' = Publishing(entry.spaces, TRUE)
    /\ UNCHANGED <<conn, entry, timers, heard, silent, blurred, world>>

-----------------------------------------------------------------------------
(* The person makes, joins and leaves spaces *)

Subscribed(c) == conn[c].phase \in {"subscribed", "connecting", "open"}

\* A move is in the database first, and published when its call goes on: two
\* of one space may be published in either order.
Committed(joined, s) ==
    /\ moves > 0 /\ moves' = moves - 1
    /\ news' = news \cup {[joined |-> joined, space |-> s, at |-> moves]}
    /\ blurred' = blurred \cup {n.space : n \in {m \in news : m.space = s}}
    /\ UNCHANGED <<made, conn, entry, timers, hold, heard, silent>>

Join(s) == s \in made \ member /\ member' = member \cup {s} /\ Committed(TRUE, s)

\* Removed, left, or the space deleted.
Leave(s) == s \in member /\ member' = member \ {s} /\ Committed(FALSE, s)

\* Of a space they make, nothing is published.
CreateSpace(s) ==
    /\ s \notin made /\ moves > 0 /\ moves' = moves - 1
    /\ made' = made \cup {s} /\ member' = member \cup {s}
    /\ blurred' = IF \A c \in Conns : conn[c].phase \in {"new", "closed"} THEN blurred ELSE blurred \cup {s}
    /\ UNCHANGED <<news, conn, entry, timers, hold, heard, silent>>

\* Slip: a removal is published to the space's other people only.
ToTheOthers(c, n) == Subscribed(c) /\ n.joined

\* A join is published to the person, a removal to the space.
Hears(c, n) == Subscribed(c) /\ (n.joined \/ n.space \in conn[c].spaces)

\* A connection that listed, and has yet to subscribe; or that has yet to read
\* that they joined.
Misses(c, n) ==
    \/ conn[c].phase = "listed" /\ (n.space \in conn[c].spaces) # n.joined
    \/ /\ Subscribed(c) /\ ~n.joined /\ n.space \notin conn[c].spaces
       /\ \E i \in DOMAIN conn[c].inbox : conn[c].inbox[i] = [joined |-> TRUE, space |-> n.space]

Publish(n) ==
    /\ n \in news /\ news' = news \ {n}
    /\ conn' = [c \in Conns |->
                   IF Hears(c, n)
                   THEN [conn[c] EXCEPT !.inbox = Append(@, [joined |-> n.joined, space |-> n.space])]
                   ELSE conn[c]]
    /\ blurred' = IF \E c \in Conns : Misses(c, n) THEN blurred \cup {n.space} ELSE blurred
    /\ UNCHANGED <<made, member, entry, timers, hold, heard, silent, moves>>

Next ==
    \/ \E s \in Spaces : Announce(s) \/ Join(s) \/ Leave(s) \/ CreateSpace(s)
    \/ \E n \in news : Publish(n)
    \/ \E t \in timers : Fire(t) \/ Settle(t)
    \/ \E c \in Conns :
          \/ ListSpaces(c) \/ Subscribe(c) \/ Connect(c)
          \/ AddTopic(c) \/ HearJoined(c) \/ HearRemoved(c)
          \/ \E now \in BOOLEAN : Disconnect(c, now)
    \/ TellConnected \/ DndChanged

Spec == Init /\ [][Next]_vars

\* Timers fire, who holds the lock goes on, and a mutex goes to who waits for
\* it.
FairSpec ==
    /\ Spec
    /\ WF_vars(TellConnected \/ \E s \in Spaces : Announce(s))
    /\ WF_vars(\E t \in timers : Fire(t)) /\ SF_vars(\E t \in timers : Settle(t))

-----------------------------------------------------------------------------
(* Properties *)

\* Every piece of state has the shape the code gives it, and the entry
\* counts the connections there are.
TypeOK ==
    /\ made \subseteq Spaces /\ member \subseteq made
    /\ news \subseteq [joined : BOOLEAN, space : Spaces, at : 1 .. MaxMoves]
    /\ conn \in [Conns -> [phase : {"new", "listed", "subscribed", "connecting", "open", "closed"},
                           spaces : SUBSET Spaces, inbox : Seq([joined : BOOLEAN, space : Spaces])]]
    /\ entry \in [id : 0 .. Cardinality(Conns), present : BOOLEAN, conns : 0 .. Cardinality(Conns),
                  mobileConns : 0 .. Cardinality(MobileConns), mobile : BOOLEAN,
                  spaces : SUBSET Spaces, settling : Nat]
    /\ entry.conns = Cardinality({c \in Conns : conn[c].phase \in {"connecting", "open"}})
    /\ \A t \in timers : t \in [id : 1 .. entry.id, generation : Nat, fired : BOOLEAN, since : Nat]
    /\ hold \in [op : {"free", "connect", "publish"}, conn : SUBSET Conns, added : SUBSET Spaces,
                 all : BOOLEAN, say : SUBSET Spaces, online : BOOLEAN]
    /\ told \in [Spaces -> [online : BOOLEAN, mobile : BOOLEAN]]
    /\ shown \in BOOLEAN /\ {silent, blurred} \subseteq SUBSET Spaces
    /\ moves \in 0 .. MaxMoves

\* With no announcement under way, each space was last told what the table
\* says: online there, and on mobile or not, or offline, whatever connected,
\* settled or was removed meanwhile.  Only a space left is told nothing
\* (presence.go hold; gateway.go connectPresence, settleNow).
ToldAsCounted ==
    hold.op = "free" =>
        \A s \in Spaces :
            IF s \in entry.spaces THEN told[s] = [online |-> TRUE, mobile |-> entry.mobile]
            ELSE told[s].online => s \in silent

\* A space is told the person is offline only when they are no longer
\* counted there, however listings, removals and reconnects interleave with
\* the publishes (gateway.go connectPresence, presence.go connect, hold).
NoStaleOffline ==
    [][\A s \in Spaces : told[s].online /\ ~told'[s].online => s \notin entry.spaces]_vars

\* A timer takes the person offline only if no connection was made since it
\* was armed, though it fired before it could be stopped and the entry it
\* was armed for has been dropped and made anew (presence.go settleNow).
GraceIsWhole ==
    [][\A t \in timers \ timers' :
          t.fired /\ entry.present /\ ~entry'.present => t.since = Ever]_vars

\* An entry whose last connection closed, or that is to move to mobile, has
\* a timer that will still find it so; no other entry has one (presence.go
\* armSettle, stopSettle).
EntryIsSettled ==
    LET unsettled == entry.present /\ (entry.conns = 0 \/ (~entry.mobile /\ OnlyMobile(entry)))
    IN unsettled <=> \E t \in timers : StillArmed(t)

\* Once a move is published and every connection has read its events, the
\* person is counted where they are a member, whatever was joined, left and
\* joined again over several connections.  Excepted is a space of a move that
\* a connection could not hear: it fell between its listing and subscription,
\* or before it had read of the join; its own connection closed first; two
\* were published in either order; or the space was made, which is not
\* published (gateway.go subscribe, applyControlEvent).
Unpublished(s) == \E n \in news : n.space = s
CountedAsMember ==
    hold.op = "free" /\ entry.conns > 0
      /\ (\A c \in Conns : conn[c].phase = "open" => conn[c].inbox = <<>>)
        => \A s \in Spaces \ blurred : ~Unpublished(s) => (s \in entry.spaces <=> s \in member)

\* With no connection left, every space is told the person is offline in the
\* end, or they come back (presence.go settleNow).
OfflineIsTold ==
    (\A c \in Conns : conn[c].phase # "open") ~>
        \/ \E c \in Conns : conn[c].phase = "connecting"
        \/ \A s \in Spaces : told[s].online => s \in silent

\* web/src/stores/connection.ts: "Users with a live connection who share a
\* space with us (from Ready, kept current by PresenceChanged)."
OnlineIsShown == hold.op = "free" /\ entry.spaces # {} => shown

\* docs/architecture/realtime.md: "So joining a space mid-session starts
\* delivering its events on the same socket, and being kicked stops it — with
\* no reconnect".
HearsAsMember ==
    \A c \in Conns :
        conn[c].phase = "open" /\ conn[c].inbox = <<>> /\ news = {} => conn[c].spaces = member
=============================================================================
