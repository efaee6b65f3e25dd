---------------------------- MODULE ChannelLog ----------------------------
(***************************************************************************)
(* One channel's log, end to end: the server that stamps every message     *)
(* write with the channel's next seq (internal/chat), the bus and socket   *)
(* that carry the write's event to one client (internal/events,            *)
(* internal/realtime), the two RPCs the client reads rows with             *)
(* (ListMessages, ListChanges), and the client's log, which must know      *)
(* every change through its position (web/src/core/channelLog,             *)
(* web/src/api/channelLog*.ts).                                            *)
(*                                                                         *)
(* A message is a row of parts.  What a part holds is abstracted to the    *)
(* seq of the write that set it and the one bit the rules read (is the     *)
(* content gone, is the pin on), so two copies of a part are the same      *)
(* exactly when the same write set them.  A row whose seq is 0 is no row.  *)
(* Messages here are top-level ones; the ranges of a view are not modelled, *)
(* so a page is any set of the rows a channel shows.                       *)
(***************************************************************************)
EXTENDS Integers, Sequences, FiniteSets

CONSTANTS
    MaxMsg,       \* bound: how many messages are ever sent
    MaxSeq,       \* bound: how many writes the channel takes
    MaxConn,      \* bound: how many times the socket is opened
    MaxForget,    \* bound: how many times the channel leaves the screen
    MaxPages,     \* bound: how many pages are asked for per opening
    Loads,        \* the ListMessages requests that can be out at once
    ChangesLimit, \* CATCH_UP_PAGE, the rows a ListChanges page holds
    Buffer,       \* subscriptionBuffer, the events a subscription holds
    MaxPins,      \* maxChannelPins
    Writes,       \* the kinds of write (beside a send) that happen
    WholePages,   \* whether a page lists every row shown (a short channel)
    Retention,    \* whether messages age past the retention cutoff
    ReloadFails,  \* whether a reload before an event can fail
    Failures      \* how a request of the client can fail: "passing", "final"

WriteKinds == {"edit", "react", "pin", "unpin", "delete"}

ASSUME BoundsAssumption ==
    /\ MaxMsg \in Nat /\ MaxSeq \in Nat /\ MaxConn \in Nat /\ MaxForget \in Nat
    /\ MaxPages \in Nat
    /\ ChangesLimit \in Nat \ {0} /\ Buffer \in Nat \ {0} /\ MaxPins \in Nat
    /\ Writes \subseteq WriteKinds
    /\ {WholePages, Retention, ReloadFails} \subseteq BOOLEAN
    /\ Failures \subseteq {"passing", "final"}

Msgs == 1 .. MaxMsg  \* UUIDv7 ids, minted in order under the channel row

VARIABLES
    \* The server's tables.
    channelSeq,   \* channels.seq: the last position spent
    made,         \* how many messages were ever created
    messages,     \* the message rows
    cutoff,       \* the retention floor's id now, 0 when retention is off
    expired,      \* what the running sweep's ListExpiredMessages returned
    \* Between a write's commit and the client's socket.
    reloading,    \* committed writes whose row is still to be reloaded
    outbox,       \* events of committed writes, still to be published
    lost,         \* how many events a failed reload swallowed
    subscribed,   \* whether the bus still knows the socket's subscription
    status,       \* the client's connection status
    conn,         \* which connection this is, the first being 1
    greeting,     \* Ready, sent before any event, is on its way
    wire,         \* what the subscription holds, in order
    \* The client's log.
    seq,          \* the position through which every change is known
    seenSeq,      \* the highest seq an event has carried
    rows,         \* the rows held, tombstones included
    floor,        \* the highest retention floor an answer has carried
    needsCatchUp, \* a ListChanges is owed
    hasPage,      \* a page has set the position
    pages,        \* how many pages were asked for since it was last empty
    forgets,      \* how many times the log was forgotten
    \* Requests out.
    load,         \* the ListMessages requests
    run,          \* the channel's one catch-up run
    \* History, read by no action.
    vouched,      \* rows no event was patched onto over a gap
    posConn       \* the connection under which seq was last set by a load

server == <<channelSeq, made, messages, cutoff, expired>>
delivery == <<reloading, outbox, lost, subscribed, status, conn, greeting, wire>>
log == <<seq, seenSeq, rows, floor, needsCatchUp, hasPage, forgets>>
history == <<vouched, posConn>>
Outside == <<server, delivery>>
vars == <<server, delivery, log, pages, load, run, history>>

-----------------------------------------------------------------------------
(* Rows *)

Parts == {"content", "reactions", "pin"}
Values == {"text", "gone", "none", "some", "on", "off"}
Part == [at : Nat, is : Values]
Row == [seq : Nat, part : [Parts -> Part]]

WrittenAt(n, value) == [at |-> n, is |-> value]

Blank == [content |-> "text", reactions |-> "none", pin |-> "off"]
Fresh(n) == [seq |-> n, part |-> [p \in Parts |-> WrittenAt(n, Blank[p])]]
NoRow == Fresh(0)

Exists(r) == r.seq > 0
Deleted(r) == r.part["content"].is = "gone"
Pinned(r) == r.part["pin"].is = "on"
Live(r) == Exists(r) /\ ~Deleted(r)

WithPart(r, n, p, value) ==
    [seq |-> n, part |-> [r.part EXCEPT ![p] = value]]

\* tombstoneOf, the client's: nothing of the row is kept but its pin flag,
\* which a hidden row shows to nobody.
Tombstone(r, n) ==
    [seq |-> n, part |-> [r.part EXCEPT !["content"] = WrittenAt(n, "gone"),
                                        !["reactions"] = WrittenAt(n, "none")]]

\* r knows every change to the row t made at or before position n.
Knows(r, t, n) ==
    \A p \in Parts : t.part[p].at <= n =>
        r.part[p] = t.part[p] \/ (p = "pin" /\ Deleted(r))

-----------------------------------------------------------------------------
(* Merging *)

\* Slip: the server's copy wins whatever its seq.
WinsIfServers(copy, held, fromServer) ==
    Exists(copy) /\ (copy.seq > held.seq \/ fromServer)

\* mergeRows: the higher seq wins, and the server's whole row wins a tie.
Wins(copy, held, fromServer) ==
    Exists(copy) /\ (copy.seq > held.seq \/ (fromServer /\ copy.seq = held.seq))

Merged(held, copies, fromServer) ==
    [m \in Msgs |-> IF Wins(copies[m], held[m], fromServer) THEN copies[m] ELSE held[m]]

Higher(a, b) == IF a > b THEN a ELSE b

\* withFloor: top-level rows below the floor go, unless pinned.
AboveFloor(held, f) ==
    [m \in Msgs |-> IF m < f /\ ~Pinned(held[m]) THEN NoRow ELSE held[m]]

NoRows == [m \in Msgs |-> NoRow]

-----------------------------------------------------------------------------
(* Requests: a ListMessages or a ListChanges on its way.  The handler reads *)
(* the channel row first, then the rows (hydrated, and the floor).         *)

Steps == {"idle", "asked", "counted", "answered", "backoff"}

\* step: how far the request is; since: the seq a ListChanges is asked from;
\* top: channels.seq as the handler read it; rows, more, floor: the answer;
\* conn: the live subscription when top was read (0: none); early: asked
\* before the log had a page.
Request == [step : Steps, since : Nat, top : Nat, rows : [Msgs -> Row],
            more : BOOLEAN, floor : Nat, conn : Nat, early : BOOLEAN]

Idle == [step |-> "idle", since |-> 0, top |-> 0, rows |-> NoRows,
         more |-> FALSE, floor |-> 0, conn |-> 0, early |-> FALSE]

Asked(n) == [Idle EXCEPT !.step = "asked", !.since = n]

Counted(q) == [q EXCEPT !.step = "counted", !.top = channelSeq,
                        !.conn = IF subscribed THEN conn ELSE 0]

Listed(q, ms, more) ==
    [q EXCEPT !.step = "answered", !.more = more, !.floor = cutoff,
              !.rows = [m \in Msgs |-> IF m \in ms THEN messages[m] ELSE NoRow]]

-----------------------------------------------------------------------------
(* Events *)

Kinds == {"row", "deleted", "patch"}
Event == [kind : Kinds, msg : Msgs, seq : Nat, row : Row, p : Parts, value : Part]

RowEvent(m, r) == [kind |-> "row", msg |-> m, seq |-> r.seq, row |-> r,
                   p |-> "content", value |-> r.part["content"]]
DeletedEvent(m, n) == [kind |-> "deleted", msg |-> m, seq |-> n, row |-> NoRow,
                       p |-> "content", value |-> WrittenAt(n, "gone")]
PatchEvent(m, n, p, value) == [kind |-> "patch", msg |-> m, seq |-> n, row |-> NoRow,
                               p |-> p, value |-> value]

\* A write whose event is made from its row, reloaded after the commit ...
Reload == [msg : Msgs, seq : Nat, kind : {"edit", "react"}]
\* ... and an event to publish, with the seq of the write it is about.
Outgoing == [of : Nat, event : Event]

-----------------------------------------------------------------------------
TypeOK ==
    /\ channelSeq \in Nat /\ made \in 0 .. MaxMsg
    /\ messages \in [Msgs -> Row]
    /\ cutoff \in Nat /\ expired \in SUBSET Msgs
    /\ reloading \in SUBSET Reload /\ outbox \in SUBSET Outgoing /\ lost \in Nat
    /\ subscribed \in BOOLEAN /\ status \in {"down", "connected"}
    /\ conn \in Nat /\ greeting \in BOOLEAN
    /\ wire \in Seq(Event) /\ Len(wire) <= Buffer
    /\ seq \in Nat /\ seenSeq \in Nat /\ rows \in [Msgs -> Row]
    /\ floor \in Nat /\ needsCatchUp \in BOOLEAN /\ hasPage \in BOOLEAN
    /\ forgets \in Nat /\ pages \in Nat
    /\ load \in [Loads -> Request] /\ run \in Request
    /\ vouched \in SUBSET Msgs /\ posConn \in Nat

Init ==
    /\ channelSeq = 0 /\ made = 0 /\ messages = NoRows
    /\ cutoff = 0 /\ expired = {}
    /\ reloading = {} /\ outbox = {} /\ lost = 0
    /\ subscribed = FALSE /\ status = "down" /\ conn = 0
    /\ greeting = FALSE /\ wire = <<>>
    /\ seq = 0 /\ seenSeq = 0 /\ rows = NoRows /\ floor = 0
    /\ needsCatchUp = FALSE /\ hasPage = FALSE /\ forgets = 0 /\ pages = 0
    /\ load = [l \in Loads |-> Idle] /\ run = Idle
    /\ vouched = {} /\ posConn = 0

-----------------------------------------------------------------------------
(* The server's writes.  Each is one transaction that takes the channel row *)
(* first, so writes commit one at a time, in seq order.                    *)

\* Slip: a write to a row there is moves the channel's seq and not the row's.
CommitUnstamped(m, r, told, reloads) ==
    LET held == messages[m]
    IN /\ channelSeq < MaxSeq
       /\ channelSeq' = r.seq
       /\ messages' = [messages EXCEPT ![m] =
                          IF Exists(held) THEN [r EXCEPT !.seq = held.seq] ELSE r]
       /\ outbox' = outbox \cup {[of |-> r.seq, event |-> e] : e \in told}
       /\ reloading' = reloading \cup {[msg |-> m, seq |-> r.seq, kind |-> k] : k \in reloads}
       /\ UNCHANGED <<cutoff, expired, lost, subscribed, status, conn, greeting, wire>>
       /\ UNCHANGED <<log, pages, load, run, history>>

\* told: the events the handler has in hand for publishing; reloads: the
\* kinds whose event waits on a reload of the row.
Commit(m, r, told, reloads) ==
    /\ channelSeq < MaxSeq
    /\ channelSeq' = r.seq
    /\ messages' = [messages EXCEPT ![m] = r]
    /\ outbox' = outbox \cup {[of |-> r.seq, event |-> e] : e \in told}
    /\ reloading' = reloading \cup {[msg |-> m, seq |-> r.seq, kind |-> k] : k \in reloads}
    /\ UNCHANGED <<cutoff, expired, lost, subscribed, status, conn, greeting, wire>>
    /\ UNCHANGED <<log, pages, load, run, history>>

NextSeq == channelSeq + 1

SendMessage ==
    /\ made < MaxMsg
    /\ made' = made + 1
    /\ Commit(made + 1, Fresh(NextSeq), {RowEvent(made + 1, Fresh(NextSeq))}, {})

\* An edit, or the link previews fetched after a send (stampPreviewed).
EditMessage(m) ==
    /\ "edit" \in Writes /\ Live(messages[m])
    /\ Commit(m, WithPart(messages[m], NextSeq, "content", WrittenAt(NextSeq, "text")),
              {}, {"edit"})
    /\ UNCHANGED made

ToggleReaction(m) ==
    /\ "react" \in Writes /\ Live(messages[m])
    /\ Commit(m, WithPart(messages[m], NextSeq, "reactions", WrittenAt(NextSeq, "some")),
              {}, {"react"})
    /\ UNCHANGED made

PinEvent(m, value) == PatchEvent(m, NextSeq, "pin", WrittenAt(NextSeq, value))

PinMessage(m) ==
    /\ "pin" \in Writes /\ Live(messages[m]) /\ ~Pinned(messages[m])
    /\ Cardinality({k \in Msgs : Pinned(messages[k])}) < MaxPins
    /\ Commit(m, WithPart(messages[m], NextSeq, "pin", WrittenAt(NextSeq, "on")),
              {PinEvent(m, "on")}, {})
    /\ UNCHANGED made

UnpinMessage(m) ==
    /\ "unpin" \in Writes /\ Pinned(messages[m])
    /\ Commit(m, WithPart(messages[m], NextSeq, "pin", WrittenAt(NextSeq, "off")),
              {PinEvent(m, "off")}, {})
    /\ UNCHANGED made

DeleteMessage(m) ==
    /\ "delete" \in Writes /\ Live(messages[m])
    /\ Commit(m, WithPart(Tombstone(messages[m], NextSeq), NextSeq,
                          "pin", WrittenAt(NextSeq, "off")),
              {DeletedEvent(m, NextSeq)}, {})
    /\ UNCHANGED made

\* Time passes, or an administrator changes message_retention_days.
MoveCutoff ==
    /\ Retention
    /\ cutoff' \in 0 .. made + 1 /\ cutoff' # cutoff
    /\ UNCHANGED <<channelSeq, made, messages, expired>>
    /\ UNCHANGED <<delivery, log, pages, load, run, history>>

\* SweepMessages lists first, outside any transaction ...
ListExpired ==
    /\ Retention /\ expired = {}
    /\ expired' = {m \in Msgs : m < cutoff /\ Exists(messages[m]) /\ ~Pinned(messages[m])}
    /\ expired' # {}
    /\ UNCHANGED <<channelSeq, made, messages, cutoff>>
    /\ UNCHANGED <<delivery, log, pages, load, run, history>>

\* ... and deletes what it listed under the channel row: no seq, no event.
SweepChannel ==
    /\ expired # {}
    /\ messages' = [m \in Msgs |-> IF m \in expired THEN NoRow ELSE messages[m]]
    /\ expired' = {}
    /\ UNCHANGED <<channelSeq, made, cutoff>>
    /\ UNCHANGED <<delivery, log, pages, load, run, history>>

-----------------------------------------------------------------------------
(* From a commit to the client.  Handlers publish after their transaction,  *)
(* in no order; some reload the row first, which may have changed again.    *)

\* The whole row for an edit, at the seq it has by now; for a reaction, the
\* reactions there are by now at the toggle's own seq.
Reloaded(w) ==
    IF w.kind = "edit" THEN RowEvent(w.msg, messages[w.msg])
    ELSE PatchEvent(w.msg, w.seq, "reactions", messages[w.msg].part["reactions"])

ReloadRow(w) ==
    /\ Exists(messages[w.msg])
    /\ reloading' = reloading \ {w}
    /\ outbox' = outbox \cup {[of |-> w.seq, event |-> Reloaded(w)]}
    /\ UNCHANGED <<lost, subscribed, status, conn, greeting, wire>>
    /\ UNCHANGED <<server, log, pages, load, run, history>>

\* The write is saved; the reload fails (or finds the row swept): no event.
LoseEvent(w) ==
    /\ ReloadFails \/ ~Exists(messages[w.msg])
    /\ reloading' = reloading \ {w}
    /\ lost' = lost + 1
    /\ UNCHANGED <<outbox, subscribed, status, conn, greeting, wire>>
    /\ UNCHANGED <<server, log, pages, load, run, history>>

\* Slip: the buffer has no limit.
PublishUnlimited(o) ==
    /\ outbox' = outbox \ {o}
    /\ wire' = IF subscribed THEN Append(wire, o.event) ELSE wire
    /\ UNCHANGED <<reloading, subscribed, lost, status, conn, greeting>>
    /\ UNCHANGED <<server, log, pages, load, run, history>>

\* Slip: an event a full buffer cannot take is skipped, the socket kept.
PublishOrSkip(o) ==
    /\ outbox' = outbox \ {o}
    /\ wire' = IF subscribed /\ Len(wire) < Buffer THEN Append(wire, o.event) ELSE wire
    /\ UNCHANGED <<reloading, subscribed, lost, status, conn, greeting>>
    /\ UNCHANGED <<server, log, pages, load, run, history>>

\* A subscription whose buffer is full is dropped rather than waited for.
Publish(o) ==
    /\ outbox' = outbox \ {o}
    /\ IF subscribed /\ Len(wire) < Buffer
       THEN wire' = Append(wire, o.event) /\ UNCHANGED subscribed
       ELSE subscribed' = FALSE /\ UNCHANGED wire
    /\ UNCHANGED <<reloading, lost, status, conn, greeting>>
    /\ UNCHANGED <<server, log, pages, load, run, history>>

\* The gateway subscribes, upgrades and sends Ready before any event.
Connect ==
    /\ status = "down" /\ conn < MaxConn
    /\ status' = "connected" /\ subscribed' = TRUE
    /\ conn' = conn + 1 /\ greeting' = TRUE /\ wire' = <<>>
    /\ UNCHANGED <<reloading, outbox, lost, server, log, pages, load, run, history>>

Disconnect ==
    /\ status = "connected"
    /\ status' = "down" /\ subscribed' = FALSE
    /\ greeting' = FALSE /\ wire' = <<>>
    /\ UNCHANGED <<reloading, outbox, lost, conn, server, log, pages, load, run, history>>

\* The gateway closes the socket once a dropped subscription is drained.
HangUp == ~subscribed /\ ~greeting /\ wire = <<>> /\ Disconnect

-----------------------------------------------------------------------------
(* The client's log *)

\* catchUp: one run per channel; callers meanwhile share it.
StartsRun(owed, paged, from) ==
    run' = IF run.step = "idle" /\ owed /\ paged THEN Asked(from) ELSE run

\* Slip: a load that sets the position pays every debt.
PositionedAndPaid(n) == seq' = n /\ needsCatchUp' = FALSE

\* positioned: a load set the position; only an event seen above it leaves
\* the catch-up owed.
Positioned(n) == seq' = n /\ needsCatchUp' = (seenSeq > n)

\* reconnected, on Ready.
ReceiveReady ==
    /\ greeting /\ greeting' = FALSE
    /\ needsCatchUp' = TRUE
    /\ StartsRun(TRUE, hasPage, seq)
    /\ UNCHANGED <<seq, seenSeq, rows, floor, hasPage, forgets>>
    /\ UNCHANGED <<reloading, outbox, lost, subscribed, status, conn, wire>>
    /\ UNCHANGED <<server, pages, load, history>>

\* The held row as the event has it.
Changed(e, held) ==
    IF e.kind = "row" THEN e.row
    ELSE IF e.kind = "deleted" THEN Tombstone(held, e.seq)
    ELSE IF Exists(held) THEN WithPart(held, e.seq, e.p, e.value) ELSE NoRow

\* Slip: an event further on moves the position as the next one does.
ApplyEventOverGap(e) ==
    LET copy == Changed(e, rows[e.msg])
        taken == Wins(copy, rows[e.msg], FALSE)
    IN /\ rows' = IF taken THEN [rows EXCEPT ![e.msg] = copy] ELSE rows
       /\ seenSeq' = Higher(seenSeq, e.seq)
       /\ seq' = IF hasPage THEN e.seq ELSE seq
       /\ vouched' = IF taken /\ e.kind # "patch" THEN vouched \cup {e.msg} ELSE vouched
       /\ UNCHANGED needsCatchUp

\* withEvent above the position, and applyEvent's start of the catch-up.
ApplyEvent(e) ==
    LET held == rows[e.msg]
        copy == Changed(e, held)
        taken == Wins(copy, held, FALSE)
        covered == e.kind # "patch" \/ Exists(held)
        follows == hasPage /\ covered /\ e.seq = seq + 1
    IN /\ rows' = IF taken THEN [rows EXCEPT ![e.msg] = copy] ELSE rows
       /\ seenSeq' = Higher(seenSeq, e.seq)
       /\ seq' = IF follows THEN e.seq ELSE seq
       /\ needsCatchUp' = (needsCatchUp \/ (hasPage /\ ~follows))
       /\ vouched' = IF ~taken \/ (e.kind = "patch" /\ follows) THEN vouched
                     ELSE IF e.kind = "patch" THEN vouched \ {e.msg}
                     ELSE vouched \cup {e.msg}

ReceiveEvent ==
    /\ ~greeting /\ wire # <<>>
    /\ wire' = Tail(wire)
    /\ IF hasPage /\ Head(wire).seq <= seq
       THEN UNCHANGED <<rows, seenSeq, seq, needsCatchUp, vouched>>
       ELSE ApplyEvent(Head(wire))
    /\ StartsRun(needsCatchUp', hasPage, seq')
    /\ UNCHANGED <<floor, hasPage, forgets, posConn>>
    /\ UNCHANGED <<reloading, outbox, lost, subscribed, status, conn, greeting>>
    /\ UNCHANGED <<server, pages, load>>

\* Slip: the floor is the last answer's.
TakeRowsFloorFalls(q) ==
    /\ floor' = q.floor
    /\ rows' = AboveFloor(Merged(rows, q.rows, TRUE), floor')

\* A page's rows and floor into the log.
TakeRows(q) ==
    /\ floor' = Higher(floor, q.floor)
    /\ rows' = AboveFloor(Merged(rows, q.rows, TRUE), floor')

Won(q) == {m \in Msgs : Wins(q.rows[m], rows[m], TRUE)}

\* ListMessages, as a view opens, pages, jumps or is refreshed.
AskPage(l) ==
    /\ load[l].step = "idle"
    /\ pages < MaxPages /\ pages' = pages + 1
    /\ load' = [load EXCEPT ![l] = Counted([Idle EXCEPT !.early = ~hasPage])]
    /\ UNCHANGED <<Outside, log, run, history>>

ListPage(l) ==
    /\ load[l].step = "counted"
    /\ LET shown == {m \in Msgs : Live(messages[m])}
       IN \E ms \in IF WholePages THEN {shown} ELSE SUBSET shown :
             load' = [load EXCEPT ![l] = Listed(@, ms, FALSE)]
    /\ UNCHANGED <<Outside, log, pages, run, history>>

\* opened: the log's first page sets its position, a later one never does.
OpenFirst(l) ==
    LET q == load[l] IN
    /\ q.step = "answered" /\ ~hasPage
    /\ TakeRows(q)
    /\ hasPage' = TRUE /\ Positioned(q.top)
    /\ StartsRun(needsCatchUp', TRUE, seq')
    /\ posConn' = q.conn
    /\ vouched' = Won(q) \cup {m \in vouched : Exists(q.rows[m])}
    /\ load' = [load EXCEPT ![l] = Idle]
    /\ UNCHANGED <<seenSeq, forgets, pages, Outside>>

\* Slip: every page sets the position, as the first does.
TakePagePositions(l) ==
    LET q == load[l] IN
    /\ q.step = "answered" /\ hasPage
    /\ TakeRows(q)
    /\ Positioned(Higher(seq, q.top))
    /\ StartsRun(needsCatchUp', TRUE, seq')
    /\ vouched' = IF q.early THEN vouched \ Won(q) ELSE vouched \cup Won(q)
    /\ load' = [load EXCEPT ![l] = Idle]
    /\ UNCHANGED <<seenSeq, hasPage, forgets, pages, posConn, Outside>>

\* A later page: opened and jumped settle (a catch-up owed by then starts),
\* paged and refreshed only merge.
TakePage(l) ==
    LET q == load[l] IN
    /\ q.step = "answered" /\ hasPage
    /\ TakeRows(q)
    /\ \E settles \in BOOLEAN : StartsRun(settles /\ needsCatchUp, TRUE, seq)
    /\ vouched' = IF q.early THEN vouched \ Won(q) ELSE vouched \cup Won(q)
    /\ load' = [load EXCEPT ![l] = Idle]
    /\ UNCHANGED <<seq, seenSeq, needsCatchUp, hasPage, forgets, pages, posConn, Outside>>

\* A page asked for a range that was replaced meanwhile is dropped (which
\* ranges were is not modelled); opened and jumped settle even so.
DropPage(l) ==
    /\ load[l].step = "answered" /\ hasPage /\ \E k \in Loads : k # l
    /\ load' = [load EXCEPT ![l] = Idle]
    /\ \E settles \in BOOLEAN : StartsRun(settles /\ needsCatchUp, TRUE, seq)
    /\ UNCHANGED <<Outside, log, pages, history>>

FailPage(l) ==
    /\ Failures # {} /\ load[l].step # "idle"
    /\ load' = [load EXCEPT ![l] = Idle]
    /\ UNCHANGED <<Outside, log, pages, run, history>>

-----------------------------------------------------------------------------
(* The catch-up run *)

OnTheWay == {"asked", "counted", "answered"}

CountChanges ==
    /\ run.step = "asked"
    /\ run' = Counted(run)
    /\ UNCHANGED <<Outside, log, pages, load, history>>

\* The first rows after since in seq order, tombstones included.
FirstChanges(ms) ==
    LET changed == {m \in Msgs : messages[m].seq > run.since}
    IN /\ ms \subseteq changed
       /\ Cardinality(ms) <= ChangesLimit
       /\ ms = changed \/ Cardinality(ms) = ChangesLimit
       /\ \A m \in ms, k \in changed \ ms : messages[m].seq < messages[k].seq

ListChanges ==
    /\ run.step = "counted"
    /\ \E ms \in SUBSET Msgs :
          /\ FirstChanges(ms)
          /\ run' = Listed(run, ms, Cardinality(ms) = ChangesLimit)
    /\ UNCHANGED <<Outside, log, pages, load, history>>

\* The positions the answer leads to: the highest of low and its rows' seqs.
Highest(low) ==
    LET seqs == low \cup {run.rows[m].seq : m \in Msgs}
    IN {n \in seqs : \A k \in seqs : k <= n}

\* caughtUp on a page with more behind it: the position stays, and the next
\* page is asked from the last row's seq (nextSince).
MergeChanges ==
    /\ run.step = "answered" /\ run.more
    /\ TakeRows(run)
    /\ vouched' = vouched \cup Won(run)
    /\ \E n \in Highest({run.since}) : run' = Asked(n)
    /\ UNCHANGED <<seq, seenSeq, needsCatchUp, hasPage, forgets, posConn, pages, load, Outside>>

\* Slip: the position is the answer's, below one events reached meanwhile.
CaughtUpBelow ==
    /\ run.step = "answered" /\ ~run.more
    /\ TakeRows(run)
    /\ vouched' = vouched \cup Won(run)
    /\ \E n \in Highest({run.top}) : Positioned(n)
    /\ run' = IF needsCatchUp' THEN Asked(seq') ELSE Idle
    /\ posConn' = run.conn
    /\ UNCHANGED <<seenSeq, hasPage, forgets, pages, load, Outside>>

\* Slip: the run ends with its last page, whatever is still owed.
CaughtUpOnce ==
    /\ run.step = "answered" /\ ~run.more
    /\ TakeRows(run)
    /\ vouched' = vouched \cup Won(run)
    /\ \E n \in Highest({seq, run.top}) : Positioned(n)
    /\ run' = Idle
    /\ posConn' = run.conn
    /\ UNCHANGED <<seenSeq, hasPage, forgets, pages, load, Outside>>

\* caughtUp on the last page; the run's next pass follows if still owed.
CaughtUp ==
    /\ run.step = "answered" /\ ~run.more
    /\ TakeRows(run)
    /\ vouched' = vouched \cup Won(run)
    /\ \E n \in Highest({seq, run.top}) : Positioned(n)
    /\ run' = IF needsCatchUp' THEN Asked(seq') ELSE Idle
    /\ posConn' = run.conn
    /\ UNCHANGED <<seenSeq, hasPage, forgets, pages, load, Outside>>

\* Slip: a failure ends the run, the socket open or not.
FailChangesForGood ==
    /\ "passing" \in Failures /\ run.step \in OnTheWay
    /\ run' = Idle
    /\ UNCHANGED <<Outside, log, pages, load, history>>

\* A failure that can pass is tried again while the socket is open.
FailChanges ==
    /\ "passing" \in Failures /\ run.step \in OnTheWay
    /\ run' = IF status = "connected" THEN [Idle EXCEPT !.step = "backoff"] ELSE Idle
    /\ UNCHANGED <<Outside, log, pages, load, history>>

\* One that cannot (no access, signed out) ends the run.
RefuseChanges ==
    /\ "final" \in Failures /\ run.step \in OnTheWay
    /\ run' = Idle
    /\ UNCHANGED <<Outside, log, pages, load, history>>

RetryChanges ==
    /\ run.step = "backoff"
    /\ run' = IF needsCatchUp /\ hasPage THEN Asked(seq) ELSE Idle
    /\ UNCHANGED <<Outside, log, pages, load, history>>

\* The channel leaves the screen and opens again: a new epoch, and what was
\* out answers to nobody.
Forget ==
    /\ forgets < MaxForget /\ forgets' = forgets + 1
    /\ seq' = 0 /\ seenSeq' = 0 /\ rows' = NoRows /\ floor' = 0
    /\ needsCatchUp' = FALSE /\ hasPage' = FALSE
    /\ load' = [l \in Loads |-> Idle] /\ run' = Idle
    /\ vouched' = {} /\ posConn' = 0 /\ pages' = 0
    /\ UNCHANGED Outside

-----------------------------------------------------------------------------
Server ==
    \/ SendMessage
    \/ \E m \in Msgs : \/ EditMessage(m) \/ ToggleReaction(m) \/ PinMessage(m)
                       \/ UnpinMessage(m) \/ DeleteMessage(m)
    \/ MoveCutoff \/ ListExpired \/ SweepChannel

Delivery ==
    \/ \E w \in reloading : ReloadRow(w) \/ LoseEvent(w)
    \/ \E o \in outbox : Publish(o)
    \/ Connect \/ Disconnect
    \/ ReceiveReady \/ ReceiveEvent

Page(l) ==
    \/ AskPage(l) \/ ListPage(l)
    \/ OpenFirst(l) \/ TakePage(l) \/ DropPage(l) \/ FailPage(l)

CatchUp ==
    \/ CountChanges \/ ListChanges \/ MergeChanges \/ CaughtUp
    \/ FailChanges \/ RefuseChanges \/ RetryChanges

Next == Server \/ Delivery \/ (\E l \in Loads : Page(l)) \/ CatchUp \/ Forget

Spec == Init /\ [][Next]_vars

\* Handlers publish what they committed, sockets drain and reopen, answers
\* are awaited.  Failures that can pass do pass: a run begins again from its
\* first page after each, so nothing weaker lets a run of two pages end.
Fairness ==
    /\ WF_vars(\E w \in reloading : ReloadRow(w) \/ LoseEvent(w))
    /\ WF_vars(\E o \in outbox : Publish(o))
    /\ WF_vars(Connect) /\ WF_vars(HangUp)
    /\ WF_vars(ReceiveReady \/ ReceiveEvent)
    /\ \A l \in Loads : /\ WF_vars(ListPage(l))
                        /\ WF_vars(OpenFirst(l) \/ TakePage(l) \/ DropPage(l))
    /\ WF_vars(CountChanges \/ ListChanges \/ MergeChanges \/ CaughtUp \/ RetryChanges)
    /\ <>[][~FailChanges]_vars

FairSpec == Spec /\ Fairness

-----------------------------------------------------------------------------
(* What the log promises *)

\* What the client can be held to know: rows an unbroken sequence or a whole
\* row vouches for, still on the server and never below a floor.
Judged == {m \in vouched : m >= floor /\ Exists(rows[m]) /\ Exists(messages[m])}

\* Every change made to a row through the log's position is in the held copy
\* (types.ts: "the log position through which every change is known"), for
\* each row no event was patched onto over a gap.
KnownThroughPosition ==
    hasPage => \A m \in Judged : Knows(rows[m], messages[m], seq)

\* An event seen above the position is never forgotten: until the position
\* reaches it, whatever pages and catch-ups answer, a catch-up is owed
\* (position.ts).
GapIsOwed ==
    hasPage /\ seenSeq > seq => needsCatchUp

\* Nothing is on its way to the log, and nothing is owed.
Settled ==
    /\ hasPage /\ ~needsCatchUp /\ subscribed /\ ~greeting /\ wire = <<>>
    /\ reloading = {} /\ outbox = {} /\ lost = 0 /\ run = Idle /\ \A l \in Loads : load[l] = Idle

\* A settled log whose position was last set by a load read under the
\* connection still up is the server's: the position is the channel's and
\* every judged row is the server's row.
QuietMeansCurrent ==
    Settled /\ posConn = conn =>
        /\ seq = channelSeq
        /\ \A m \in Judged : Knows(rows[m], messages[m], channelSeq)

\* No held copy is ahead of the server's row, nor the position of the
\* channel's, though events arrive before, after and without their answers.
NotAhead ==
    /\ seq <= channelSeq /\ seenSeq <= channelSeq
    /\ \A m \in Msgs : Exists(messages[m]) => rows[m].seq <= messages[m].seq

\* A message the client knows deleted never comes back while its row is held,
\* whatever stale copy arrives (tombstone.ts).
StaysDeleted ==
    [][\A m \in Msgs : Exists(rows[m]) /\ Deleted(rows[m]) /\ Exists(rows'[m])
            => Deleted(rows'[m])]_rows

\* A log's position never goes back: an answer counted before events moved
\* it on does not undo them (caughtUp's Math.max).
PositionStands ==
    [][hasPage /\ hasPage' => seq <= seq']_<<hasPage, seq>>

\* The socket is down and will not be opened again within the bound.
DownForGood == ~subscribed /\ conn = MaxConn

\* A debt is paid: a catch-up owed while the socket lives is run, retried
\* and run again until nothing is owed (catchUpUntilDone).
DebtIsPaid ==
    hasPage /\ needsCatchUp ~> ~hasPage \/ ~needsCatchUp \/ DownForGood

\* An event once received is covered: the position reaches its seq.
SeenIsCovered ==
    \A n \in 1 .. MaxSeq :
        hasPage /\ seenSeq = n ~> ~hasPage \/ seq >= n \/ DownForGood

-----------------------------------------------------------------------------
(* Claims the code does not keep *)

\* A settled log under a live socket has caught up with what the socket
\* missed (catchUp.ts: "The socket is back: whatever was missed is owed").
ReconnectIsCaughtUp ==
    Settled => \A m \in Judged : Knows(rows[m], messages[m], channelSeq)

\* As KnownThroughPosition, of every row held, once nothing is owed.
EveryChangeKnown ==
    hasPage /\ ~needsCatchUp =>
        \A m \in Msgs : m >= floor /\ Exists(rows[m]) /\ Exists(messages[m])
            => Knows(rows[m], messages[m], seq)

\* The sweep keeps a pinned message (retention_sweep.go: "pinned ones excepted").
PinnedIsKept ==
    [][\A m \in Msgs : Pinned(messages[m]) => Exists(messages'[m])]_messages

=============================================================================
