# Stoop in TLA+

Stoop is a self-hosted community chat: one Go process beside Postgres and
LiveKit, a web client and a mobile client. This directory specifies the parts
of it whose correctness depends on the order in which things happen, checks
them with TLC on small instances and proves what matters most with TLAPS.

| part | modules | what is hard about it |
|---|---|---|
| channel log | `ChannelLog` | a client whose socket drops, loses and delays events comes to hold what the server has |
| job queue | `Jobs`, implementing `LaneQueue` | leases lapse, dispatchers stop and crash, lanes stay in order |
| files | `FileStore`, `Attachments`, `Avatars` | two stores without a common transaction, a sweep, a retention pass and retried jobs at once |
| outgoing webhooks | `HookFeed`, `Webhooks` | a subscription that is replaced, deliveries tried beside each other, a log written beside the queue |
| presence | `Presence` | many connections of one person, grace timers that fire too late, announcements that must come out in order |
| voice rooms | `VoiceRooms` | a token cannot be revoked: a lost right is enforced by a call and its repeat |

    tlc -workers 2 -config gaps.cfg MCChannelLog.tla     # one run
    tlapm ChannelLogProofs.tla                           # one module's proofs

`PROJECT.json` maps every definition to the source lines it stands for, names
what each run checks, the seeded slips that each property must catch, the
hazards of the code and the disagreements found. A definition whose comment
begins with "Slip:" is such a seeded slip and is used by no action.

## 1. The system

| component | state it keeps | operations | talks to |
|---|---|---|---|
| `internal/chat`, messages | `messages`, `channels.seq`, pins, reactions, threads | send, edit, react, pin, delete, list, list changes, retention sweep | Postgres; publishes to the bus after each commit |
| `internal/chat`, the rest | spaces, channels, members, invites, DMs, activity, mutes | request-response, mostly one transaction each | Postgres, bus, voice rooms |
| `internal/events` | topics, subscriptions with a bounded buffer | publish, subscribe, add and remove a topic, drop a full subscriber | everyone in the process |
| `internal/eventrelay` | the open batch of an event sent in pieces | notify, assemble, reconnect | Postgres NOTIFY, bus |
| `internal/realtime` | sockets, presence with grace timers, voice roster | serve a socket, forward, re-verify, announce | bus, auth, chat |
| `web/src/core/channelLog` | rows, position, highest seq seen, floor, views | apply an event, a page, a catch-up; prune; close a thread | pure, called by the next |
| `web/src/api/channelLog*` | logs by channel, requests out, epochs, catch-up runs | open, page, jump, catch up, forget | RPC, socket |
| `web/src/api/ws.ts` | socket and connection status | connect, Ready, retry | gateway, channel logs |
| `internal/jobs` | `jobs`, `job_schedules`, `job_dispatchers`, in-flight sets | enqueue, lease, renew, finish, release, discard a lane | Postgres; performers |
| `internal/auth` | accounts, sessions, lockouts, one-time codes | register, sign in, reset, revoke | Postgres, kv, bus |
| `internal/instance` | settings | read, write, health | Postgres |
| `internal/files`, `blob` | file rows, blobs, uploads in flight | upload, claim, serve, sweep, expire, normalise an image | disk, chat's references, jobs |
| `internal/voice` | pending repeats of room calls | token, room calls | LiveKit |
| `internal/integrations` | hooks, deliveries, a bus subscription | fan out, deliver, disable, send again | jobs, bus, HTTP |
| `internal/kv`, `ratelimit` | bounded maps with expiry | get, update, evict | in process |
| `internal/upgrade` | compose files, a backup | stage, switch, roll back | docker, HTTP |

The behaviours that are hard, and the property that would make each component
right:

* **Channel log.** Events are published after the commit, from whichever
  handler gets there first, so they arrive in any order; a row is reloaded
  before its event, so the event may carry a later state; a full subscription
  is dropped; requests answer in any order, and an answer may be older than an
  event already applied. Right when the client never counts itself past a
  change it has not got, never forgets a gap, catches up when it can, and never
  brings back a deleted message.
* **Job queue.** Several dispatchers lease rows with a deadline; a lease lapses
  under a live worker; a process crashes or stops with rows in hand. Right when
  one attempt's outcome is recorded once, a stale attempt never lands on a later
  one, a lane runs one job at a time in order, and no job is lost.
* **Files.** Blob and row are two writes; claims race the sweep, pins race
  retention, a picture's job is retried after answers that were lost. Right when
  what is served has its bytes, a referenced file is never swept and an
  unreferenced one eventually is, and only re-encoding passes the quota.
* **Outgoing webhooks.** The subscriber is dropped and starts over while hooks
  are made; fan-outs and deliveries run again beside themselves. Right when a
  hook is heard, its deliveries are numbered and heard in order, and the log
  never loses what the receiver has not taken.
* **Presence.** Grace timers race reconnects; connections of one person join and
  leave spaces, each hearing of it by itself. Right when others were last told
  the truth and no grace is cut short.
* **Voice rooms.** LiveKit checks a token once. Right when whoever loses a right
  to be in a call is called out of it, whatever they were in the middle of.
* **Event relay, auth, upgrade**: see section 12 and the hazards in
  `PROJECT.json`, each at the line where it bites.

How the parts compose: `HookFeed` ends where a fan-out job is queued and
`Webhooks` begins where it runs; `Webhooks` and `Avatars` keep of the job queue
exactly what `Jobs` shows of it (numbered attempts, a lane in order, an attempt
that runs on beside the next one, an outcome that is written only if its lease
is the latest), and `LaneQueue` states that interface once; `Attachments` and
`Avatars` extend `FileStore`.

## 2. The plan, and where it stands

Done: ChannelLog; Jobs and its abstract specification LaneQueue; files; webhooks;
presence; voice rooms; the proofs of section 11, which state the safety of every
component for all values of its constants.

Left, in this order:

1. **An abstract log** (`LogPromise`): a client that at each moment knows a
   prefix of the channel's changes, forgets on closing and may know more of a
   row; ChannelLog shown to implement it, from the invariant `KnowInv` of
   section 11.
2. **ChannelViews**: the ranges a list shows, pages at their edges, jumps,
   pruning past `LOG_CAP`, generations, a thread's view closing; then threads'
   replies and summaries over the same seq.
3. **EventRelay**, and the voice roster of the gateway.
4. **The schedules** that enqueue jobs, the sweep of finished rows.
5. **One-time codes and the lockout** of auth; **Upgrade**.

## 3. ChannelLog

One module holds server, delivery and client, because every property is about
the relation between the server's rows and the client's.

**Server.** `channelSeq`, `messages`, `made`, `cutoff`, `expired`. A row is its
seq and three parts (content, reactions, pin); a part is the seq of the write
that set it and the one bit the rules read. Every write (`SendMessage`,
`EditMessage`, `ToggleReaction`, `PinMessage`, `UnpinMessage`, `DeleteMessage`)
goes through `Commit`: in the code each holds the channel's row for the
transaction (`stampMessage`, `NextChannelSeq`), so a write is atomic and the
seqs have no holes. `ListExpired` and `SweepChannel` are the retention sweep's
two steps; `MoveCutoff` is time passing.

**Between commit and socket.** `reloading` holds the writes whose event needs
its row reloaded (edits, and previews that arrive late), `outbox` the events
ready to publish; either may be delayed behind later writes. `ReloadRow` reads
the row as it is by then; `LoseEvent` is the failed reload after which no event
goes out. `Publish` puts the event in the subscription or, when its buffer is
full, drops the subscription (`removeLocked`); an event that finds no
subscription is gone.

**Socket.** `Connect` is subscribe, upgrade, `onopen` and the sending of Ready
(one step: nothing can reach the client in between); `Disconnect` is either end
closing, `HangUp` the gateway closing a socket whose subscription was dropped.
What the wire holds is lost with it.

**Client.** `seq`, `seenSeq`, `rows`, `floor`, `needsCatchUp`, `hasPage` are the
fields of the type `ChannelLog`. `ReceiveEvent` is `applyEvent`/`withEvent`;
`ReceiveReady` is `reconnected`. A page is asked (`AskPage`), read by the server
in two steps (`AskPage` also reads the channel's seq, which `ListMessages` does
before anything else; `ListPage` reads the rows), and taken as the first page
(`OpenFirst`), as a later one (`TakePage`) or not at all (`DropPage`, a replaced
range; `FailPage`). The catch-up is the channel's one run: `CountChanges` reads
the channel's seq, `ListChanges` the rows and the floor, `MergeChanges` takes a
page with more to come, `CaughtUp` the last one, and `FailChanges`,
`RefuseChanges`, `RetryChanges` are the runner's errors. `Forget` closes the
channel and opens it again; what was out is dropped, as the epochs in
`channelLogStore.ts` do.

**History.** `vouched` and `posConn` are read by no action. `vouched` is the set
of rows the client can be held to know: a whole row brought by an event, a page
or a catch-up vouches for itself; a row a partial event was patched onto over a
gap does not, nor one held from before the first page which the page did not
list, nor one brought by a page asked for before the first one, until a whole
copy replaces it. `posConn` is the connection under which a load last set the
position. Without `vouched` the property is false, which the configuration
`patched_gap` shows; with it, it is the strongest statement the code does keep.

Not in the module: threads and their summaries, view ranges and pruning, the
reader's own optimistic patches and answers (`patchRow`, `holdRow`), attachments,
mentions, permissions. `DropPage` stands for every reason a page's generation
can have moved. Data the rules do not read is left out of rows.

## 4. Jobs, LaneQueue

`Jobs.tla` is the queue between its table and its dispatchers.

**The table.** `jobs` maps each job to its row: state, attempt, `max_attempts`,
whether its lease is absent, live or lapsed, whether `not_before` has come, and
whether it is younger than `handBackWindow`. Time is only what the queries
compare with it: `FallDue`, `GrowOld`, `Lapse` and `LapseUnderWorker` are
deadlines passing. A job's number is its place in its lane's sequence; whether
rows also *arrive* in that order is a constant: in a fan-out's lane the number is
taken as the row is queued, in an image target's lane (`LateLanes`) the number is
the moment the request came in and the row follows when the bytes are stored. A
webhook's lane is the first kind until something is sent again, which queues an old
number behind later ones; what that does is modelled in `Webhooks`, and `LaneInOrder`
speaks of lanes numbered as they are queued. `DiscardLane` is its query; `discarded` remembers it
for the properties, no guard reads it but its own.

**A dispatcher.** `process` is its life: up, stopping (the context has ended and
the workers have their grace), releasing, leaving, down. `work` is what it has
of each job, which is `inflight`: held (in `attempts`), writing (claimed by its
worker) or drained (shutdown's to release), with the attempt and the
`max_attempts` of the row as leased. `Lease` is one row of `leaseBatch`, with the
lane's head, the cap's count and the free workers in its guard; a batch is a
sequence of them, since one statement takes at most one head of a lane and the
cap is counted under its lock. `LoseLease` is the lease whose answer is lost.
`Renew` is `ExtendJobLease`, shown only where it changes something. `Claim`, then
`Succeed`, `HandBack`, `GiveUp`, `Retry` or `LoseOutcome` are `perform` after the
performer returns; what a performer does is only the error it returns.
`Drain`, `Release` or `FailRelease`, and `Leave` are `shutdown`; `Crash` is a
killed process.

**History.** `leases` counts the leases each job was given, and `work`'s copy of
it says which lease a hand belongs to: no action's guard reads either.

Not in the module: schedules, the sweep of finished rows, waking and
heartbeats, the order among due rows (any may be taken), kinds no performer is
registered for, a job's arguments and counters.

**The promise.** `LaneQueue` is what callers of `Register`, `Enqueue` and
`EnqueueInLane` are told, with no dispatcher, lease or attempt in it: a job waits,
is begun at least once before it ends, ends once, and is begun only when nothing
put before it in its lane still waits. `Jobs` implements it under the mapping of
`Queue == INSTANCE LaneQueue`: a row that is queued or running waits, and one
ever leased has begun. A discarded lane is the exception the code makes: its
waiting jobs may end unbegun, and one still being performed may end otherwise
later.

## 5. Files: FileStore, Attachments, Avatars

`FileStore` is the files table and the blob store, and what an upload, a deletion
and the sweep do to a file whoever owns it. `life` is where a file is on its way
(checked against the quota, stored, a pending, live or expired row, gone), `blob`
the bytes that are there, `doomed` the blobs a call still running has yet to
delete. `CheckQuota`, `StoreBlob`, `RecordRow`, `RefuseRow` and `RecordUnheard`
are `storeFile`, whose insert sums the quota under a lock; `CommitUnheard` is an
insert that commits with its answer lost, after which `storeFile` takes the blob
back under a row that stands, and `lost` remembers such rows. `Size` has each file's
bytes as sent and as kept once its row is ready, and `Stored` what the quota sums;
`SweepList`, `SweepAsk`, `SweepDelete`, `SweepSkip`, `SweepStrays` and `SweepStop` are
one pass of the `sweep_files` job.

`Attachments` adds messages and retention. `CheckClaim` is `claimAttachments` before
the transaction and `Claim` the insert within it; `Tombstone` the deletion of a
message and `DeleteFiles` what follows its commit; `ReadPinned`, `ListExpiring`,
`DropExpiring`, `DropThumbnails`, `MarkExpired` are the retention pass in the order of
its statements; `MakeThumbnail` and `RecordThumbnail` the thumbnail job, which asks
the quota nothing and whose insert may go unheard as an upload's may: the retry then
finds the row and stops. `raced` and `pinnedLate` remember the two windows in which
the code loses a file (section 10), and no action reads them.

`Avatars` is an account's picture. `Upload` and `Enqueue` are the request;
`Lease`, `GiveUp` and `Die` what the queue does to the `normalise_image` job;
`GetFile` to `DeletePending` its statements, each of which may fail
(`Stumble`) or succeed with its answer lost (`ReadyUnheard`, `PointUnheard`). `Ready`
rewrites the row's size with no look at the quota, so the total may pass it:
`GrowthAlonePasses` says by how much.

Abstractions: a file's two sizes are constants; the two ages that matter (past
the sweep's grace, past the retention period) are passed or not, and none is
passed while a sweep runs, for a pass counts from its beginning; one pass of each
job at a time, as their lanes have it; the blob deletions of a call in any order.

## 6. Outgoing webhooks: HookFeed, Webhooks

`HookFeed` is `RunSubscriber`: `ListTopics`, `Subscribe` and `Store` are the three
steps between which a hook may be made (`InsertHook`, then `WatchSpace` on
whatever subscription is stored), `Consume` queues a fan-out with
`NextSequence`, `Resubscribe` follows a dropped subscription, `Restart` a process.
`Publish` is the bus, which hands the event over or drops the subscription.
The clock that stamps events is any clock: publishers stamp before they publish.
A listing that fails and is tried again is left out; it is a longer `ListTopics`.

`Webhooks` is one space's events from fan-out to receiver. `FanOut` is the
transaction of `FanOutWebhookEvent`, run by the lane's head (`RunFanOut`) or by an
attempt that outlived its lease (`LateFanOut`). An attempt is `Lease` (the head of
the hook's lane), `ReadHook` (the hook as it is then: gone or off, nothing is sent),
`Answer` (the POST's, up to ten seconds later), `Record` (`recordAttempt`, and
`settleDead` with it), then `Outcome`; `RecordFails`, `Die` and `GiveUp` are the ways
it stops short. `Redeliver` is Send again, at any moment between those steps: it
queues an old number, which may become the head of the lane while a later delivery
is being answered. So a hook may have two deliveries in flight, and `HeardInOrder`
is about the deliveries that fan-outs queued: each is first taken after all that
were taken before it, in sequence order, except by an attempt that outlived its job.
`SweepLost` is the sweep of rows whose job has gone. `accepted` is history: the
deliveries a receiver answered 2xx.

Abstractions: the instance's policy switch acts as `Toggle` does; an attempt
handed back unsent (`NotSent`) changes nothing and is left out; the queue's
forgetting of a done job is folded into `IsLost`; every hook wants every event of
its space. The operator's egress policy, which turns a hook off when its address is
refused, acts as `Toggle` does. `TestWebhook`, which queues a delivery under the hook's
next number as a fan-out to that hook alone would, and `SweepDeliveries`, which forgets
old finished rows, are left out. In `HookFeed` a
restart begins the history of a lane anew, so a clock set back *across* a restart is
not covered by `LaneAsPublished`.

## 7. Presence

One person. `entry` is their `presenceEntry`, `timers` the grace timers armed and
those that fired and wait, `hold` the person's lock with what its holder has left
to publish, `conn` each connection with the control events it has not read.
`Connect` and `TellConnected` are `connectPresence` before and after do not
disturb is read; `Disconnect` is `disconnectPresence`; `Fire` and `Settle` a timer
and `settleNow`; `Announce` is one publish of a sequence. `ListSpaces` and
`Subscribe` are the two steps of `ServeHTTP` before it.

A move is two steps as well: `Join`, `Leave` (removed, left or the space deleted)
and `CreateSpace` commit it, and `Publish` publishes it when the call goes on, so
two moves of one space may be published in either order; of a space that is made
nothing is published. `Hears` says who an event reaches: a join is published on the
person's topic, a removal on the space's, which a connection is on if it listed the
space or has added it since. `applyControlEvent` is `AddTopic` and, once the lock is
had, `HearJoined`; `HearRemoved` does not take the lock, as in the code, and is one
step, since what it does to the subscription and to the table meets no lock between.

`told` is what each space was last told; `shown` what a viewer who shares every
space takes for true. `silent` and `blurred` are history: the spaces left with
nothing told, and the spaces of a move that some connection could not hear. Those
are a move published between a connection's listing and its subscription, a removal
published while the connection has the join unread, one unread or unpublished as a
connection closed, two published in an order nobody vouches for, and a space made
while a connection was open.

Abstractions: every subscription keeps up; do not disturb is kept
to its announcements; a restart, which forgets everything and closes every
socket, is left out. `Grace = FALSE` is covered by the proofs and not by a run.

## 8. Voice rooms

`join` is each `JoinVoiceChannel` with its two checks (`AskMember`, `AskVoice`)
and its token (`Mint`, `Expire`); `Enter` and `HangUp` are LiveKit's, which is
external: it lets in whoever shows a live token. `RemoveFromSpace`,
`RemoveFromChannel`, `DeleteChannel`, `TurnOff`, `StartDelete` and `DeleteSpace`
are the changes of `internal/chat` that end a right, each with its cleanup after
the commit (`ListRooms`, `CallRoom`); `Ask` and `Repeat` are
`repeatOnceTokensExpire`. `Restart` abandons what waits. `lost` is history: the
rooms for which a call was never made, or made in vain.

Time is one comparison: a repeat waits until every token that was out, or about to
be, when it was set has expired. That joins are answered within `repeatMargin` is
the assumption behind the code's constant; `SlowJoins` are those that are not.
A call and the setting of its repeat are one step, and so are
`AnnounceDeparture`'s two calls. Two facts the model shows and no comment of the
code denies: a remove's repeat is unconditional, so a member who comes back within
the repeat's delay is disconnected once by it; and `DeleteSpace` lists the rooms
before it deletes, or fails to list them and deletes all the same, so a room on no
list is never closed (it is in `lost`).

## 9. What the runs check

| run | question | states |
|---|---|---|
| `gaps` | type, no change believed known that is not, no gap forgotten, a settled log is current, positions stand | 2.0 M |
| `views` | two messages, two pages in flight, deletions and reopening: never ahead of the server; deleted stays deleted | 0.9 M |
| `retention` | no change believed known that is not, across the retention sweep and pins | 1.6 M |
| `live` | what is owed is paid and what is seen is covered | 0.1 M |
| `queue` | type and the workers' bound; a running row is written only by its own lease; lane order; an ended job stays ended; every job ends; the whole implements `LaneQueue` | 0.24 M |
| `cap` | live leases of a capped kind exceed the cap by no more than the leases that lapsed under a worker | 0.25 M |
| `files` | a live row has its bytes, or its insert was taken to have failed; a message keeps its files and a pinned one their bytes; strays go and what is ripe expires | 0.13 M |
| `avatars` | the picture pointed at can be served; only the growth of re-encoded pictures passes the quota; no failed upload costs the picture | 1.9 M |
| `feed` | an enabled hook is heard, and is in the end; a space's fan-outs are numbered as its events were published | 0.06 M |
| `hooks` | numbers without holes; no body let go before the receiver took it; events first heard in order beside what is sent again; delivered rows left alone | 1.6 M |
| `presence` | the space was last told what is counted, and who is counted is a member; no stale offline; timers exactly where one is needed; no grace cut short; offline told in the end | 0.3 M |
| `voice` | whoever may no longer be in a room is owed a call, and is out of it in the end | 0.2 M |

More configurations are kept for a reader with more time, or more doubt:

| configuration | module | what it adds |
|---|---|---|
| `presence_wide` | `Presence` | a second space, so that one is left while another stays, 7.4 M states |
| `voice_wide` | `MCVoiceRooms` | an open and a private channel, 1.8 M states up to symmetry |
| `hooks_live` | `Webhooks` | one event: every delivery in progress finishes |

**Bounds of the channel log.** One message written three times (`MaxMsg`,
`MaxSeq`) gives every relative order of two changes and a later one: one applied,
one missed, one that jumps the gap. Two messages are needed only where a page and
a catch-up can disagree about which rows exist (`views`). Two connections
(`MaxConn`) give one drop and one return; more add no new relation between an
answer and a reconnect. `Buffer = 2` is the least that overflows with an event
still inside, `ChangesLimit = 1` makes every catch-up of two rows a catch-up of
two pages, and two loads suffice for an answer that overtakes another.
`KnownThroughPosition` is in two runs because each opens a different way of
breaking it: lost and reordered events, and rows deleted with no event.

**Of the queue.** Two jobs of one lane are every relation a lane has (a job and
one before it), two dispatchers are a holder and the one that takes over, two
attempts are one that fails and a last one. One lapse under a worker, one stop or
crash and one write, lease or release that fails may each come at any moment; the
proofs of section 11 need none of these bounds. `cap` has three jobs, a cap of one
and two lapses, so that the overrun reaches two, and an attempt handed back.

**Of the files.** An attachment and its thumbnail are the only pair whose rows depend
on each other; two faults let a call and its clean-up both be cut short. Three
pictures (the one there, a good one that grows as it is re-encoded, and an unusable
one) under a quota of two make the quota bind and be passed, and two attempts with one
overlap are a stale attempt and its successor.

**Of the webhooks.** Two hooks in two spaces: one whose space is listened to
already and one made beside. Three events overflow a buffer of two. Two events,
two attempts and one resend are each order of a delivery and the one it shares a
number with or runs beside; one overlap and one fault, at any moment.

**Of presence and voice.** Three connections give a last one closing beside one
that connects, and a phone's that is last; two moves are a join and a removal, each
committed and published when it likes, before, between and after what the
connections read; one space (two in `presence_wide`, and any number in the proofs,
where only the announcements of several spaces meet). Two joins are one before and one
after a right is lost; two changes that end a right and two that give one let it
be taken, given and taken again.

The bounds that stop a run are guards (`MaxSeq`, `MaxFaults`, `MaxMoves` and so
on), and jobs that have all ended have nothing left to do; because of them the
systems do stop, so deadlock is not checked.

**Fairness of `live`.** A handler that has committed reloads and publishes;
the socket reconnects (`retry` never gives up) and is hung up on when its
subscription is dropped; events in it are taken; requests are answered and
their answers taken; the runner continues. Each is weak fairness of that step
alone. A write, a disconnect, a forgotten channel are never required.
`<>[][~FailChanges]_vars` says failures that can pass do pass in the end: a run
of several pages starts again from its first page after each failure
(`catchUpUntilDone`), so a catch-up that fails every other page never ends, and
no weaker fairness of the code's steps would promise that it does. A failure
that cannot pass (`RefuseChanges`: signed out, no access) ends the run with the
debt standing, which is why `live` allows passing failures only.

**Fairness of `queue`.** Deadlines pass. A job that stays leasable is leased by
some dispatcher: the poll is the backstop (`RunDispatcher`), and due rows without
a lane are taken oldest first. Performers return and outcomes are written within
`outcomeTimeout`; a release is tried and the process leaves within its timeouts;
a dispatcher that is down is started again. Nothing requires a job to be queued,
a stop, a crash, a failure or a success. What `JobEnds` promises is that a job is
ended, not that it succeeded: it may be discarded with its attempts spent.

**Fairness of the others.** `files`: both jobs are on a schedule and a pass goes
on statement by statement; a file grows old (strong fairness, for it does not
while a pass runs); no upload, claim or pin is required. `feed` and `hooks_live`:
the subscriber's goroutine, the dispatchers and the sweep go on. `presence`:
timers fire and publishes return; a timer that fired gets the person's lock in the
end (strong fairness, `sync.Mutex` hands itself to whoever has waited a
millisecond). `voice`: requests are answered, tokens expire, timers go off. In
none of them is a failure, a crash or a person's act required.

## 10. Where the code and its comments disagree

Each of these has a configuration of its own, in which TLC shows the code doing
other than a comment or a document says:

    tlc -config reconnect.cfg MCChannelLog.tla

| configuration | module | what happens |
|---|---|---|
| `reconnect` | `MCChannelLog` | an answer read before the drop and applied after the return clears the reconnect's debt (`position.ts:8`) |
| `patched_gap` | `MCChannelLog` | a patch applied before the first page makes a row claim a seq whose content it lacks, and an event that is next in line moves the position over it (`events.ts:31`) |
| `pinned` | `MCChannelLog` | the sweep deletes by a list read before the pin (`messages.sql:152`) |
| `stale_outcome` | `MCJobs` | a release gives its attempt back, and the row is again at the attempt of an older lease, whose outcome then lands (`jobs.sql:97`); never on a running row: that is `OutcomeIsCurrent`, proved |
| `over_cap` | `MCJobs` | a renewal revives a lapsed lease whose place under the cap was given away (`jobs.sql:90`) |
| `late_upload` | `MCJobs` | an image upload is numbered before it is queued, so it may start beside a later one of its lane (`image_upload.go:98`) |
| `avatar_lost` | `MCAvatars` | two attempts side by side: the second finds the file readied, takes it for gone, and deletes the picture the first has just set (`normalise.go:117`) |
| `dead_body` | `Webhooks` | a delivered row whose body is gone is written dead by an attempt beside it, and cannot be sent again (`deliver.go:243`) |
| `seen_offline` | `Presence` | a person back within the grace who left a space is announced offline there, and a viewer with one list of people takes them for gone (`gateway.go:187`) |
| `missed_move` | `Presence` | a removal published while the join is unread, or a space just made, never reaches an open connection (`members.go:243`, `spaces.go:25`) |
| `lost_thumb` | `MCAttachments` | a thumbnail's insert commits with its answer lost: its blob is deleted, the row stays, and the retry stops at it (`thumbnail.go:71`) |
| `quota_grown` | `MCAvatars` | a picture that fits as sent is larger as kept, and the total passes the quota (`normalise.go:114`) |
| `two_in_flight` | `Webhooks` | a delivery sent again is leased while a later one of its hook is being answered (`outgoing.go:222`) |
| `new_call` | `MCVoiceRooms` | a close's repeat asks whether voice is on and then ends the call people have begun since (`voice/rooms.go:132`) |
| `slow_join` | `MCVoiceRooms` | a join that takes longer than `repeatMargin` mints a token that outlives the repeat (`voice/service.go:111`) |

Others are exceptions the properties of passing runs had to name, and would be false
without: a file claimed while the sweep holds it on its list (`raced`, `sweep.go:79`),
a message pinned during a retention pass (`pinnedLate`, `retention.go:66`), a hook
made between a listing and its storing (`late`, `subscriber.go:261`), a move between a
listing and its subscription, or one that could not be heard (`blurred`,
`gateway.go:62`, `members.go:243`), a row whose insert was taken to have failed
(`lost`, `service.go:267`), an answer read before a reconnect (`posConn`), a row
patched over a gap (`vouched`), a delivery's attempt that outlived its job
(`OutlivedItsJob`), two attempts at a picture side by side (`overlaps`), and a repeat
that a stop abandons (`lost` of the voice rooms). What an exception covers is not
covered by its property: those windows are open in the code. Two are read off the
actions themselves: a file that expires between the check and the insert is claimed
all the same (`chat/attachments.go:71`), and an event lost with a dropped subscription
takes no number, so its loss shows in no receiver's sequence (`subscriber.go:219`).

## 11. What is proved

Every proof is checked by `tlapm` to the last leaf and holds for every value of the
constants that satisfies the module's one assumption on them.

`ChannelLogProofs.tla` (`BoundsAssumption`):

* `TypeCorrect`: `Spec => []TypeOK`.
* `GapAlwaysOwed`: `Spec => []GapIsOwed`.
* `PositionNeverFalls`: `Spec => PositionStands`.
* `NeverAhead`: `Spec => []NotAhead`.
* `DeletedForGood`: `Spec => StaysDeleted`.
* `EveryChangeThroughPosition`: `Spec => []KnownThroughPosition`.
* `QuietLogIsCurrent`: `Spec => []QuietMeansCurrent`.

The first three follow from typing and, for `GapIsOwed`, one case per action:
only `Positioned` and `ApplyEvent` move the position, and each compares it with
`seenSeq`. `NeverAhead` and `DeletedForGood` do not follow from what the client holds
alone, because
a stale copy may be anywhere: on the wire, in a page or a catch-up's answer, in
the outbox. Their invariant, `SaidInv`, speaks of every copy at once. `Said(m, n,
gone)` is what some copy or event *says* of message m: that at seq n it is there
or gone. `EventsSound` bounds what is said by the channel's seq and ties the
position to it; `SaidFits` says no copy says more than the server's row does;
`DeletionIsLast` that nothing said after a deletion's seq says the message is
there; `PositionsFit` bounds answers' positions; `PinnedIsLive` is what lets a
pin's partial event be patched. Each action is shown to add nothing to what is
said but what the server's own row says, and only a write, which spends a new
seq, adds that. So a copy with a higher seq than a tombstone is a tombstone, and
`Wins` does the rest.

`KnownThroughPosition` is about what the copies *contain*, and its inductive invariant,
`KnowInv`, adds to `SaidInv`:

* `ServerKnows`: a row's seq is that of its last write, and of no other row's
  (`Stamped`), a reload pending for a reaction is of a write of nothing
  else (`ReloadsAreOne`), and each event, in the outbox or on the wire, tells all of
  what was written at its seq (`EventsTell`).
* `AllCopiesKnow`: a row in a page or an answer holds every part written through its
  own seq.
* `PagesReach`, `AnswerReaches`, `ReachesSince`: a page's rows reach the position the
  page was read at (`Tops`); what an answer brings, or what is held already, reaches
  the log's position (`Covers`), skips no row below its last while more are to come
  (`SkipsNone`), and when none are, leaves no row short of where the position is
  taken (`Ends`); and while a run is under way, the rows held are the server's
  through its `since`.
* `OpensLast`: until there is a page, no catch-up runs and only loads of the opening
  are out.
* `VouchedKnow`: a held row that no event was patched onto over a gap knows its
  message through its own seq and through the position.

The server and the client are taken apart: `Following` is what a write or a sweep does
to the server's rows, and `ReachLasts` shows that nothing above is undone by it;
`Onward` is what events, pages and answers do to the rows held, and `OnwardKeeps` shows
the same of it. What is left is one lemma for each way a position moves.

`QuietMeansCurrent` needs one thing more, `Hearing`: of the writes that nothing under
the live socket will tell the log of (`Missed`: above `seenSeq`, not in the outbox, not
waiting for a reload nor lost to a failed one, not on the wire), each is at or below the
position, the page's top or the answer's top that was read under that socket. No step
makes the live socket miss a write (`Tuned`): an event is dropped only with the
subscription. In a settled log nothing is left to be told and, by `GapIsOwed`, nothing
was seen above the position, so the position is the channel's, and
`KnownThroughPosition` says the rows are the server's.

`JobsProofs.tla` (`JobsAssumption`), so for any number of jobs, dispatchers, lapses
and crashes:

* `TypeCorrect`: `Spec => []TypeOK`, which includes that no dispatcher has more
  attempts in hand than workers and that an attempt never falls below zero.
* `AlwaysOutcomeIsCurrent`: `Spec => []OutcomeIsCurrent`.
* `AlwaysLaneInOrder`: `Spec => []LaneInOrder`.
* `AlwaysEndedForGood`: `Spec => EndedForGood`.

They share one inductive invariant, `Inv`. The attempt alone does not identify a
lease, because `ReleaseJobs` lowers it; what does is that no two dispatchers hold
the same attempt of a job (`OneHolderAnAttempt`) and none holds one the row has
not reached (`HeldAttempts`). A lease takes an attempt above all of those held;
a release lowers the row only when the releaser holds the row's own attempt,
and all others are then below it. So whoever matches a running row took its
last lease. An outcome that ends a row was written by the only holder of its
attempt, which lets go of it in the same step (`EndedIsLeft`), and only a
discarded lane's rows can end otherwise. Lane order then follows from the head
rule and from lanes filling in order (`NumberedInOrder`), for a job before a
running one is finished and stays so. `Quiet` gathers the steps that neither
lease, end nor release, which is most of them.

* `CapOverrunBounded`: `Spec => []CapOverrun`. `ExtendJobLease` asks nothing of the
  cap, so what must be counted is not the live leases but the rows that count
  (`Counts`): live, or running with a lease lapsed under a worker that may still
  renew it (`Renewable`). `CapInv` says that a kind's renewable rows are no more
  than the lapses spent under a worker, and its rows that count no more than
  `MaxInFlight` and those lapses. A lease finds fewer than `MaxInFlight` live, a
  lapse adds one renewable row and one to the bound, a renewal moves a row that
  counted already; a process that is down tracks nothing (`DownIsEmpty`), so no
  lapsed row comes to be renewable again (`CapSteps`, `CapStep`).
* `ImplementsLaneQueue`: `Spec => QueueSpec`. Each step of `Jobs` is a step of
  `LaneQueue` or changes nothing of it. A lease is `Begin`: the lane's head rule is
  its guard. An outcome is `End` only if its row was begun, so the invariant adds to
  `Inv` that whoever holds a job holds a lease it was given (`HoldersBegan`); an
  outcome that finds its row already ended can only be one of a discarded lane
  (`EndOtherwise`), which is `EndedIsLeft` of `Inv`; a release and a retry leave a
  waiting job waiting.

`AttachmentsProofs.tla` (`FileStoreAssumption`), for any files and thumbnails, any
quota and any number of faults:

* `BytesAlwaysBehindRow`: `Spec => []BytesBehindRow`. A blob is written before its
  row and deleted after it, so the invariant speaks of the files in between
  (`StoresAgree`): a blob is to be deleted only behind a row that is gone or whose
  insert was taken to have failed, an upload's or a thumbnail's (`lost`), a stored
  upload has its bytes, and no age passes over an upload under way.
* `FilesStayWithMessage`: `Spec => MessageKeepsItsFiles`. `ClaimsHold` and
  `ChosenIsRaced` say what a deletion may still have on its list: of files that a
  message has, only those claimed since the list was made.
* `PinnedBytesStay`: `Spec => PinnedKeepsItsBytes`, from `PassSparesPinned`: what a
  retention pass has yet to drop is ripe and not among the files it keeps, and
  what is pinned and not among those was pinned since it began.

`AvatarsProofs.tla` (`FileStoreAssumption`, `AvatarsAssumption`), for any pictures,
attempts, overlaps and faults:

* `PictureIsServed`: `Spec => []BytesBehindAvatar`, from `StoresAgree` as above,
  `JobsFollow` (a job's file was answered for, an attempt that has only the swap
  left has a readied or deleted one) and `PointsAtReady`.
* `QuotaPassedByGrowth`: `Spec => []GrowthAlonePasses`. The invariant is that what was
  asked for, every counted row at the smaller of its two sizes, stays within the
  quota: `RecordRow` sums under the lock, and what is stored is never less than what
  was asked for; `Ready` adds nothing to it; a row that goes takes from it. The rest of
  what is stored is growth (`AskedIs`). The bytes are counted as a set, a file paired
  with each of its bytes, so the sum of the query is a cardinality.
* `PictureKept`: `Spec => PictureStands`. Until an overlap is spent, `OneAtATime`
  holds: one attempt runs, under its job's lease, and nobody but it moves the
  pointer to its picture. So no attempt finds a file readied that it did not ready.

`WebhooksProofs.tla` (`WebhooksAssumption`), for any hooks, events, attempts, overlaps
and faults:

* `NumbersHaveNoHoles`: `Spec => []SequenceHasNoHoles`. A hook's `sequence` is compared
  with the *number* of its rows, so the invariant counts: the proof goes by the
  cardinality of the rows a fan-out adds (`FanOutStep`, `ResendsNumbered`).
* `BodyStaysUntilAccepted`: `Spec => []BodyOrAccepted`, from `OkIsAccepted`: an attempt
  that holds a 2xx verdict is of a delivery that was taken, however late it writes.
* `HooksHeardInOrder`: `Spec => HeardInOrder`, and `DeliveredIsFinal`: `Spec =>
  DeliveredStays`. The head rule orders leases, and an answer comes later, so the
  invariant says of two events' first deliveries that the job of the earlier is over
  once the later has been tried at all (`InLine`), whatever was sent again in between;
  and that until an attempt begins beside another, one that runs is alone and its job
  is queued (`Alone`). So an earlier one can be answered late only by an attempt that
  outlived its job. A delivery's
  attempts are made in turn (`InTurn`), a delivered row was written by an attempt past
  its verdict (`DeliveredWasWritten`), and rows and jobs go together while their hook
  stands (`RowsAndJobs`).

`HookFeedProofs.tla` (`HookFeedAssumption`), so for any clock, buffer and faults:

* `Types`: `Spec => []TypeOK`.
* `HooksAreHeard`: `Spec => []HookIsHeard`. The invariant, `Covers`, says it of a
  subscription from its listing on, before it is open: that is what a hook made
  between the three steps could break, and does (`late`).
* `LanesInOrder`: `Spec => []LaneAsPublished`. The lane's events came before all
  that are in the channel (`LaneBehindChannel`), the channel holds them in order,
  and a number given is above every number in the lane.

`VoiceRoomsProofs.tla` (`VoiceRoomsAssumption`):

* `Types`: `Spec => []TypeOK`.
* `Evictions`: if `SlowJoins = {}`, `Spec => []EvictionIsOwed`. What holds now says
  too little: a call that is owed may be a close's repeat, which a reopened room
  cancels. `OwedInv` asks more: a call that will end this right for certain
  (`Ends`: a removal's, or a close of a room that is still closed or whose member
  is one still), for whoever is in the room; and for whoever has only passed a
  check, or holds a token, one that is to be made *after* that token has expired
  (`TokenOwed`). Each change that ends a right starts such a call, each that gives
  one leaves a removal's standing, and a repeat is spent only when the tokens it
  waited for are over.

`PresenceProofs.tla` (`PresenceAssumption`), for any connections, any spaces, and a
grace or none:

* `EntriesSettle`: `Spec => []EntryIsSettled`, and `GraceKept`: `Spec =>
  GraceIsWhole`, from `TimerInv`: no timer was armed for an entry or a count yet to
  come, at most one timer's count still stands, it stands exactly while the entry
  has something to settle, and it was armed after the last connection was made. A
  stop raises the count, so a timer that could not be stopped no longer stands.
* `ToldTruly`: `Spec => []ToldAsCounted`, and `NeverStale`: `Spec =>
  NoStaleOffline`, from `ToldInv`, which says what each space knows while the lock
  is held: every space but those still to be told. A removal, which does not take
  the lock, only ever takes a space out of the table and adds it to `silent`.
* `CountedTruly`: `Spec => []CountedAsMember`. `NewsInv` says of each space
  that is not blurred (`Truth`): at most the last move is unpublished, and it says what
  is so (`OnePending`); where none is, each connection knows the truth (`Knows`): the
  last event about the space that it has to read tells it (`LastSays`), or, with none,
  it hears the space exactly if the person is a member; the entry has it once no
  connection has such an event left (`EntryReads`); and a space in the entry is heard by
  some connection, so that a removal will reach it (`EntryHears`). A step about one space
  leaves what is so of the others (`OtherSpace`). The lemmas about queues
  (`TailNews`, `AppendNews`) say what reading an event and publishing one does to that.

**Only model-checked.** Every safety property that the runs check is stated by a
theorem above. What stays with TLC is liveness, which with `ENABLED` is outside the
prover: `DebtIsPaid` and `SeenIsCovered` of the log, `JobEnds` of the queue,
`StraysGo` and `RipeExpires` of the files, `HeardInTheEnd` of the hooks, `OfflineIsTold`
of presence, `OutInTheEnd` of the voice rooms. Nothing in the models is recursive.

## 12. Not modelled

* **Views, ranges and pruning of the channel log**: list code over the rows that
  `ChannelLog` models. `ChannelLog` keeps every row until the channel is forgotten
  and lets a page be dropped at any time, so the two hazards of that code
  (`prune.ts:41`, `views.ts:92`) are open. Threads' replies and summaries, optimistic
  patches, mentions, search.
* **Event relay**: pieces of one event over Postgres NOTIFY, used by the commands
  only. Its hazards are listed and open.
* **The voice roster** (`realtime/voice.go`): who is shown in a channel, reported by
  clients. Two tabs of one person reporting at once can have the later report
  published first.
* **Identity, instance, kv, rate limits**: one conditional statement on one row, or
  one map behind one mutex, each; what ends a session reaches the gateway as
  `Disconnect(c, TRUE)`.
* **Upgrade, composition, commands**: sequences of external steps with nothing
  concurrent in them.
* **Both clients outside the channel log, mail, links, tunnels, media, decoding,
  LiveKit's signalling, generated code, migrations**: rendering, wrappers over I/O,
  or code written by a generator. This is most of the repository by lines, and the
  reason why the share of lines the modules stand for is small: they cover the code
  that several actors run at once, which is a small part of it.

LiveKit, Postgres, webhook receivers and the browser are external; Postgres is
modelled as atomic statements and transactions that hold the row they lock, at READ
COMMITTED, where a handler's own steps are separate.
