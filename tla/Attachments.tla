---------------------------- MODULE Attachments ----------------------------
(***************************************************************************)
(* Attachments: uploaded, thumbnailed by a job, claimed by a message       *)
(* (internal/chat), deleted with it, swept when nothing points at them     *)
(* and expired by retention.  All of these run at once, each a sequence of *)
(* statements and blob calls with no transaction around it.                *)
(***************************************************************************)
EXTENDS FileStore

\* Nothing re-encodes an attachment or a thumbnail.
ASSUME AttachmentsAssumption == \A f \in File : Size[f].kept = Size[f].sent

VARIABLES
    attached,   \* files a message carries (message_attachments)
    pinned,     \* those whose message is pinned
    claims,     \* sends past claimAttachments, their message not in yet
    orphans,    \* files of messages deleted, DeleteFiles still to come
    ripe,       \* attachments past the retention period
    retention,  \* the sweep_attachments job
    raced,      \* history: claimed with a deletion already under way
    pinnedLate  \* history: pinned with a retention pass under way

vars == <<store, attached, pinned, claims, orphans, ripe, retention, raced, pinnedLate>>

Att == File \ Thumbnails

chat == <<attached, pinned, claims, orphans, raced, pinnedLate>>
keeping == <<ripe, retention>>

NoPass == [phase |-> "idle", keep |-> {}, todo |-> {}, dropped |-> {}]

Init ==
    /\ StoreInit
    /\ attached = {} /\ pinned = {} /\ claims = {} /\ orphans = {} /\ ripe = {}
    /\ raced = {} /\ pinnedLate = {}
    /\ retention = NoPass

-----------------------------------------------------------------------------
(* Uploads and thumbnails *)

Upload(a) ==
    /\ \/ CheckQuota(a) \/ StoreBlob(a)
       \/ RecordRow(a, "live") \/ RefuseRow(a) \/ RecordUnheard(a, "live")
    /\ UNCHANGED <<chat, keeping>>

\* ThumbnailAttachment up to its Put: the original is a live attachment with
\* no thumbnail yet, and its bytes can be read.
MakeThumbnail(t) ==
    LET a == ThumbOf[t] IN
    /\ life[t] = "new" /\ life[a] = "live" /\ a \notin lost
    /\ ThumbRows({a}) = {} /\ a \in blob
    /\ life' = [life EXCEPT ![t] = "stored"]
    /\ blob' = blob \cup {t}
    /\ UNCHANGED <<lost, doomed, old, stale, sweep, faults, chat, keeping>>

\* CreateThumbnail: the original's row is still there and has no thumbnail.
OneThumbnail(t) == Row(ThumbOf[t]) /\ ThumbRows({ThumbOf[t]}) = {}

\* Through storeFile, as an upload's row, and with no quota in the way.  One
\* that commits unheard is what the job's retry finds, and stops at.
RecordThumbnail(t) ==
    /\ life[t] = "stored"
    /\ \/ /\ OneThumbnail(t)
          /\ life' = [life EXCEPT ![t] = "live"]
          /\ UNCHANGED <<blob, lost, doomed, old, stale, sweep, faults>>
       \/ OneThumbnail(t) /\ CommitUnheard(t, "live")
       \/ RefuseRow(t)
    /\ UNCHANGED <<chat, keeping>>

-----------------------------------------------------------------------------
(* Messages *)

\* claimAttachments: the sender's own live attachment.
CheckClaim(a) ==
    /\ a \notin claims /\ life[a] = "live" /\ a \notin lost
    /\ claims' = claims \cup {a}
    /\ UNCHANGED <<store, attached, pinned, orphans, raced, pinnedLate, keeping>>

\* insertAttachments: the file's row exists and no message has it.
Claim(a) ==
    /\ a \in claims /\ claims' = claims \ {a}
    /\ IF Row(a) /\ a \notin attached
       THEN /\ attached' = attached \cup {a}
            /\ raced' = IF a \in (sweep.todo \cap old) \cup orphans THEN raced \cup {a} ELSE raced
       ELSE UNCHANGED <<attached, raced>>
    /\ UNCHANGED <<store, pinned, orphans, pinnedLate, keeping>>

\* PinMessage, UnpinMessage.
Pin(a) ==
    /\ a \in attached \ pinned
    /\ pinned' = pinned \cup {a}
    /\ pinnedLate' = IF retention.phase # "idle" THEN pinnedLate \cup {a} ELSE pinnedLate
    /\ UNCHANGED <<store, attached, claims, orphans, raced, keeping>>

Unpin(a) ==
    /\ a \in pinned
    /\ pinned' = pinned \ {a} /\ pinnedLate' = pinnedLate \ {a}
    /\ UNCHANGED <<store, attached, claims, orphans, raced, keeping>>

\* tombstoneMessage's transaction: the links and the pin go.
Tombstone(a) ==
    /\ a \in attached
    /\ attached' = attached \ {a} /\ pinned' = pinned \ {a}
    /\ raced' = raced \ {a} /\ pinnedLate' = pinnedLate \ {a}
    /\ orphans' = orphans \cup {a}
    /\ UNCHANGED <<store, claims, keeping>>

\* Slip: the link goes and the pin stays.
CascadeLinks(S) ==
    /\ attached' = attached \ S /\ raced' = raced \ S
    /\ UNCHANGED <<pinned, pinnedLate>>

\* A row's link to its message goes with it (ON DELETE CASCADE).
Cascade(S) ==
    /\ attached' = attached \ S /\ pinned' = pinned \ S
    /\ raced' = raced \ S /\ pinnedLate' = pinnedLate \ S

\* deleteMessageFiles, after the commit.
DeleteFiles(a) ==
    /\ a \in orphans /\ orphans' = orphans \ {a}
    /\ DeleteRows({a}) /\ Cascade({a})
    /\ UNCHANGED <<blob, lost, old, stale, sweep, faults, claims, keeping>>

\* It fails, or the process dies first: the file is the sweep's.
LoseDelete(a) ==
    /\ a \in orphans /\ Fault
    /\ orphans' = orphans \ {a}
    /\ UNCHANGED <<life, blob, lost, doomed, old, stale, sweep,
                   attached, pinned, claims, raced, pinnedLate, keeping>>

-----------------------------------------------------------------------------
(* The sweep *)

Sweep ==
    \/ /\ SweepList \/ SweepAsk(attached) \/ SweepStrays \/ SweepStop
       /\ UNCHANGED <<chat, keeping>>
    \/ \E f \in File : SweepSkip(f) /\ UNCHANGED <<chat, keeping>>
    \/ \E f \in File : SweepDelete(f) /\ Cascade({f})
                       /\ UNCHANGED <<claims, orphans, keeping>>

-----------------------------------------------------------------------------
(* Retention *)

\* The retention period, a day at least, passes over an attachment.
Ripen(a) ==
    /\ a \in old /\ a \notin ripe /\ life[a] = "live"
    /\ ripe' = ripe \cup {a}
    /\ UNCHANGED <<store, chat, retention>>

\* PinnedFileIDs.
ReadPinned ==
    /\ retention.phase = "idle"
    /\ retention' = [NoPass EXCEPT !.phase = "kept", !.keep = pinned]
    /\ UNCHANGED <<store, chat, ripe>>

\* Slip: what is pinned is not left out.
RipeRows == {a \in ripe : life[a] = "live"}

\* Slip: what has no bytes left has expired already.
RipeBlobs == {a \in ripe \cap blob : life[a] = "live"} \ retention.keep

\* ListExpiringAttachments.
Expiring == {a \in ripe : life[a] = "live"} \ retention.keep

ListExpiring ==
    /\ retention.phase = "kept"
    /\ retention' = [retention EXCEPT !.phase = "dropping", !.todo = Expiring]
    /\ UNCHANGED <<store, chat, ripe>>

\* The blob goes first.
DropExpiring(a) ==
    /\ retention.phase = "dropping" /\ a \in retention.todo
    /\ blob' = blob \ {a}
    /\ retention' = [retention EXCEPT !.todo = @ \ {a}, !.dropped = @ \cup {a}]
    /\ UNCHANGED <<life, lost, doomed, old, stale, sweep, faults, chat, ripe>>

KeepExpiring(a) ==
    /\ retention.phase = "dropping" /\ a \in retention.todo /\ Fault
    /\ retention' = [retention EXCEPT !.todo = @ \ {a}]
    /\ UNCHANGED <<life, blob, lost, doomed, old, stale, sweep, chat, ripe>>

\* deleteThumbnailsOf: the rows, then the blobs.
DropThumbnails ==
    /\ retention.phase = "dropping" /\ retention.todo = {}
    /\ LET thumbs == ThumbRows(retention.dropped) IN
       /\ life' = [f \in File |-> IF f \in thumbs THEN "gone" ELSE life[f]]
       /\ doomed' = doomed \cup thumbs
    /\ retention' = [retention EXCEPT !.phase = "marking"]
    /\ UNCHANGED <<blob, lost, old, stale, sweep, faults, chat, ripe>>

\* ExpireFiles updates the rows that are still there.
Marked == {a \in retention.dropped : Row(a)}

MarkExpired ==
    /\ retention.phase = "marking"
    /\ life' = [f \in File |-> IF f \in Marked THEN "expired" ELSE life[f]]
    /\ retention' = NoPass /\ pinnedLate' = {}
    /\ UNCHANGED <<blob, lost, doomed, old, stale, sweep, faults,
                   attached, pinned, claims, orphans, raced, ripe>>

RetentionStop ==
    /\ retention.phase # "idle" /\ Fault
    /\ retention' = NoPass /\ pinnedLate' = {}
    /\ UNCHANGED <<life, blob, lost, doomed, old, stale, sweep,
                   attached, pinned, claims, orphans, raced, ripe>>

Retention ==
    \/ ReadPinned \/ ListExpiring \/ DropThumbnails \/ MarkExpired \/ RetentionStop
    \/ \E a \in Att : DropExpiring(a) \/ KeepExpiring(a)

-----------------------------------------------------------------------------

Blobs(f) == (DropBlob(f) \/ LoseDrop(f)) /\ UNCHANGED <<chat, keeping>>
GrowOld(f) == Age(f) /\ UNCHANGED <<chat, keeping>>

Next ==
    \/ \E a \in Att : \/ Upload(a)
                      \/ CheckClaim(a) \/ Claim(a) \/ Pin(a) \/ Unpin(a)
                      \/ Tombstone(a) \/ DeleteFiles(a) \/ LoseDelete(a)
                      \/ Ripen(a)
    \/ \E t \in Thumbnails : MakeThumbnail(t) \/ RecordThumbnail(t)
    \/ \E f \in File : Blobs(f) \/ GrowOld(f)
    \/ Sweep \/ Retention

Spec == Init /\ [][Next]_vars

\* A call that is running goes on, a day passes, and both jobs are run on a
\* schedule and finish their pass.
FairSpec ==
    /\ Spec
    /\ \A f \in File : WF_vars(DropBlob(f) /\ UNCHANGED <<chat, keeping>>) /\ SF_vars(GrowOld(f))
    /\ \A f \in File : WF_vars(SweepDelete(f) /\ Cascade({f}) /\ UNCHANGED <<claims, orphans, keeping>>)
    /\ WF_vars(SweepList /\ UNCHANGED <<chat, keeping>>)
    /\ WF_vars(SweepAsk(attached) /\ UNCHANGED <<chat, keeping>>)
    /\ WF_vars(SweepStrays /\ UNCHANGED <<chat, keeping>>)
    /\ \A a \in Att : WF_vars(DropExpiring(a)) /\ WF_vars(DeleteFiles(a))
    /\ WF_vars(ReadPinned) /\ WF_vars(ListExpiring)
    /\ WF_vars(DropThumbnails) /\ WF_vars(MarkExpired)

-----------------------------------------------------------------------------
(* Properties *)

\* Every piece of state has the shape the code gives it.
TypeOK ==
    /\ StoreTypeOK
    /\ attached \subseteq Att /\ pinned \subseteq attached
    /\ claims \subseteq Att /\ orphans \subseteq Att /\ ripe \subseteq Att
    /\ raced \subseteq attached /\ pinnedLate \subseteq pinned
    /\ retention \in [phase : {"idle", "kept", "dropping", "marking"},
                      keep : SUBSET Att, todo : SUBSET Att, dropped : SUBSET Att]

\* A live row has its blob, unless its retention period is over (the blob
\* goes first and the pass may stop) or its insert committed unheard and
\* storeFile took the blob back: an upload nobody was told of, or a
\* thumbnail that stays without its bytes.  What keeps this is the order of
\* every pair of calls on the two stores, whatever else runs between them
\* (attachments.go, service.go, sweep.go, retention.go, thumbnail.go).
BytesBehindRow ==
    \A f \in File : life[f] = "live" => f \in blob \/ f \in ripe \/ f \in lost

\* A message keeps its files until it is deleted: neither the sweep nor the
\* deletion of another message takes them, save the one case of a claim that
\* landed when that deletion had already chosen the file (sweep.go Sweep,
\* attachments.go claimAttachments).
MessageKeepsItsFiles ==
    [][\A a \in attached \ attached' : a \in orphans' \ orphans \/ a \in raced]_vars

\* A thumbnail's row answers for its bytes: service.go, "storeFile writes a
\* new file's blob, then its row through insert".
ThumbnailIsThere ==
    \A t \in Thumbnails : life[t] = "live" => t \in blob

\* A pinned message's file keeps its bytes past its retention, unless it was
\* pinned while a pass was under way (retention.go kept).
PinnedKeepsItsBytes ==
    [][\A a \in (pinned \cap pinned') \cap (blob \ blob') : a \in pinnedLate]_vars

\* Whatever call was cut short, a blob no row names does not stay, nor does
\* the thumbnail of an expired attachment (sweep.go).
StraysGo ==
    \A f \in File :
        /\ (f \in blob /\ life[f] = "gone") ~> f \notin blob
        /\ f \in Thumbnails => (life[f] = "live" /\ life[ThumbOf[f]] # "live") ~> life[f] = "gone"

\* A ripe attachment whose message stays unpinned expires, though a pass
\* stopped between its blob and its row (retention.go).
RipeExpires ==
    \A a \in Att : a \in ripe ~> (life[a] \in {"expired", "gone"} \/ a \in pinned)
=============================================================================
