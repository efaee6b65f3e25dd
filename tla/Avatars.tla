------------------------------ MODULE Avatars ------------------------------
(***************************************************************************)
(* One account's picture (internal/files image_upload.go, normalise.go,    *)
(* internal/auth avatar.go): an upload is stored as sent under a pending   *)
(* row, and a normalise_image job in the account's lane re-encodes it,     *)
(* readies the row, swaps the pointer and deletes what it replaced.  A     *)
(* space's icon goes the same way.                                         *)
(*                                                                         *)
(* Of the job queue this keeps what module Jobs shows of it: attempts are  *)
(* numbered, the lane runs in order and the kind one at a time, save that  *)
(* an attempt whose lease lapsed runs on beside the next, its outcome not  *)
(* written, and that two dispatchers at once may pass the cap.             *)
(***************************************************************************)
EXTENDS FileStore

CONSTANTS
    First,        \* the picture the account has to begin with
    Unusable,     \* pictures whose bytes will not decode
    MaxAttempts,  \* the jobs' max_attempts
    MaxOverlaps   \* bound: attempts begun beside a running one

ASSUME AvatarsAssumption ==
    /\ File \subseteq Nat \ {0} /\ First \in File /\ Thumbnails = {}
    /\ Size[First].sent <= Quota
    /\ MaxAttempts \in Nat \ {0} /\ MaxOverlaps \in Nat

VARIABLES
    avatar,   \* users.avatar_file_id, or NoPicture
    job,      \* the normalise_image job of each picture
    try,      \* where each of its attempts is, and the picture it replaced
    overlaps    \* what is left of MaxOverlaps

vars == <<store, avatar, job, try, overlaps>>

NoPicture == 0
Attempt == 1 .. MaxAttempts

Steps == {"idle", "leased", "fetched", "decoded", "put", "ready", "swapped",
          "failing", "checked", "over"}

Init ==
    /\ life = [f \in File |-> IF f = First THEN "live" ELSE "new"]
    /\ blob = {First} /\ lost = {} /\ doomed = {} /\ old = {} /\ stale = {}
    /\ sweep = [phase |-> "idle", todo |-> {}]
    /\ faults = MaxFaults
    /\ avatar = First
    /\ job = [p \in File |-> IF p = First THEN "done" ELSE "none"]
    /\ try = [p \in File |-> [k \in Attempt |-> [step |-> "idle", prev |-> NoPicture]]]
    /\ overlaps = MaxOverlaps

-----------------------------------------------------------------------------
(* Deleting *)

\* Slip: the pointer is left where it was.
LeftDangling(S) == avatar

\* A deleted row's pointer is cleared (ON DELETE SET NULL).
Cleared(S) == IF avatar \in S THEN NoPicture ELSE avatar

\* deleteFile with its key: the row if it is there, the blob in any case.
Discard(p) ==
    /\ life' = [life EXCEPT ![p] = "gone"]
    /\ doomed' = doomed \cup {p}
    /\ avatar' = Cleared({p})

\* deleteFile without one: the row, and the blob if there was a row.
DeleteFile(p) == DeleteRows({p} \cap File) /\ avatar' = Cleared({p})

-----------------------------------------------------------------------------
(* The request *)

\* storePendingImage.
Upload(p) ==
    /\ \/ CheckQuota(p) \/ StoreBlob(p)
       \/ RecordRow(p, "pending") \/ RefuseRow(p) \/ RecordUnheard(p, "pending")
    /\ UNCHANGED <<avatar, job, try, overlaps>>

\* EnqueueInLane, and what a failure of it undoes; the job may be in all
\* the same.
Enqueue(p) ==
    /\ life[p] = "pending" /\ p \notin lost /\ job[p] = "none"
    /\ \/ /\ job' = [job EXCEPT ![p] = "queued"]
          /\ UNCHANGED <<life, doomed, avatar, faults>>
       \/ /\ \E state \in {"queued", "done"} : job' = [job EXCEPT ![p] = state]
          /\ Discard(p) /\ Fault
    /\ UNCHANGED <<blob, lost, old, stale, sweep, try, overlaps>>

-----------------------------------------------------------------------------
(* The queue, as module Jobs has it *)

Running(p) == {k \in Attempt : try[p][k].step \notin {"idle", "over"}}
Made(p) == {k \in Attempt : try[p][k].step # "idle"}
Latest(p, k) == \A l \in Made(p) : l <= k
Moved(p, k, step) == [try EXCEPT ![p][k].step = step]

\* An attempt runs beside another when that one's lease lapsed under it,
\* or when two dispatchers took the kind's one place at once.
AloneOr(free) == IF free THEN UNCHANGED overlaps ELSE overlaps > 0 /\ overlaps' = overlaps - 1

\* What may hold a live lease.
Performing == {p \in File : job[p] = "queued" /\ Running(p) # {}}

\* The head of the lane is leased, for the first time or again.
Lease(p) ==
    /\ job[p] = "queued" /\ \A q \in File : q < p => job[q] # "queued"
    /\ \E k \in Attempt \ Made(p) :
          /\ \A l \in 1 .. k - 1 : l \in Made(p)
          /\ try' = Moved(p, k, "leased")
    /\ AloneOr(Performing = {})
    /\ UNCHANGED <<store, avatar, job>>

\* Its last lease lapsed: there is no attempt left.
GiveUp(p) ==
    /\ job[p] = "queued" /\ Made(p) = Attempt
    /\ AloneOr(Running(p) = {})
    /\ job' = [job EXCEPT ![p] = "done"]
    /\ UNCHANGED <<store, avatar, try>>

\* The attempt is over and the job with it, if the lease is still its own.
Finish(p, k) ==
    /\ try' = Moved(p, k, "over")
    /\ job' = IF Latest(p, k) THEN [job EXCEPT ![p] = "done"] ELSE job

\* The process dies under it.
Die(p, k) ==
    /\ k \in Running(p) /\ Fault
    /\ try' = Moved(p, k, "over")
    /\ UNCHANGED <<life, blob, lost, doomed, old, stale, sweep, avatar, job, overlaps>>

-----------------------------------------------------------------------------
(* NormaliseImage *)

\* failNormalise: for the queue to retry; a last attempt cleans up first.
Fail(p, k) == try' = Moved(p, k, IF k = MaxAttempts THEN "failing" ELSE "over")

\* Any statement or call of an attempt may fail.
Stumble(p, k) ==
    /\ try[p][k].step \in {"leased", "fetched", "decoded", "put", "ready"} /\ Fault
    /\ Fail(p, k)
    /\ UNCHANGED <<life, blob, lost, doomed, old, stale, sweep, avatar, job, overlaps>>

\* A retry after a crash has only the swap left.
GetFile(p, k) ==
    /\ try[p][k].step = "leased"
    /\ CASE life[p] = "pending" -> try' = Moved(p, k, "fetched") /\ UNCHANGED job
         [] life[p] = "live" -> try' = Moved(p, k, "ready") /\ UNCHANGED job
         [] OTHER -> Finish(p, k)
    /\ UNCHANGED <<store, avatar, overlaps>>

\* readyImage: the bytes are read and decoded.  Unusable ones are discarded.
Decode(p, k) ==
    /\ try[p][k].step = "fetched"
    /\ \/ /\ p \notin blob /\ Fail(p, k)
          /\ UNCHANGED <<life, doomed, avatar, job>>
       \/ /\ p \in blob \cap Unusable /\ Discard(p) /\ Finish(p, k)
       \/ /\ p \in blob \ Unusable /\ try' = Moved(p, k, "decoded")
          /\ UNCHANGED <<life, doomed, avatar, job>>
    /\ UNCHANGED <<blob, lost, old, stale, sweep, faults, overlaps>>

\* The blob is replaced.
PutImage(p, k) ==
    /\ try[p][k].step = "decoded"
    /\ try' = Moved(p, k, "put")
    /\ blob' = blob \cup {p} /\ stale' = stale \ {p}
    /\ UNCHANGED <<life, lost, doomed, old, sweep, faults, avatar, job, overlaps>>

\* ReadyPendingFile: the row's size becomes the re-encoded picture's, and
\* nothing measures it against the quota.  No row came back: the file is
\* taken to be gone, and deleted.
Ready(p, k) ==
    /\ try[p][k].step = "put"
    /\ IF life[p] = "pending"
       THEN /\ life' = [life EXCEPT ![p] = "live"]
            /\ try' = Moved(p, k, "ready")
            /\ UNCHANGED <<doomed, avatar, job>>
       ELSE Discard(p) /\ Finish(p, k)
    /\ UNCHANGED <<blob, lost, old, stale, sweep, faults, overlaps>>

\* The answer to a statement that went through is lost.
ReadyUnheard(p, k) ==
    /\ try[p][k].step = "put" /\ life[p] = "pending" /\ Fault
    /\ life' = [life EXCEPT ![p] = "live"] /\ Fail(p, k)
    /\ UNCHANGED <<blob, lost, doomed, old, stale, sweep, avatar, job, overlaps>>

\* Slip: whatever was there goes, the file itself included.
ReplacesAny(p) == avatar # NoPicture

\* There was another picture.
Replaces(p) == avatar \notin {p, NoPicture}

\* SetAvatar: the pointer moves, under the account's row lock, if the
\* file's row is there.
PointAt(p, k) ==
    /\ try[p][k].step = "ready"
    /\ \/ /\ Row(p) /\ avatar' = p
          /\ IF Replaces(p)
             THEN /\ try' = [try EXCEPT ![p][k] = [step |-> "swapped", prev |-> avatar]]
                  /\ UNCHANGED job
             ELSE Finish(p, k)
       \/ /\ ~Row(p) /\ Fail(p, k) /\ UNCHANGED <<avatar, job>>
    /\ UNCHANGED <<store, overlaps>>

PointUnheard(p, k) ==
    /\ try[p][k].step = "ready" /\ Row(p) /\ Fault
    /\ avatar' = p /\ Fail(p, k)
    /\ UNCHANGED <<life, blob, lost, doomed, old, stale, sweep, job, overlaps>>

\* The picture it replaced goes.
DeletePrevious(p, k) ==
    /\ try[p][k].step = "swapped"
    /\ DeleteFile(try[p][k].prev) /\ Finish(p, k)
    /\ UNCHANGED <<blob, lost, old, stale, sweep, faults, overlaps>>

\* Slip: the last attempt does not ask.
AskNobody(p) == FALSE

\* deleteUnlessReferenced, on a last attempt: is it in use?
InUse(p) == avatar = p

CheckReferenced(p, k) ==
    /\ try[p][k].step = "failing"
    /\ IF InUse(p) THEN Finish(p, k)
       ELSE try' = Moved(p, k, "checked") /\ UNCHANGED job
    /\ UNCHANGED <<store, avatar, overlaps>>

\* It is not, and goes.
DeletePending(p, k) ==
    /\ try[p][k].step = "checked"
    /\ DeleteFile(p) /\ Finish(p, k)
    /\ UNCHANGED <<blob, lost, old, stale, sweep, faults, overlaps>>

Normalise(p, k) ==
    \/ GetFile(p, k) \/ Decode(p, k) \/ PutImage(p, k) \/ Ready(p, k)
    \/ PointAt(p, k) \/ DeletePrevious(p, k)
    \/ CheckReferenced(p, k) \/ DeletePending(p, k)

Trouble(p, k) == Die(p, k) \/ Stumble(p, k) \/ ReadyUnheard(p, k) \/ PointUnheard(p, k)

-----------------------------------------------------------------------------

queue == <<job, try, overlaps>>

Sweep ==
    \/ /\ SweepList \/ SweepAsk({avatar}) \/ SweepStrays \/ SweepStop
       /\ UNCHANGED <<avatar, queue>>
    \/ \E f \in File : SweepSkip(f) /\ UNCHANGED <<avatar, queue>>
    \/ \E f \in File : SweepDelete(f) /\ avatar' = Cleared({f}) /\ UNCHANGED queue

Blobs(f) == (DropBlob(f) \/ LoseDrop(f)) /\ UNCHANGED <<avatar, queue>>
GrowOld(f) == Age(f) /\ UNCHANGED <<avatar, queue>>

Next ==
    \/ \E p \in File : \/ Upload(p) \/ Enqueue(p) \/ Lease(p) \/ GiveUp(p)
                       \/ Blobs(p) \/ GrowOld(p)
                       \/ \E k \in Attempt : Normalise(p, k) \/ Trouble(p, k)
    \/ Sweep

Spec == Init /\ [][Next]_vars

-----------------------------------------------------------------------------
(* Properties *)

\* Every piece of state has the shape the code gives it.
TypeOK ==
    /\ StoreTypeOK
    /\ avatar \in File \cup {NoPicture}
    /\ job \in [File -> {"none", "queued", "done"}]
    /\ try \in [File -> [Attempt -> [step : Steps, prev : File \cup {NoPicture}]]]
    /\ \A p \in File : \A k \in Attempt :
          try[p][k].step = "swapped" => try[p][k].prev \in File \ {p}
    /\ overlaps \in 0 .. MaxOverlaps

\* What an account points at can be served: its row is ready and its bytes
\* are there, whatever attempts, sweeps and crashes ran in whatever order
\* (normalise.go, docs/architecture/files.md "Pointer swaps").
BytesBehindAvatar == avatar # NoPicture => life[avatar] = "live" /\ avatar \in blob

\* The bytes a picture gained as it was re-encoded.
Grown == UNION {{f} \X (Size[f].sent + 1 .. Size[f].kept) : f \in {g \in File : life[g] = "live"}}

\* However uploads race past the early check, and whatever is readied between
\* the check and the insert, the stored total passes the quota by no more
\* than the pictures grew as they were re-encoded (quota.go insertUnderQuota,
\* files.sql ReadyPendingFile).
GrowthAlonePasses == Cardinality(Stored) <= Quota + Cardinality(Grown)

\* The stored total never passes the quota: quota.go, "StorageQuotaBytes is
\* the cap on total upload storage".
QuotaCaps == Cardinality(Stored) <= Quota

\* An account that has a picture keeps one: uploads, failed jobs, retries
\* and crashes replace it or leave it.  It is lost only where two attempts
\* ran side by side, or where the sweep had chosen a picture a day old when
\* it was swapped in (normalise.go, sweep.go).
PictureStands ==
    [][avatar # NoPicture /\ avatar' = NoPicture => overlaps < MaxOverlaps \/ avatar \in old]_vars

\* The sweep apart, an account that has a picture keeps one, whatever
\* becomes of an upload: docs/architecture/files.md, "the pointer moves only
\* when the job succeeds, and a failure leaves it where it was".
FailureLeavesThePicture ==
    [][avatar # NoPicture /\ avatar' = NoPicture => avatar \in old]_vars
=============================================================================
