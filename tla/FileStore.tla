----------------------------- MODULE FileStore -----------------------------
(***************************************************************************)
(* The files table and the blob store (internal/files, internal/blob):     *)
(* what an upload, a deletion and the sweep do to a file, whoever owns it. *)
(* Attachments and Avatars extend it with the modules that point at files  *)
(* and the jobs that make them.                                            *)
(*                                                                         *)
(* A blob is written before its row and deleted after it, in two stores    *)
(* that share no transaction.  An age is past the sweep's grace period or  *)
(* not.                                                                    *)
(***************************************************************************)
EXTENDS Integers, FiniteSets

CONSTANTS
    File,       \* ids of files, each made at most once (rowid.New)
    ThumbOf,    \* which of them are thumbnails, and of which attachment
    Size,       \* bytes of each: as sent, and as kept once its row is ready
    Quota,      \* StorageQuotaBytes
    MaxFaults   \* bound: answers lost, calls cut short and deletions that fail

ASSUME FileStoreAssumption ==
    /\ IsFiniteSet(File) /\ Size \in [File -> [sent : Nat, kept : Nat]]
    /\ Quota \in Nat \ {0} /\ MaxFaults \in Nat
    /\ DOMAIN ThumbOf \subseteq File
    /\ \A t \in DOMAIN ThumbOf : ThumbOf[t] \in File \ DOMAIN ThumbOf

VARIABLES
    life,     \* where each file is: not made, on its way in, a row, gone
    blob,     \* the files whose bytes are in the blob store
    lost,     \* rows whose insert was taken to have failed, and did not
    doomed,   \* blobs whose deletion a call still running has to do
    old,      \* rows past the grace period
    stale,    \* blobs past it
    sweep,    \* the sweep_files job
    faults    \* what is left of MaxFaults

store == <<life, blob, lost, doomed, old, stale, sweep, faults>>

Stages == {"new", "checked", "stored", "pending", "live", "expired", "gone"}

StoreInit ==
    /\ life = [f \in File |-> "new"]
    /\ blob = {} /\ lost = {} /\ doomed = {} /\ old = {} /\ stale = {}
    /\ sweep = [phase |-> "idle", todo |-> {}]
    /\ faults = MaxFaults

Fault == faults > 0 /\ faults' = faults - 1

-----------------------------------------------------------------------------
(* The table *)

Row(f) == life[f] \in {"pending", "live", "expired"}

\* A row's size, rewritten as it is readied.
Bytes(f) == IF life[f] = "pending" THEN Size[f].sent ELSE Size[f].kept

\* StorageUsage: every row whose file has not expired, thumbnails included.
Counted == {f \in File : life[f] \in {"pending", "live"}}
Stored == UNION {{f} \X (1 .. Bytes(f)) : f \in Counted}
Fits(f) == Cardinality(Stored) + Size[f].sent <= Quota

Thumbnails == DOMAIN ThumbOf
ThumbRows(S) == {t \in Thumbnails : ThumbOf[t] \in S /\ Row(t)}

\* DeleteFilesByIDs: the rows of S and of their thumbnails.
RowsOf(S) == {f \in S : Row(f)} \cup ThumbRows(S)

\* The rows go, then the caller deletes their blobs, one at a time.
DeleteRows(S) ==
    /\ life' = [f \in File |-> IF f \in RowsOf(S) THEN "gone" ELSE life[f]]
    /\ doomed' = doomed \cup RowsOf(S)

\* One of those blob deletions.
DropBlob(f) ==
    /\ f \in doomed
    /\ doomed' = doomed \ {f} /\ blob' = blob \ {f}
    /\ UNCHANGED <<life, lost, old, stale, sweep, faults>>

\* It fails and is logged, or the process dies first.
LoseDrop(f) ==
    /\ f \in doomed /\ Fault
    /\ doomed' = doomed \ {f}
    /\ UNCHANGED <<life, blob, lost, old, stale, sweep>>

-----------------------------------------------------------------------------
(* An upload *)

\* checkQuota: the early answer, before the bytes are in.
CheckQuota(f) ==
    /\ life[f] = "new" /\ Fits(f)
    /\ life' = [life EXCEPT ![f] = "checked"]
    /\ UNCHANGED <<blob, lost, doomed, old, stale, sweep, faults>>

\* storeFile's Put.
StoreBlob(f) ==
    /\ life[f] = "checked"
    /\ life' = [life EXCEPT ![f] = "stored"]
    /\ blob' = blob \cup {f}
    /\ UNCHANGED <<lost, doomed, old, stale, sweep, faults>>

\* Slip: the upload was measured when it came in.
TrustTheCheck(f) == TRUE

\* insertUnderQuota: the sum and the insert under one lock.
StillFits(f) == Fits(f)

\* recordFile, recordPendingFile: the row goes in.
RecordRow(f, stage) ==
    /\ life[f] = "stored" /\ StillFits(f)
    /\ life' = [life EXCEPT ![f] = stage]
    /\ UNCHANGED <<blob, lost, doomed, old, stale, sweep, faults>>

\* The insert is refused or fails, and storeFile takes the blob back.
RefuseRow(f) ==
    /\ life[f] = "stored"
    /\ life' = [life EXCEPT ![f] = "gone"]
    /\ doomed' = doomed \cup {f}
    /\ UNCHANGED <<blob, lost, old, stale, sweep, faults>>

\* The row commits and the answer does not arrive (the request was
\* cancelled): storeFile takes the blob back all the same.
CommitUnheard(f, stage) ==
    /\ life[f] = "stored" /\ Fault
    /\ life' = [life EXCEPT ![f] = stage]
    /\ lost' = lost \cup {f} /\ doomed' = doomed \cup {f}
    /\ UNCHANGED <<blob, old, stale, sweep>>

RecordUnheard(f, stage) == StillFits(f) /\ CommitUnheard(f, stage)

-----------------------------------------------------------------------------
(* The sweep *)

Idle == sweep.phase = "idle"

\* The grace period passes over a file.  An upload takes far less than it,
\* and so does a pass: the pass counts from the moment it began.
Age(f) ==
    /\ Idle /\ life[f] \notin {"new", "checked", "stored"}
    /\ ~(f \in old /\ f \in stale)
    /\ old' = old \cup {f} /\ stale' = stale \cup {f}
    /\ UNCHANGED <<life, blob, lost, doomed, sweep, faults>>

\* Slip: the pass takes rows of any age.
Sweepable == {f \in File : Row(f)}

\* Slip: every thumbnail is left to its original.
ListedOriginals == {f \in old : Row(f) /\ f \notin Thumbnails}

\* ListFilesOlderThan: a thumbnail is left to its original while that lives.
Listed == {f \in old : Row(f) /\ ~(f \in Thumbnails /\ life[ThumbOf[f]] = "live")}

SweepList ==
    /\ Idle
    /\ sweep' = [phase |-> "listed", todo |-> Listed]
    /\ UNCHANGED <<life, blob, lost, doomed, old, stale, faults>>

\* The owners say which of them are in use.
SweepAsk(referenced) ==
    /\ sweep.phase = "listed"
    /\ sweep' = [phase |-> "deleting", todo |-> sweep.todo \ referenced]
    /\ UNCHANGED <<life, blob, lost, doomed, old, stale, faults>>

\* The rest go, one DeleteFilesByIDs each.
SweepDelete(f) ==
    /\ sweep.phase = "deleting" /\ f \in sweep.todo
    /\ DeleteRows({f})
    /\ sweep' = [sweep EXCEPT !.todo = @ \ {f}]
    /\ UNCHANGED <<blob, lost, old, stale, faults>>

SweepSkip(f) ==
    /\ sweep.phase = "deleting" /\ f \in sweep.todo /\ Fault
    /\ sweep' = [sweep EXCEPT !.todo = @ \ {f}]
    /\ UNCHANGED <<life, blob, lost, doomed, old, stale>>

\* Slip: every blob no row names is a stray, however young.
AnyBlob == {f \in blob : ~Row(f)}

\* Walk and ListStorageKeysAmong: old blobs no row names.
Strays == {f \in blob \cap stale : ~Row(f)}

SweepStrays ==
    /\ sweep.phase = "deleting" /\ sweep.todo = {}
    /\ doomed' = doomed \cup Strays
    /\ sweep' = [sweep EXCEPT !.phase = "idle"]
    /\ UNCHANGED <<life, blob, lost, old, stale, faults>>

\* An error or the process's end stops the pass anywhere.
SweepStop ==
    /\ ~Idle /\ Fault
    /\ sweep' = [phase |-> "idle", todo |-> {}]
    /\ UNCHANGED <<life, blob, lost, doomed, old, stale>>

-----------------------------------------------------------------------------

StoreTypeOK ==
    /\ life \in [File -> Stages]
    /\ blob \subseteq File /\ lost \subseteq File /\ doomed \subseteq File
    /\ old \subseteq File /\ stale \subseteq File
    /\ sweep \in [phase : {"idle", "listed", "deleting"}, todo : SUBSET File]
    /\ faults \in 0 .. MaxFaults
=============================================================================
