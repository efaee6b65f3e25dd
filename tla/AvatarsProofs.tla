--------------------------- MODULE AvatarsProofs ---------------------------
(***************************************************************************)
(* Proofs about Avatars, for every number of pictures, attempts, overlaps  *)
(* and faults: that the picture pointed at can be served, that what is     *)
(* stored passes the quota only by what pictures grew, and that a picture  *)
(* is lost only where two attempts ran side by side or to the sweep.       *)
(***************************************************************************)
EXTENDS Avatars, FiniteSetTheorems, TLAPS

OnItsWay == {"new", "checked", "stored"}

\* What the two stores owe each other: a blob is to be deleted only behind a
\* row that is gone or that nobody was told of, every other upload that is
\* stored has its bytes, and no age passes over one under way.
StoresAgree ==
    /\ \A f \in doomed : life[f] = "gone" \/ f \in lost
    /\ \A f \in File : life[f] \in {"stored", "pending", "live"} /\ f \notin lost => f \in blob
    /\ \A f \in stale : life[f] \notin OnItsWay
    /\ \A f \in File : life[f] # "expired"
    /\ sweep.todo \subseteq old

\* A job is made of a picture whose uploader was answered, an attempt of a
\* job, and an attempt that has only the swap left of a picture that is ready.
JobsFollow ==
    /\ \A f \in lost : life[f] \in {"pending", "gone"} /\ job[f] = "none"
    /\ \A p \in File : job[p] # "none" => life[p] \notin OnItsWay
    /\ \A p \in File, k \in Attempt :
          /\ try[p][k].step # "idle" => job[p] # "none"
          /\ try[p][k].step = "ready" => life[p] \in {"live", "gone"}

PointsAtReady == avatar # NoPicture => life[avatar] = "live"

\* Until an attempt is begun beside another, one runs at a time, under its
\* job's lease, and nobody but it moves the pointer to its picture.
OneAtATime ==
    \A p \in File, k \in Attempt : k \in Running(p) =>
        /\ \A q \in File, l \in Attempt : l \in Running(q) => q = p /\ l = k
        /\ job[p] = "queued"
        /\ try[p][k].step \in {"fetched", "decoded", "put"} => life[p] # "live"
        /\ try[p][k].step = "swapped" => avatar \in {p, NoPicture}
        /\ try[p][k].step = "checked" => avatar # p

-----------------------------------------------------------------------------
(* The bytes the quota is asked for *)

\* The bytes the quota was asked for, with the rows where l has them: those
\* of the rows less what a picture gained as it was readied.
RowBytes(l) ==
    UNION {{f} \X (1 .. (IF l[f] = "pending" THEN Size[f].sent ELSE Size[f].kept)) :
              f \in {g \in File : l[g] \in {"pending", "live"}}}
GainedBytes(l) ==
    UNION {{f} \X (Size[f].sent + 1 .. Size[f].kept) : f \in {g \in File : l[g] = "live"}}
Asked(l) == RowBytes(l) \ GainedBytes(l)

AskedWithin == Cardinality(Asked(life)) <= Quota

AnyBytes == UNION {{f} \X (1 .. Size[f].sent + Size[f].kept) : f \in File}

\* A file's bytes are as many as its size.
LEMMA FileBytes ==
  ASSUME NEW f, NEW n \in Nat
  PROVE  IsFiniteSet({f} \X (1 .. n)) /\ Cardinality({f} \X (1 .. n)) = n
<1>1. 1 \in Int /\ n \in Int
  OBVIOUS
<1>2. IsFiniteSet(1 .. n) /\ Cardinality(1 .. n) = IF 1 > n THEN 0 ELSE n - 1 + 1
  BY <1>1, FS_Interval, Zenon
<1>3. IsFiniteSet({f}) /\ Cardinality({f}) = 1
  BY FS_Singleton
<1>4. /\ IsFiniteSet({f} \X (1 .. n))
      /\ Cardinality({f} \X (1 .. n)) = Cardinality({f}) * Cardinality(1 .. n)
  BY <1>2, <1>3, FS_Product, Zenon
<1>5. Cardinality(1 .. n) = n
  BY <1>2
<1> QED
  BY <1>3, <1>4, <1>5

\* There are finitely many bytes in all.
LEMMA BytesFinite ==
  ASSUME NEW S, S \subseteq AnyBytes
  PROVE  IsFiniteSet(S) /\ Cardinality(S) \in Nat
<1> DEFINE bytes == [f \in File |-> {f} \X (1 .. Size[f].sent + Size[f].kept)]
           Each == {{f} \X (1 .. Size[f].sent + Size[f].kept) : f \in File}
<1>1. IsFiniteSet(Each)
  <2>1. bytes \in Surjection(File, Each)
    BY DEF Surjection
  <2> QED
    BY <2>1, FileStoreAssumption, FS_Surjection
<1>2. ASSUME NEW T \in Each PROVE IsFiniteSet(T)
  <2>1. PICK f \in File : T = {f} \X (1 .. Size[f].sent + Size[f].kept)
    OBVIOUS
  <2>2. Size[f].sent + Size[f].kept \in Nat
    BY FileStoreAssumption
  <2> QED
    BY <2>1, <2>2, FileBytes
<1>3. IsFiniteSet(AnyBytes)
  BY <1>1, <1>2, FS_UNION DEF AnyBytes
<1> QED
  BY <1>3, FS_Subset, FS_CardinalityType

LEMMA BytesAreAny == Stored \subseteq AnyBytes /\ Grown \subseteq AnyBytes
<1>1. ASSUME NEW f \in File
      PROVE  /\ 1 .. Bytes(f) \subseteq 1 .. Size[f].sent + Size[f].kept
             /\ Size[f].sent + 1 .. Size[f].kept \subseteq 1 .. Size[f].sent + Size[f].kept
  BY FileStoreAssumption DEF Bytes
<1> QED
  BY <1>1 DEF Stored, Grown, Counted, AnyBytes

LEMMA AskedIs == Asked(life) = Stored \ Grown
<1>1. Stored = RowBytes(life)
  BY DEF Stored, Counted, Bytes, RowBytes
<1>2. Grown = GainedBytes(life)
  BY DEF Grown, GainedBytes
<1> QED
  BY <1>1, <1>2 DEF Asked

LEMMA InAsked ==
  ASSUME NEW l, NEW f, NEW b
  PROVE  <<f, b>> \in Asked(l) <=>
            /\ f \in File /\ l[f] \in {"pending", "live"}
            /\ b \in 1 .. (IF l[f] = "pending" THEN Size[f].sent ELSE Size[f].kept)
            /\ l[f] = "live" => b \notin Size[f].sent + 1 .. Size[f].kept
<1> DEFINE upto(g) == 1 .. (IF l[g] = "pending" THEN Size[g].sent ELSE Size[g].kept)
           more(g) == Size[g].sent + 1 .. Size[g].kept
           rows == {g \in File : l[g] \in {"pending", "live"}}
           live == {g \in File : l[g] = "live"}
<1>2. <<f, b>> \in RowBytes(l) <=> f \in rows /\ b \in upto(f)
  <2>1. RowBytes(l) = UNION {{g} \X upto(g) : g \in rows}
    BY DEF RowBytes
  <2> HIDE DEF upto, rows
  <2> QED
    BY <2>1
<1>3. <<f, b>> \in GainedBytes(l) <=> f \in live /\ b \in more(f)
  <2>1. GainedBytes(l) = UNION {{g} \X more(g) : g \in live}
    BY DEF GainedBytes
  <2> HIDE DEF more, live
  <2> QED
    BY <2>1
<1>4. <<f, b>> \in Asked(l) <=> (f \in rows /\ b \in upto(f)) /\ ~(f \in live /\ b \in more(f))
  <2> HIDE DEF upto, more, rows, live
  <2> QED
    BY <1>2, <1>3 DEF Asked
<1> QED
  BY <1>4

LEMMA AskedArePairs ==
  ASSUME NEW l, NEW u \in Asked(l)
  PROVE  \E f \in File, b \in Nat : u = <<f, b>>
<1>1. PICK f \in File : u \in {f} \X (1 .. (IF l[f] = "pending" THEN Size[f].sent ELSE Size[f].kept))
  BY DEF Asked, RowBytes
<1>2. 1 .. (IF l[f] = "pending" THEN Size[f].sent ELSE Size[f].kept) \subseteq Nat
  BY FileStoreAssumption
<1> QED
  BY <1>1, <1>2

-----------------------------------------------------------------------------

Inv ==
    /\ TypeOK /\ StoresAgree /\ JobsFollow /\ PointsAtReady /\ AskedWithin
    /\ overlaps = MaxOverlaps => OneAtATime

LEMMA Picture == NoPicture \notin File /\ First \in File /\ Thumbnails = {}
BY AvatarsAssumption DEF NoPicture

LEMMA InitInv == Init => Inv
<1> SUFFICES ASSUME Init PROVE Inv
  OBVIOUS
<1> USE Picture
<1>1. TypeOK
  BY FileStoreAssumption, AvatarsAssumption
     DEF Init, TypeOK, StoreTypeOK, Stages, Steps, Attempt
<1>2. StoresAgree /\ JobsFollow /\ PointsAtReady
  BY DEF Init, StoresAgree, JobsFollow, PointsAtReady, OnItsWay
<1>3. OneAtATime
  BY DEF Init, OneAtATime, Running
<1>5. AskedWithin
  <2>1. Size[First].sent \in Nat /\ Size[First].sent <= Quota /\ Quota \in Nat
    BY AvatarsAssumption, FileStoreAssumption
  <2>2. Asked(life) \subseteq {First} \X (1 .. Size[First].sent)
    <3>1. ASSUME NEW u \in Asked(life) PROVE u \in {First} \X (1 .. Size[First].sent)
      <4>1. PICK f \in File, b \in Nat : u = <<f, b>>
        BY <3>1, AskedArePairs
      <4>2. f = First /\ b \in 1 .. Size[f].kept /\ b \notin Size[f].sent + 1 .. Size[f].kept
        BY <3>1, <4>1, InAsked DEF Init
      <4>3. Size[f].kept \in Nat
        BY FileStoreAssumption
      <4> QED
        BY <2>1, <4>1, <4>2, <4>3
    <3> QED
      BY <3>1
  <2>5. /\ IsFiniteSet({First} \X (1 .. Size[First].sent))
        /\ Cardinality({First} \X (1 .. Size[First].sent)) = Size[First].sent
    BY <2>1, FileBytes
  <2>6. Cardinality(Asked(life)) <= Size[First].sent /\ Cardinality(Asked(life)) \in Nat
    BY <2>2, <2>5, FS_Subset, FS_CardinalityType
  <2> QED
    BY <2>1, <2>6 DEF AskedWithin
<1> QED
  BY <1>1, <1>2, <1>3, <1>5 DEF Inv

-----------------------------------------------------------------------------
(* Types *)

LEMMA TypeStep == TypeOK /\ [Next]_vars => TypeOK'
<1> SUFFICES ASSUME TypeOK, [Next]_vars PROVE TypeOK'
  OBVIOUS
<1>0. MaxFaults \in Nat /\ MaxOverlaps \in Nat
  BY FileStoreAssumption, AvatarsAssumption
<1> USE <1>0, Picture DEF TypeOK, StoreTypeOK, Stages, store, queue, Fault
<1> DEFINE StoreTypes == StoreTypeOK'
           AttemptTypes ==
              /\ try' \in [File -> [Attempt -> [step : Steps, prev : File \cup {NoPicture}]]]
              /\ \A p \in File : \A k \in Attempt :
                    try'[p][k].step = "swapped" => try'[p][k].prev \in File \ {p}
\* The files
<1>1. ASSUME NEW p \in File, Upload(p) PROVE TypeOK'
  BY <1>1 DEF Upload, CheckQuota, StoreBlob, RecordRow, RefuseRow, RecordUnheard, CommitUnheard
<1>2. ASSUME NEW f \in File, Blobs(f) \/ GrowOld(f) PROVE TypeOK'
  BY <1>2 DEF Blobs, DropBlob, LoseDrop, GrowOld, Age
<1>3. ASSUME NEW S \in SUBSET File, DeleteRows(S)
      PROVE  life' \in [File -> Stages] /\ doomed' \subseteq File
  BY <1>3 DEF DeleteRows, RowsOf, ThumbRows
<1>4. ASSUME NEW S PROVE Cleared(S) \in File \cup {NoPicture}
  BY DEF Cleared
<1>5. CASE Sweep
  <2>1. CASE /\ SweepList \/ SweepAsk({avatar}) \/ SweepStrays \/ SweepStop
             /\ UNCHANGED <<avatar, queue>>
    BY <2>1 DEF SweepList, Listed, SweepAsk, SweepStrays, Strays, SweepStop, Idle
  <2>2. ASSUME NEW f \in File, SweepSkip(f), UNCHANGED <<avatar, queue>> PROVE TypeOK'
    BY <2>2 DEF SweepSkip
  <2>3. ASSUME NEW f \in File, SweepDelete(f), avatar' = Cleared({f}), UNCHANGED queue
        PROVE  TypeOK'
    <3>1. life' \in [File -> Stages] /\ doomed' \subseteq File
      BY <1>3, <2>3 DEF SweepDelete
    <3> QED
      BY <1>4, <2>3, <3>1 DEF SweepDelete
  <2> QED
    BY <1>5, <2>1, <2>2, <2>3 DEF Sweep
\* The jobs
<1>15. ASSUME NEW p \in File, Discard(p)
       PROVE  life' \in [File -> Stages] /\ doomed' \subseteq File /\ avatar' \in File \cup {NoPicture}
  BY <1>4, <1>15 DEF Discard
<1>6. ASSUME NEW p \in File, Enqueue(p) PROVE TypeOK'
  <2>1. job' \in [File -> {"none", "queued", "done"}]
    BY <1>6 DEF Enqueue
  <2>2. life' \in [File -> Stages] /\ doomed' \subseteq File /\ avatar' \in File \cup {NoPicture}
    BY <1>6, <1>15 DEF Enqueue
  <2> QED
    BY <1>6, <2>1, <2>2 DEF Enqueue
<1>7. ASSUME NEW p \in File, NEW k \in Attempt, NEW s \in Steps \ {"swapped"},
             try' = Moved(p, k, s)
      PROVE  AttemptTypes
  <2> DEFINE Tries == [step : Steps, prev : File \cup {NoPicture}]
             r == [try[p][k] EXCEPT !.step = s]
  <2>1. try[p][k] \in Tries /\ try[p] \in [Attempt -> Tries]
    OBVIOUS
  <2>2. r \in Tries /\ r.step = s
    BY <2>1
  <2> HIDE DEF r
  <2>3. try' = [try EXCEPT ![p] = [try[p] EXCEPT ![k] = r]]
    BY <1>7 DEF Moved, r
  <2>4. [try[p] EXCEPT ![k] = r] \in [Attempt -> Tries]
    BY <2>1, <2>2
  <2>5. try' \in [File -> [Attempt -> Tries]]
    BY <2>3, <2>4
  <2>6. \A q \in File, l \in Attempt : try'[q][l] = IF q = p /\ l = k THEN r ELSE try[q][l]
    BY <2>1, <2>3, <2>4
  <2>7. ASSUME NEW q \in File, NEW l \in Attempt, try'[q][l].step = "swapped"
        PROVE  try'[q][l].prev \in File \ {q}
    <3>1. ~(q = p /\ l = k)
      BY <1>7, <2>2, <2>6, <2>7
    <3> QED
      BY <2>6, <2>7, <3>1
  <2> QED
    BY <2>5, <2>7
<1>8. ASSUME NEW p \in File, Lease(p) PROVE TypeOK'
  <2>1. PICK k \in Attempt : try' = Moved(p, k, "leased")
    BY <1>8 DEF Lease
  <2>2. AttemptTypes
    BY <1>7, <2>1 DEF Steps
  <2> QED
    BY <1>8, <2>2 DEF Lease, AloneOr
<1>9. ASSUME NEW p \in File, GiveUp(p) PROVE TypeOK'
  BY <1>9 DEF GiveUp, AloneOr
<1>10. ASSUME NEW p \in File, NEW k \in Attempt, Finish(p, k)
       PROVE  AttemptTypes /\ job' \in [File -> {"none", "queued", "done"}]
  BY <1>7, <1>10 DEF Finish, Steps
<1>11. ASSUME NEW p \in File, NEW k \in Attempt, Fail(p, k) PROVE AttemptTypes
  BY <1>7, <1>11 DEF Fail, Steps
<1>12. ASSUME NEW p \in File, NEW k \in Attempt, Trouble(p, k) PROVE TypeOK'
  <2>1. AttemptTypes
    BY <1>7, <1>11, <1>12 DEF Trouble, Die, Stumble, ReadyUnheard, PointUnheard, Steps
  <2> QED
    <3>1. CASE Die(p, k) \/ Stumble(p, k)
      BY <2>1, <3>1 DEF Die, Stumble
    <3>2. CASE ReadyUnheard(p, k)
      BY <2>1, <3>2 DEF ReadyUnheard
    <3>3. CASE PointUnheard(p, k)
      BY <2>1, <3>3 DEF PointUnheard
    <3> QED
      BY <1>12, <3>1, <3>2, <3>3 DEF Trouble
<1>13. ASSUME NEW p \in File, NEW k \in Attempt, Normalise(p, k) PROVE TypeOK'
  <2>1. CASE GetFile(p, k)
    <3>1. AttemptTypes /\ job' \in [File -> {"none", "queued", "done"}]
      BY <1>7, <1>10, <2>1 DEF GetFile, Steps
    <3> QED
      BY <2>1, <3>1 DEF GetFile
  <2>2. CASE Decode(p, k)
    <3>1. AttemptTypes /\ job' \in [File -> {"none", "queued", "done"}]
      BY <1>7, <1>10, <1>11, <2>2 DEF Decode, Steps
    <3>2. life' \in [File -> Stages] /\ doomed' \subseteq File /\ avatar' \in File \cup {NoPicture}
      BY <1>15, <2>2 DEF Decode
    <3> QED
      BY <2>2, <3>1, <3>2 DEF Decode
  <2>3. CASE PutImage(p, k)
    <3>1. AttemptTypes
      BY <1>7, <2>3 DEF PutImage, Steps
    <3> QED
      BY <2>3, <3>1 DEF PutImage
  <2>4. CASE Ready(p, k)
    <3>1. AttemptTypes /\ job' \in [File -> {"none", "queued", "done"}]
      BY <1>7, <1>10, <2>4 DEF Ready, Steps
    <3>2. life' \in [File -> Stages] /\ doomed' \subseteq File /\ avatar' \in File \cup {NoPicture}
      BY <1>15, <2>4 DEF Ready
    <3> QED
      BY <2>4, <3>1, <3>2 DEF Ready
  <2>5. CASE PointAt(p, k)
    <3>1. ASSUME Replaces(p), try' = [try EXCEPT ![p][k] = [step |-> "swapped", prev |-> avatar]]
          PROVE  AttemptTypes
      BY <3>1 DEF Replaces, Steps
    <3>2. AttemptTypes /\ job' \in [File -> {"none", "queued", "done"}]
      BY <1>10, <1>11, <2>5, <3>1 DEF PointAt
    <3> QED
      BY <2>5, <3>2 DEF PointAt
  <2>6. CASE DeletePrevious(p, k) \/ DeletePending(p, k)
    <3>1. AttemptTypes /\ job' \in [File -> {"none", "queued", "done"}]
      BY <1>10, <2>6 DEF DeletePrevious, DeletePending
    <3>2. life' \in [File -> Stages] /\ doomed' \subseteq File
      BY <1>3, <2>6 DEF DeletePrevious, DeletePending, DeleteFile
    <3> QED
      BY <1>4, <2>6, <3>1, <3>2 DEF DeletePrevious, DeletePending, DeleteFile
  <2>7. CASE CheckReferenced(p, k)
    <3>1. AttemptTypes /\ job' \in [File -> {"none", "queued", "done"}]
      BY <1>7, <1>10, <2>7 DEF CheckReferenced, Steps
    <3> QED
      BY <2>7, <3>1 DEF CheckReferenced
  <2> QED
    BY <1>13, <2>1, <2>2, <2>3, <2>4, <2>5, <2>6, <2>7 DEF Normalise
<1>14. CASE UNCHANGED vars
  BY <1>14 DEF vars
<1> QED
  BY <1>1, <1>2, <1>5, <1>6, <1>8, <1>9, <1>12, <1>13, <1>14 DEF Next

-----------------------------------------------------------------------------
(* The files and what points at them *)

\* An attempt that moves on, moves alone.
LEMMA MovedStep ==
  ASSUME TypeOK, NEW p \in File, NEW k \in Attempt, NEW s, try' = Moved(p, k, s)
  PROVE  /\ \A q \in File, l \in Attempt :
               try'[q][l].step = IF q = p /\ l = k THEN s ELSE try[q][l].step
         /\ \A q \in File, l \in Attempt : try'[q][l].prev = try[q][l].prev
<1> DEFINE r == [try[p][k] EXCEPT !.step = s]
<1>1. try[p] = [l \in Attempt |-> try[p][l]] /\ try = [q \in File |-> try[q]]
  BY DEF TypeOK
<1>2. r.step = s /\ r.prev = try[p][k].prev
  BY DEF TypeOK
<1>3. try' = [try EXCEPT ![p] = [try[p] EXCEPT ![k] = r]]
  BY DEF Moved
<1> HIDE DEF r
<1>4. \A q \in File, l \in Attempt : try'[q][l] = IF q = p /\ l = k THEN r ELSE try[q][l]
  BY <1>1, <1>3
<1> QED
  BY <1>2, <1>4

\* An attempt that ends may end its job, and does nothing else to it.
LEMMA FinishStep ==
  ASSUME TypeOK, NEW p \in File, NEW k \in Attempt, Finish(p, k)
  PROVE  /\ \A q \in File, l \in Attempt :
               try'[q][l].step = IF q = p /\ l = k THEN "over" ELSE try[q][l].step
         /\ \A q \in File, l \in Attempt : try'[q][l].prev = try[q][l].prev
         /\ \A q \in File : job'[q] = job[q] \/ (q = p /\ job'[q] = "done")
BY MovedStep DEF Finish, TypeOK

Core == StoresAgree /\ JobsFollow /\ PointsAtReady

LEMMA CoreStep == Inv /\ [Next]_vars => Core'
<1> SUFFICES ASSUME Inv, [Next]_vars PROVE Core'
  OBVIOUS
<1> USE DEF StoresAgree, JobsFollow, PointsAtReady, OnItsWay, Core
<1>0. /\ TypeOK /\ StoresAgree /\ JobsFollow /\ PointsAtReady
      /\ life \in [File -> Stages] /\ doomed \cup stale \cup lost \subseteq File
      /\ avatar \in File \cup {NoPicture} /\ NoPicture \notin File
      /\ job \in [File -> {"none", "queued", "done"}]
  BY Picture DEF Inv, TypeOK, StoreTypeOK
<1> USE <1>0
\* The files
<1>1. ASSUME NEW f \in File, CheckQuota(f) \/ StoreBlob(f) \/ RefuseRow(f), UNCHANGED <<avatar, job, try>>
      PROVE  Core'
  <2>1. CASE CheckQuota(f)
    BY <1>1, <2>1 DEF CheckQuota
  <2>2. CASE StoreBlob(f)
    BY <1>1, <2>2 DEF StoreBlob
  <2>3. CASE RefuseRow(f)
    BY <1>1, <2>3 DEF RefuseRow
  <2> QED
    BY <1>1, <2>1, <2>2, <2>3
<1>2. ASSUME NEW f \in File, RecordRow(f, "pending") \/ RecordUnheard(f, "pending"),
             UNCHANGED <<avatar, job, try>>
      PROVE  Core'
  <2>1. CASE RecordRow(f, "pending")
    BY <1>2, <2>1 DEF RecordRow
  <2>2. CASE RecordUnheard(f, "pending")
    BY <1>2, <2>2 DEF RecordUnheard, CommitUnheard
  <2> QED
    BY <1>2, <2>1, <2>2
<1>3. ASSUME NEW p \in File, Upload(p) PROVE Core'
  BY <1>1, <1>2, <1>3 DEF Upload
<1>4. ASSUME NEW f \in File, Blobs(f) \/ GrowOld(f) PROVE Core'
  <2>1. CASE Blobs(f)
    BY <2>1 DEF Blobs, DropBlob, LoseDrop, queue
  <2>2. CASE GrowOld(f)
    BY <2>2 DEF GrowOld, Age, Idle, queue
  <2> QED
    BY <1>4, <2>1, <2>2
\* A row that goes takes the pointer to it along.
<1>5. ASSUME NEW f \in File, life' \in [File -> Stages],
             \A g \in File : life'[g] = life[g] \/ (g = f /\ life'[g] = "gone"),
             doomed' \subseteq doomed \cup {f}, f \in doomed' => f \in doomed \/ life'[f] = "gone",
             avatar' = Cleared({f}),
             \A q \in File : job'[q] # job[q] => job'[q] # "none" /\ q = f /\ f \notin lost,
             f \notin lost => life[f] \notin OnItsWay \/ job' = job,
             \A q \in File, l \in Attempt :
                 /\ try'[q][l].step \in {try[q][l].step, "over"}
                 /\ try'[q][l].step # "idle" => try[q][l].step # "idle",
             UNCHANGED <<blob, lost, stale>>, sweep'.todo \subseteq sweep.todo, old' = old
      PROVE  Core'
  BY <1>5 DEF Cleared
<1>6. ASSUME NEW f \in File, DeleteRows({f})
      PROVE  /\ life' \in [File -> Stages]
             /\ \A g \in File : life'[g] = life[g] \/ (g = f /\ life'[g] = "gone")
             /\ doomed' \subseteq doomed \cup {f} /\ (f \in doomed' => f \in doomed \/ life'[f] = "gone")
  BY <1>6, Picture DEF DeleteRows, RowsOf, ThumbRows, Stages
<1>7. ASSUME NEW p \in File, Discard(p)
      PROVE  /\ life' \in [File -> Stages]
             /\ \A g \in File : life'[g] = life[g] \/ (g = p /\ life'[g] = "gone")
             /\ doomed' \subseteq doomed \cup {p} /\ (p \in doomed' => p \in doomed \/ life'[p] = "gone")
  BY <1>7 DEF Discard, Stages
<1>8. CASE Sweep
  <2>1. CASE SweepStrays /\ UNCHANGED <<avatar, queue>>
    <3>1. \A f \in Strays : life[f] = "gone"
      BY DEF Strays, Row, Stages
    <3> QED
      BY <2>1, <3>1 DEF SweepStrays, queue
  <2>2. CASE (SweepList \/ SweepAsk({avatar}) \/ SweepStop) /\ UNCHANGED <<avatar, queue>>
    BY <2>2 DEF SweepList, Listed, SweepAsk, SweepStop, queue
  <2>3. ASSUME NEW f \in File, SweepSkip(f), UNCHANGED <<avatar, queue>> PROVE Core'
    BY <2>3 DEF SweepSkip, queue, TypeOK, StoreTypeOK
  <2>4. ASSUME NEW f \in File, SweepDelete(f), avatar' = Cleared({f}), UNCHANGED queue PROVE Core'
    <3>1. sweep'.todo \subseteq sweep.todo
      BY <2>4 DEF SweepDelete, TypeOK, StoreTypeOK
    <3> QED
      BY <1>5, <1>6, <2>4, <3>1 DEF SweepDelete, queue
  <2> QED
    BY <1>8, <2>1, <2>2, <2>3, <2>4 DEF Sweep
\* The jobs
<1>9. ASSUME NEW p \in File, Enqueue(p) PROVE Core'
  <2>1. CASE job' = [job EXCEPT ![p] = "queued"] /\ UNCHANGED <<life, doomed, avatar, faults>>
    BY <1>9, <2>1 DEF Enqueue
  <2>2. CASE (\E state \in {"queued", "done"} : job' = [job EXCEPT ![p] = state]) /\ Discard(p)
    <3>1. /\ life' \in [File -> Stages]
          /\ \A g \in File : life'[g] = life[g] \/ (g = p /\ life'[g] = "gone")
          /\ doomed' \subseteq doomed \cup {p} /\ (p \in doomed' => p \in doomed \/ life'[p] = "gone")
          /\ avatar' = Cleared({p})
      BY <1>7, <2>2 DEF Discard
    <3>2. /\ p \notin lost /\ life[p] \notin OnItsWay
          /\ \A q \in File : job'[q] # job[q] => job'[q] # "none" /\ q = p
          /\ UNCHANGED <<blob, lost, old, stale, sweep, try>>
      BY <1>9, <2>2 DEF Enqueue
    <3> HIDE DEF Core, StoresAgree, JobsFollow, PointsAtReady
    <3> QED
      BY <1>5, <3>1, <3>2
  <2> QED
    BY <1>9, <2>1, <2>2 DEF Enqueue
<1>10. ASSUME NEW p \in File, Lease(p) PROVE Core'
  <2>1. PICK k \in Attempt : try' = Moved(p, k, "leased")
    BY <1>10 DEF Lease
  <2>2. \A q \in File, l \in Attempt :
           try'[q][l].step = IF q = p /\ l = k THEN "leased" ELSE try[q][l].step
    BY <2>1, MovedStep
  <2> QED
    BY <1>10, <2>2 DEF Lease, store
<1>11. ASSUME NEW p \in File, GiveUp(p) PROVE Core'
  BY <1>11 DEF GiveUp, store
\* An attempt: nothing but its own step, or its job, changes ...
<1>12. ASSUME NEW p \in File, NEW k \in Attempt, NEW s,
              try[p][k].step # "idle", s = "ready" => life[p] \in {"live", "gone"},
              \A q \in File, l \in Attempt :
                  try'[q][l].step = IF q = p /\ l = k THEN s ELSE try[q][l].step,
              job' = job \/ \A q \in File : job'[q] = job[q] \/ (q = p /\ job'[q] = "done"),
              UNCHANGED <<life, blob, lost, doomed, old, stale, sweep>>,
              avatar' = avatar \/ (avatar' = p /\ life[p] = "live")
       PROVE  Core'
  BY <1>12
\* ... or its picture becomes ready.
<1>13. ASSUME NEW p \in File, NEW k \in Attempt, NEW s,
              try[p][k].step # "idle", life[p] = "pending", life' = [life EXCEPT ![p] = "live"],
              \A q \in File, l \in Attempt :
                  try'[q][l].step = IF q = p /\ l = k THEN s ELSE try[q][l].step,
              UNCHANGED <<blob, lost, doomed, old, stale, sweep, avatar, job>>
       PROVE  Core'
  BY <1>13
<1>14. ASSUME NEW p \in File, NEW k \in Attempt, Fail(p, k)
       PROVE  \E s \in {"failing", "over"} : \A q \in File, l \in Attempt :
                 try'[q][l].step = IF q = p /\ l = k THEN s ELSE try[q][l].step
  BY <1>14, MovedStep DEF Fail
<1>15. ASSUME NEW p \in File, NEW k \in Attempt, Trouble(p, k) PROVE Core'
  <2>1. CASE Die(p, k)
    BY <1>12, <2>1, MovedStep DEF Die, Running
  <2>2. CASE Stumble(p, k)
    BY <1>12, <1>14, <2>2 DEF Stumble
  <2>3. CASE ReadyUnheard(p, k)
    BY <1>13, <1>14, <2>3 DEF ReadyUnheard
  <2>4. CASE PointUnheard(p, k)
    BY <1>12, <1>14, <2>4 DEF PointUnheard, Row
  <2> QED
    BY <1>15, <2>1, <2>2, <2>3, <2>4 DEF Trouble
<1>16. ASSUME NEW p \in File, NEW k \in Attempt, Normalise(p, k) PROVE Core'
  <2>1. CASE GetFile(p, k)
    <3>1. CASE life[p] = "pending" /\ try' = Moved(p, k, "fetched") /\ UNCHANGED job
      BY <1>12, <2>1, <3>1, MovedStep DEF GetFile, store
    <3>2. CASE life[p] = "live" /\ try' = Moved(p, k, "ready") /\ UNCHANGED job
      BY <1>12, <2>1, <3>2, MovedStep DEF GetFile, store
    <3>3. CASE Finish(p, k)
      BY <1>12, <2>1, <3>3, FinishStep DEF GetFile, store
    <3> QED
      BY <2>1, <3>1, <3>2, <3>3 DEF GetFile
  <2>2. ASSUME Discard(p), Finish(p, k), try[p][k].step # "idle",
               UNCHANGED <<blob, lost, old, stale, sweep>>
        PROVE  Core'
    <3>1. job[p] # "none" /\ p \notin lost /\ life[p] \notin OnItsWay
      BY <2>2
    <3>2. /\ \A q \in File : job'[q] # job[q] => job'[q] # "none" /\ q = p /\ p \notin lost
          /\ \A q \in File, l \in Attempt :
                /\ try'[q][l].step \in {try[q][l].step, "over"}
                /\ try'[q][l].step # "idle" => try[q][l].step # "idle"
      <4> HIDE DEF Core, StoresAgree, JobsFollow, PointsAtReady
      <4> QED
        BY <2>2, <3>1, FinishStep
    <3>3. /\ life' \in [File -> Stages]
          /\ \A g \in File : life'[g] = life[g] \/ (g = p /\ life'[g] = "gone")
          /\ doomed' \subseteq doomed \cup {p} /\ (p \in doomed' => p \in doomed \/ life'[p] = "gone")
          /\ avatar' = Cleared({p})
      BY <1>7, <2>2 DEF Discard
    <3> HIDE DEF Core, StoresAgree, JobsFollow, PointsAtReady
    <3> QED
      BY <1>5, <2>2, <3>1, <3>2, <3>3
  <2>3. CASE Decode(p, k)
    <3>1. CASE Fail(p, k) /\ UNCHANGED <<life, doomed, avatar, job>>
      BY <1>12, <1>14, <2>3, <3>1 DEF Decode
    <3>2. CASE try' = Moved(p, k, "decoded") /\ UNCHANGED <<life, doomed, avatar, job>>
      BY <1>12, <2>3, <3>2, MovedStep DEF Decode
    <3> QED
      BY <2>2, <2>3, <3>1, <3>2 DEF Decode
  <2>4. CASE PutImage(p, k)
    <3>1. \A q \in File, l \in Attempt :
             try'[q][l].step = IF q = p /\ l = k THEN "put" ELSE try[q][l].step
      BY <2>4, MovedStep DEF PutImage
    <3> QED
      BY <2>4, <3>1 DEF PutImage
  <2>5. CASE Ready(p, k)
    <3>1. CASE life[p] = "pending"
      BY <1>13, <2>5, <3>1, MovedStep DEF Ready
    <3> QED
      BY <2>2, <2>5, <3>1 DEF Ready
  <2>6. CASE PointAt(p, k)
    <3>1. CASE Row(p) /\ avatar' = p /\ Finish(p, k)
      BY <1>12, <2>6, <3>1, FinishStep DEF PointAt, Row, store
    <3>2. CASE /\ Row(p) /\ avatar' = p /\ UNCHANGED job
               /\ try' = [try EXCEPT ![p][k] = [step |-> "swapped", prev |-> avatar]]
      <4>1. \A q \in File, l \in Attempt :
               try'[q][l].step = IF q = p /\ l = k THEN "swapped" ELSE try[q][l].step
        BY <3>2 DEF TypeOK
      <4> QED
        BY <1>12, <2>6, <3>2, <4>1 DEF PointAt, Row, store
    <3>3. CASE Fail(p, k) /\ UNCHANGED <<avatar, job>>
      BY <1>12, <1>14, <2>6, <3>3 DEF PointAt, store
    <3> QED
      BY <2>6, <3>1, <3>2, <3>3 DEF PointAt
  <2>7. ASSUME NEW q \in File, DeleteFile(q), Finish(p, k), try[p][k].step # "idle",
               UNCHANGED <<blob, lost, old, stale, sweep>>
        PROVE  Core'
    <3>1. /\ \A g \in File : life'[g] = life[g] \/ (g = q /\ life'[g] = "gone")
          /\ life' \in [File -> Stages]
          /\ doomed' \subseteq doomed \cup {q} /\ (q \in doomed' => q \in doomed \/ life'[q] = "gone")
          /\ avatar' = Cleared({q})
      <4>1. {q} \cap File = {q}
        OBVIOUS
      <4> QED
        BY <1>6, <2>7, <4>1 DEF DeleteFile
    <3>2. /\ \A x \in File, l \in Attempt :
                 try'[x][l].step = IF x = p /\ l = k THEN "over" ELSE try[x][l].step
          /\ \A x \in File : job'[x] = job[x] \/ (x = p /\ job'[x] = "done")
      BY <2>7, FinishStep
    <3> QED
      BY <2>7, <3>1, <3>2 DEF Cleared
  <2>8. CASE DeletePrevious(p, k)
    <3>1. try[p][k].prev \in File
      BY <2>8 DEF DeletePrevious, TypeOK
    <3> QED
      BY <2>7, <2>8, <3>1 DEF DeletePrevious
  <2>9. CASE DeletePending(p, k)
    BY <2>7, <2>9 DEF DeletePending
  <2>10. CASE CheckReferenced(p, k)
    BY <1>12, <2>10, MovedStep, FinishStep DEF CheckReferenced, store
  <2> QED
    BY <1>16, <2>1, <2>3, <2>4, <2>5, <2>6, <2>8, <2>9, <2>10 DEF Normalise
<1>17. CASE UNCHANGED vars
  BY <1>17 DEF vars, store
<1> QED
  BY <1>3, <1>4, <1>8, <1>9, <1>10, <1>11, <1>15, <1>16, <1>17 DEF Next

-----------------------------------------------------------------------------
(* The quota *)

LEMMA QuotaStep == Inv /\ [Next]_vars => AskedWithin'
<1> SUFFICES ASSUME Inv, [Next]_vars PROVE AskedWithin'
  OBVIOUS
<1>0. TypeOK /\ AskedWithin /\ life \in [File -> Stages] /\ Quota \in Nat
  BY FileStoreAssumption DEF Inv, TypeOK, StoreTypeOK
<1> USE <1>0
<1>f. Asked(life) \subseteq AnyBytes /\ IsFiniteSet(Asked(life)) /\ Cardinality(Asked(life)) \in Nat
  <2>1. Asked(life) \subseteq AnyBytes
    BY AskedIs, BytesAreAny
  <2> QED
    BY <2>1, BytesFinite
\* A row goes in where the stored bytes leave it the room it asks for ...
<1>1. ASSUME NEW p \in File, life[p] = "stored", Fits(p), life' = [life EXCEPT ![p] = "pending"]
      PROVE  AskedWithin'
  <2> DEFINE own == {p} \X (1 .. Size[p].sent)
  <2>1. Asked(life') \subseteq Asked(life) \cup own
    <3>1. ASSUME NEW u \in Asked(life') PROVE u \in Asked(life) \cup own
      <4>1. PICK f \in File, b \in Nat : u = <<f, b>>
        BY <3>1, AskedArePairs
      <4>2. CASE f = p
        BY <1>1, <3>1, <4>1, <4>2, InAsked
      <4>3. CASE f # p
        <5>1. life'[f] = life[f]
          BY <1>1, <4>3
        <5> QED
          BY <3>1, <4>1, <5>1, InAsked
      <4> QED
        BY <4>2, <4>3
    <3> QED
      BY <3>1
  <2>2. IsFiniteSet(own) /\ Cardinality(own) = Size[p].sent /\ Size[p].sent \in Nat
    <3>1. Size[p].sent \in Nat
      BY FileStoreAssumption
    <3> QED
      BY <3>1, FileBytes
  <2>3. /\ IsFiniteSet(Asked(life) \cup own)
        /\ Cardinality(Asked(life) \cup own)
              = Cardinality(Asked(life)) + Size[p].sent - Cardinality(Asked(life) \cap own)
    BY <1>f, <2>2, FS_Union
  <2>4. Cardinality(Asked(life) \cap own) \in Nat
    BY <1>f, FS_Intersection, FS_CardinalityType
  <2>5. Cardinality(Asked(life')) <= Cardinality(Asked(life) \cup own)
    BY <2>1, <2>3, FS_Subset
  <2>6. Cardinality(Asked(life)) <= Cardinality(Stored) /\ Cardinality(Stored) \in Nat
    <3>1. IsFiniteSet(Stored) /\ Cardinality(Stored) \in Nat /\ Asked(life) \subseteq Stored
      BY AskedIs, BytesAreAny, BytesFinite
    <3> QED
      BY <3>1, FS_Subset
  <2>7. Cardinality(Stored) + Size[p].sent <= Quota
    BY <1>1 DEF Fits
  <2>8. Cardinality(Asked(life')) \in Nat
    BY <2>1, <2>3, FS_Subset, FS_CardinalityType
  <2>9. Cardinality(Asked(life')) <= Quota
    BY <1>f, <2>2, <2>3, <2>4, <2>5, <2>6, <2>7, <2>8
  <2> QED
    BY <2>9 DEF AskedWithin
\* ... and nothing else asks for any.
<1>2. ASSUME \A f \in File : /\ life'[f] = "pending" => life[f] = "pending"
                             /\ life'[f] = "live" => life[f] \in {"pending", "live"}
      PROVE  AskedWithin'
  <2>1. Asked(life') \subseteq Asked(life)
    <3>1. ASSUME NEW u \in Asked(life') PROVE u \in Asked(life)
      <4>1. PICK f \in File, b \in Nat : u = <<f, b>>
        BY <3>1, AskedArePairs
      <4>2. /\ life'[f] \in {"pending", "live"}
            /\ b \in 1 .. (IF life'[f] = "pending" THEN Size[f].sent ELSE Size[f].kept)
            /\ life'[f] = "live" => b \notin Size[f].sent + 1 .. Size[f].kept
        BY <3>1, <4>1, InAsked
      <4>3. Size[f].sent \in Nat /\ Size[f].kept \in Nat
        BY FileStoreAssumption
      <4>4. /\ life[f] \in {"pending", "live"}
            /\ b \in 1 .. (IF life[f] = "pending" THEN Size[f].sent ELSE Size[f].kept)
            /\ life[f] = "live" => b \notin Size[f].sent + 1 .. Size[f].kept
        BY <1>2, <4>2, <4>3
      <4> QED
        BY <4>1, <4>4, InAsked
    <3> QED
      BY <3>1
  <2>2. Cardinality(Asked(life')) <= Cardinality(Asked(life)) /\ Cardinality(Asked(life')) \in Nat
    BY <1>f, <2>1, FS_Subset, FS_CardinalityType
  <2> QED
    BY <1>f, <2>2 DEF AskedWithin
<1>3. ASSUME NEW p \in File, Upload(p) PROVE AskedWithin'
  <2>1. CASE RecordRow(p, "pending") \/ RecordUnheard(p, "pending")
    BY <1>1, <2>1 DEF RecordRow, RecordUnheard, CommitUnheard, StillFits
  <2>2. CASE CheckQuota(p) \/ StoreBlob(p) \/ RefuseRow(p)
    BY <1>2, <2>2 DEF CheckQuota, StoreBlob, RefuseRow
  <2> QED
    BY <1>3, <2>1, <2>2 DEF Upload
<1>4. CASE UNCHANGED life
  BY <1>2, <1>4
<1>5. ASSUME NEW S, DeleteRows(S) PROVE AskedWithin'
  BY <1>2, <1>5 DEF DeleteRows
<1>6. ASSUME NEW p \in File, Discard(p) PROVE AskedWithin'
  BY <1>2, <1>6 DEF Discard
<1>7. CASE Sweep
  BY <1>4, <1>5, <1>7 DEF Sweep, SweepList, SweepAsk, SweepStrays, SweepStop, SweepSkip, SweepDelete
<1>8. ASSUME NEW f \in File, Blobs(f) \/ GrowOld(f) \/ Lease(f) \/ GiveUp(f) PROVE AskedWithin'
  BY <1>4, <1>8 DEF Blobs, DropBlob, LoseDrop, GrowOld, Age, Lease, GiveUp, store
<1>9. ASSUME NEW p \in File, Enqueue(p) PROVE AskedWithin'
  BY <1>4, <1>6, <1>9 DEF Enqueue
<1>10. ASSUME NEW p \in File, life[p] = "pending", life' = [life EXCEPT ![p] = "live"]
       PROVE  AskedWithin'
  BY <1>2, <1>10
<1>11. ASSUME NEW p \in File, NEW k \in Attempt, Trouble(p, k) PROVE AskedWithin'
  BY <1>4, <1>10, <1>11 DEF Trouble, Die, Stumble, ReadyUnheard, PointUnheard
<1>12. ASSUME NEW p \in File, NEW k \in Attempt, Normalise(p, k) PROVE AskedWithin'
  <2>1. CASE GetFile(p, k) \/ PutImage(p, k) \/ PointAt(p, k) \/ CheckReferenced(p, k)
    BY <1>4, <2>1 DEF GetFile, PutImage, PointAt, CheckReferenced, store
  <2>2. CASE Decode(p, k)
    BY <1>4, <1>6, <2>2 DEF Decode
  <2>3. CASE Ready(p, k)
    BY <1>6, <1>10, <2>3 DEF Ready
  <2>4. CASE DeletePrevious(p, k) \/ DeletePending(p, k)
    BY <1>5, <2>4 DEF DeletePrevious, DeletePending, DeleteFile
  <2> QED
    BY <1>12, <2>1, <2>2, <2>3, <2>4 DEF Normalise
<1>13. CASE UNCHANGED vars
  BY <1>4, <1>13 DEF vars, store
<1> QED
  BY <1>3, <1>7, <1>8, <1>9, <1>11, <1>12, <1>13 DEF Next

-----------------------------------------------------------------------------
(* One attempt at a time *)

LEMMA OneStep == Inv /\ [Next]_vars /\ overlaps' = MaxOverlaps => OneAtATime'
<1> SUFFICES ASSUME Inv, [Next]_vars, overlaps' = MaxOverlaps PROVE OneAtATime'
  OBVIOUS
<1>0. TypeOK /\ JobsFollow /\ PointsAtReady /\ life \in [File -> Stages]
      /\ job \in [File -> {"none", "queued", "done"}]
      /\ overlaps \in 0 .. MaxOverlaps /\ MaxOverlaps \in Nat /\ NoPicture \notin File
  BY AvatarsAssumption, Picture DEF Inv, TypeOK, StoreTypeOK
<1> USE <1>0
<1>1. overlaps = MaxOverlaps
  <2>1. ASSUME NEW free, AloneOr(free) PROVE overlaps = MaxOverlaps
    BY <2>1 DEF AloneOr
  <2>2. CASE UNCHANGED overlaps
    BY <2>2
  <2>3. ASSUME NEW p \in File, NEW k \in Attempt, Normalise(p, k) \/ Trouble(p, k)
        PROVE  UNCHANGED overlaps
    BY <2>3 DEF Normalise, GetFile, Decode, PutImage, Ready, PointAt, DeletePrevious, CheckReferenced,
                DeletePending, Trouble, Die, Stumble, ReadyUnheard, PointUnheard
  <2> QED
    BY <2>1, <2>2, <2>3
       DEF Next, Upload, Enqueue, Lease, GiveUp, Blobs, GrowOld, Sweep, vars, queue
<1>2. OneAtATime
  BY <1>1 DEF Inv
\* Whatever happens elsewhere: attempts end, pictures go and the pointer is
\* cleared.
<1>3. ASSUME \A p \in File, k \in Attempt : try'[p][k].step \in {try[p][k].step, "over"},
             \A p \in File : job[p] = "queued" /\ Running(p) # {} => job'[p] = "queued",
             \A p \in File : life'[p] = "live" => life[p] = "live" \/ Running(p) = {},
             avatar' \in {avatar, NoPicture}
      PROVE  OneAtATime'
  BY <1>2, <1>3 DEF OneAtATime, Running
<1>4. ASSUME UNCHANGED <<job, try>>, avatar' \in {avatar, NoPicture},
             \A p \in File : life'[p] = "live" => life[p] = "live"
      PROVE  OneAtATime'
  BY <1>3, <1>4
<1>5. ASSUME NEW S PROVE Cleared(S) \in {avatar, NoPicture}
  BY DEF Cleared
<1>6. ASSUME NEW p \in File, Upload(p) PROVE OneAtATime'
  BY <1>4, <1>6 DEF Upload, CheckQuota, StoreBlob, RecordRow, RefuseRow, RecordUnheard, CommitUnheard
<1>7. ASSUME NEW f \in File, Blobs(f) \/ GrowOld(f) PROVE OneAtATime'
  BY <1>4, <1>7 DEF Blobs, DropBlob, LoseDrop, GrowOld, Age, queue
<1>8. CASE Sweep
  <2>1. ASSUME NEW f \in File, SweepDelete(f), avatar' = Cleared({f}), UNCHANGED queue
        PROVE  OneAtATime'
    BY <1>4, <1>5, <2>1 DEF SweepDelete, DeleteRows, queue
  <2> QED
    BY <1>4, <1>8, <2>1 DEF Sweep, SweepList, SweepAsk, SweepStrays, SweepStop, SweepSkip, queue
<1>9. ASSUME NEW p \in File, Enqueue(p) PROVE OneAtATime'
  <2>1. Running(p) = {}
    BY <1>9 DEF Enqueue, JobsFollow, Running
  <2>2. \A q \in File : q # p => job'[q] = job[q]
    BY <1>9 DEF Enqueue
  <2>3. \A q \in File : life'[q] = "live" => life[q] = "live"
    BY <1>9 DEF Enqueue, Discard
  <2> QED
    BY <1>3, <1>5, <1>9, <2>1, <2>2, <2>3 DEF Enqueue, Discard
\* With no overlap nothing was running when an attempt is begun.
<1>10. ASSUME NEW p \in File, Lease(p) PROVE OneAtATime'
  <2>1. Performing = {}
    BY <1>1, <1>10 DEF Lease, AloneOr
  <2>2. \A q \in File : Running(q) = {}
    BY <1>2, <2>1 DEF Performing, OneAtATime, Running
  <2>3. PICK k \in Attempt : try' = Moved(p, k, "leased")
    BY <1>10 DEF Lease
  <2>4. \A q \in File, l \in Attempt :
           try'[q][l].step = IF q = p /\ l = k THEN "leased" ELSE try[q][l].step
    BY <2>3, MovedStep
  <2> QED
    BY <1>10, <2>2, <2>4 DEF Lease, OneAtATime, Running
<1>11. ASSUME NEW p \in File, GiveUp(p) PROVE OneAtATime'
  <2>1. Running(p) = {}
    BY <1>1, <1>11 DEF GiveUp, AloneOr
  <2> QED
    BY <1>3, <1>11, <2>1 DEF GiveUp, store
\* The one attempt there is moves on or ends.
<1>12. ASSUME NEW p \in File, NEW k \in Attempt, try[p][k].step \notin {"idle", "over"},
              \A q \in File, l \in Attempt : (q = p /\ l = k) \/ try'[q][l].step = try[q][l].step,
              job' = job, try'[p][k].step \in {"fetched", "decoded", "put"} => life'[p] # "live",
              try'[p][k].step = "swapped" => avatar' \in {p, NoPicture},
              try'[p][k].step = "checked" => avatar' # p
       PROVE  OneAtATime'
  BY <1>2, <1>12 DEF OneAtATime, Running
<1>17. ASSUME NEW p \in File, NEW k \in Attempt, try[p][k].step \notin {"idle", "over"},
              \A q \in File, l \in Attempt :
                  try'[q][l].step = IF q = p /\ l = k THEN "over" ELSE try[q][l].step
       PROVE  OneAtATime'
  BY <1>2, <1>17 DEF OneAtATime, Running
<1>13. ASSUME NEW p \in File, NEW k \in Attempt, Fail(p, k)
       PROVE  \E s \in {"failing", "over"} : \A q \in File, l \in Attempt :
                 try'[q][l].step = IF q = p /\ l = k THEN s ELSE try[q][l].step
  BY <1>13, MovedStep DEF Fail
<1>14. ASSUME NEW p \in File, NEW k \in Attempt, Trouble(p, k) PROVE OneAtATime'
  <2>1. try[p][k].step \notin {"idle", "over"}
    BY <1>14 DEF Trouble, Die, Stumble, ReadyUnheard, PointUnheard, Running
  <2>2. CASE Die(p, k)
    BY <1>17, <2>1, <2>2, MovedStep DEF Die
  <2>3. CASE Stumble(p, k) \/ ReadyUnheard(p, k) \/ PointUnheard(p, k)
    BY <1>12, <1>13, <2>1, <2>3 DEF Stumble, ReadyUnheard, PointUnheard
  <2> QED
    BY <1>14, <2>2, <2>3 DEF Trouble
<1>15. ASSUME NEW p \in File, NEW k \in Attempt, Normalise(p, k) PROVE OneAtATime'
  <2>1. try[p][k].step \notin {"idle", "over"}
    BY <1>15 DEF Normalise, GetFile, Decode, PutImage, Ready, PointAt, DeletePrevious, CheckReferenced,
                 DeletePending, Running
  <2>2. CASE Finish(p, k)
    BY <1>17, <2>1, <2>2, FinishStep
  <2>3. CASE Fail(p, k) /\ UNCHANGED job
    BY <1>12, <1>13, <2>1, <2>3
  <2>4. CASE GetFile(p, k)
    BY <1>12, <2>1, <2>2, <2>4, MovedStep DEF GetFile, store
  <2>5. CASE Decode(p, k)
    <3>1. CASE try' = Moved(p, k, "decoded") /\ UNCHANGED <<life, doomed, avatar, job>>
      <4>1. life[p] # "live"
        BY <1>2, <2>1, <2>5 DEF Decode, OneAtATime, Running
      <4> QED
        BY <1>12, <2>1, <3>1, <4>1, MovedStep
    <3> QED
      BY <2>2, <2>3, <2>5, <3>1 DEF Decode
  <2>6. CASE PutImage(p, k)
    <3>1. life[p] # "live"
      BY <1>2, <2>1, <2>6 DEF PutImage, OneAtATime, Running
    <3> QED
      BY <1>12, <2>1, <2>6, <3>1, MovedStep DEF PutImage
  <2>7. CASE Ready(p, k)
    BY <1>12, <2>1, <2>2, <2>7, MovedStep DEF Ready
  <2>8. CASE PointAt(p, k)
    <3>1. CASE /\ Row(p) /\ avatar' = p /\ UNCHANGED job
               /\ try' = [try EXCEPT ![p][k] = [step |-> "swapped", prev |-> avatar]]
      <4>1. \A q \in File, l \in Attempt :
               try'[q][l].step = IF q = p /\ l = k THEN "swapped" ELSE try[q][l].step
        BY <3>1 DEF TypeOK
      <4> QED
        BY <1>12, <2>1, <3>1, <4>1
    <3> QED
      BY <2>2, <2>3, <2>8, <3>1 DEF PointAt
  <2>9. CASE CheckReferenced(p, k)
    BY <1>12, <2>1, <2>2, <2>9, MovedStep DEF CheckReferenced, InUse
  <2> QED
    BY <1>15, <2>2, <2>4, <2>5, <2>6, <2>7, <2>8, <2>9 DEF Normalise, DeletePrevious, DeletePending
<1>16. CASE UNCHANGED vars
  BY <1>4, <1>16 DEF vars, store
<1> QED
  BY <1>6, <1>7, <1>8, <1>9, <1>10, <1>11, <1>14, <1>15, <1>16 DEF Next

LEMMA InvStep == Inv /\ [Next]_vars => Inv'
BY TypeStep, CoreStep, QuotaStep, OneStep DEF Inv, Core

LEMMA Invariant == Spec => []Inv
BY InitInv, InvStep, PTL DEF Spec

-----------------------------------------------------------------------------
(* What an account can count on *)

\* Every piece of state has the shape the code gives it.
THEOREM TypeCorrect == Spec => []TypeOK
BY Invariant, PTL DEF Inv

\* What an account points at can be served: its row is ready and its bytes
\* are there, whatever attempts, sweeps and crashes ran in whatever order
\* (normalise.go, image_upload.go, sweep.go).
THEOREM PictureIsServed == Spec => []BytesBehindAvatar
<1>1. Inv => BytesBehindAvatar
  BY DEF Inv, BytesBehindAvatar, PointsAtReady, StoresAgree, JobsFollow, TypeOK
<1> QED
  BY <1>1, Invariant, PTL

\* However uploads race past the early check, and whatever is readied between
\* the check and the insert, the stored total passes the quota by no more
\* than the pictures grew as they were re-encoded (quota.go insertUnderQuota,
\* files.sql ReadyPendingFile).
THEOREM QuotaPassedByGrowth == Spec => []GrowthAlonePasses
<1>1. Inv => GrowthAlonePasses
  <2> SUFFICES ASSUME Inv PROVE GrowthAlonePasses
    OBVIOUS
  <2>1. /\ IsFiniteSet(Stored) /\ Cardinality(Stored) \in Nat
        /\ IsFiniteSet(Grown) /\ Cardinality(Grown) \in Nat
    BY BytesAreAny, BytesFinite
  <2>2. Cardinality(Stored \ Grown) = Cardinality(Stored) - Cardinality(Stored \cap Grown)
    BY <2>1, FS_Difference
  <2>3. Cardinality(Stored \cap Grown) <= Cardinality(Grown) /\ Cardinality(Stored \cap Grown) \in Nat
    BY <2>1, FS_Intersection, FS_CardinalityType
  <2>4. Cardinality(Stored \ Grown) <= Quota /\ Quota \in Nat
    BY AskedIs, FileStoreAssumption DEF Inv, AskedWithin
  <2> QED
    BY <2>1, <2>2, <2>3, <2>4 DEF GrowthAlonePasses
<1> QED
  BY <1>1, Invariant, PTL

\* An account that has a picture keeps one, whatever uploads fail, are
\* retried or die, unless two attempts ran side by side or the sweep had
\* chosen a picture a day old when it was swapped in (normalise.go, sweep.go).
THEOREM PictureKept == Spec => PictureStands
<1> DEFINE Keeps == avatar # NoPicture /\ avatar' = NoPicture => overlaps < MaxOverlaps \/ avatar \in old
<1>1. ASSUME Inv, [Next]_vars, avatar # NoPicture, avatar' = NoPicture, overlaps = MaxOverlaps
      PROVE  avatar \in old
  <2>0. /\ TypeOK /\ StoresAgree /\ PointsAtReady /\ OneAtATime /\ NoPicture \notin File
        /\ avatar \in File /\ life[avatar] = "live"
    BY <1>1, Picture DEF Inv, TypeOK, PointsAtReady
  <2> USE <1>1, <2>0
  \* Nothing that discards a picture discards this one ...
  <2>1. ASSUME NEW p \in File, avatar' = Cleared({p}) PROVE p = avatar
    BY <2>1 DEF Cleared
  <2>2. ASSUME NEW p \in File, Enqueue(p) PROVE FALSE
    BY <2>1, <2>2 DEF Enqueue, Discard
  <2>3. ASSUME NEW p \in File, NEW k \in Attempt, Normalise(p, k) PROVE FALSE
    <3>1. k \in Running(p)
      BY <2>3 DEF Normalise, GetFile, Decode, PutImage, Ready, PointAt, DeletePrevious, CheckReferenced,
                  DeletePending, Running
    <3>2. CASE Decode(p, k) \/ Ready(p, k)
      BY <2>1, <3>1, <3>2 DEF Decode, Ready, Discard, OneAtATime
    <3>3. CASE DeletePrevious(p, k)
      <4>1. try[p][k].prev \in File \ {p} /\ avatar = p
        BY <3>1, <3>3 DEF DeletePrevious, TypeOK, OneAtATime
      <4> QED
        BY <2>1, <3>3, <4>1 DEF DeletePrevious, DeleteFile
    <3>4. CASE DeletePending(p, k)
      BY <2>1, <3>1, <3>4 DEF DeletePending, DeleteFile, OneAtATime
    <3>5. CASE GetFile(p, k) \/ PutImage(p, k) \/ PointAt(p, k) \/ CheckReferenced(p, k)
      BY <3>5 DEF GetFile, PutImage, PointAt, CheckReferenced
    <3> QED
      BY <2>3, <3>2, <3>3, <3>4, <3>5 DEF Normalise
  <2>4. ASSUME NEW p \in File, NEW k \in Attempt, Trouble(p, k) PROVE FALSE
    BY <2>4 DEF Trouble, Die, Stumble, ReadyUnheard, PointUnheard
  \* ... but the sweep, which takes what is old.
  <2>5. CASE Sweep
    BY <2>1, <2>5 DEF Sweep, SweepDelete, StoresAgree
  <2> QED
    BY <2>2, <2>3, <2>4, <2>5 DEF Next, Upload, Lease, GiveUp, Blobs, GrowOld, vars
<1>2. Inv /\ [Next]_vars => [Keeps]_vars
  <2>1. Inv => overlaps \in 0 .. MaxOverlaps /\ MaxOverlaps \in Nat
    BY AvatarsAssumption DEF Inv, TypeOK
  <2> QED
    BY <1>1, <2>1
<1> QED
  BY <1>2, Invariant, PTL DEF Spec, PictureStands
=============================================================================
