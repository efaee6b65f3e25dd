------------------------- MODULE AttachmentsProofs -------------------------
(***************************************************************************)
(* Proofs about Attachments, for every set of files and thumbnails, any    *)
(* quota and any number of faults: that a row that is served has its       *)
(* bytes, that a message keeps its files until it is deleted, and that a   *)
(* pinned one's keep their bytes.                                          *)
(***************************************************************************)
EXTENDS Attachments, TLAPS

OnItsWay == {"new", "checked", "stored"}

\* What the two stores owe each other, whoever owns the files: a blob is to
\* be deleted only behind a row that is gone or that nobody was told of, an
\* upload that is stored has its bytes, and no age passes over one under way.
StoresAgree ==
    /\ \A f \in doomed : life[f] = "gone" \/ f \in lost
    /\ \A f \in File : life[f] = "stored" => f \in blob
    /\ \A f \in old \cup stale \cup lost : life[f] \notin OnItsWay
    /\ ripe \subseteq old

\* A file that a message has, or that a send has looked at, is nobody's
\* failed upload, and what a message has is a row.
ClaimsHold ==
    /\ \A a \in claims \cup attached : a \notin lost /\ life[a] \notin OnItsWay
    /\ \A a \in attached : Row(a)

\* What a deletion has chosen, a message has only if it claimed it since.
ChosenIsRaced ==
    /\ sweep.todo \subseteq old
    /\ sweep.phase = "deleting" => sweep.todo \cap attached \subseteq raced
    /\ orphans \cap attached \subseteq raced

\* A retention pass drops ripe files only, and of the pinned ones those it
\* could not know of.
PassSparesPinned ==
    /\ retention.todo \subseteq ripe /\ retention.todo \cap retention.keep = {}
    /\ retention.phase # "idle" => pinned \ retention.keep \subseteq pinnedLate

Inv ==
    /\ TypeOK /\ StoresAgree /\ BytesBehindRow /\ ClaimsHold
    /\ ChosenIsRaced /\ PassSparesPinned

LEMMA InitInv == Init => Inv
<1> SUFFICES ASSUME Init PROVE Inv
  OBVIOUS
<1>1. TypeOK
  BY FileStoreAssumption DEF Init, StoreInit, TypeOK, StoreTypeOK, Stages, NoPass
<1>2. StoresAgree /\ BytesBehindRow
  BY DEF Init, StoreInit, StoresAgree, BytesBehindRow
<1>3. ClaimsHold /\ ChosenIsRaced /\ PassSparesPinned
  BY DEF Init, StoreInit, NoPass, ClaimsHold, ChosenIsRaced, PassSparesPinned
<1> QED
  BY <1>1, <1>2, <1>3 DEF Inv

-----------------------------------------------------------------------------
(* Types *)

LEMMA TypeStep == TypeOK /\ [Next]_vars => TypeOK'
<1> SUFFICES ASSUME TypeOK, [Next]_vars PROVE TypeOK'
  OBVIOUS
<1>0. MaxFaults \in Nat
  BY FileStoreAssumption
<1> USE <1>0 DEF TypeOK, StoreTypeOK, Stages, store, chat, keeping, Fault, Row
<1>1. ASSUME NEW a \in Att, Upload(a) PROVE TypeOK'
  BY <1>1 DEF Att, Upload, CheckQuota, StoreBlob, RecordRow, RefuseRow, RecordUnheard, CommitUnheard
<1>2. ASSUME NEW t \in Thumbnails, MakeThumbnail(t) \/ RecordThumbnail(t) PROVE TypeOK'
  BY <1>2, FileStoreAssumption DEF Thumbnails, MakeThumbnail, RecordThumbnail, RefuseRow, CommitUnheard
<1>3. ASSUME NEW a \in Att, CheckClaim(a) \/ Claim(a) \/ Pin(a) \/ Unpin(a) \/ Tombstone(a)
      PROVE  TypeOK'
  BY <1>3 DEF CheckClaim, Claim, Pin, Unpin, Tombstone
<1>4. ASSUME NEW S \in SUBSET File, DeleteRows(S)
      PROVE  life' \in [File -> Stages] /\ doomed' \subseteq File
  BY <1>4, FileStoreAssumption DEF DeleteRows, RowsOf, ThumbRows, Thumbnails
<1>5. ASSUME NEW a \in Att, DeleteFiles(a) PROVE TypeOK'
  <2>1. life' \in [File -> Stages] /\ doomed' \subseteq File
    BY <1>4, <1>5 DEF DeleteFiles, Att
  <2> QED
    BY <1>5, <2>1 DEF DeleteFiles, Cascade
<1>6. ASSUME NEW a \in Att, LoseDelete(a) \/ Ripen(a) PROVE TypeOK'
  BY <1>6 DEF LoseDelete, Ripen
<1>7. ASSUME NEW f \in File, Blobs(f) \/ GrowOld(f) PROVE TypeOK'
  BY <1>7 DEF Blobs, DropBlob, LoseDrop, GrowOld, Age
<1>8. ASSUME Sweep PROVE TypeOK'
  <2>1. CASE /\ SweepList \/ SweepAsk(attached) \/ SweepStrays \/ SweepStop
             /\ UNCHANGED <<chat, keeping>>
    BY <2>1 DEF SweepList, Listed, SweepAsk, SweepStrays, Strays, SweepStop, Idle
  <2>2. ASSUME NEW f \in File, SweepSkip(f), UNCHANGED <<chat, keeping>> PROVE TypeOK'
    BY <2>2 DEF SweepSkip
  <2>3. ASSUME NEW f \in File, SweepDelete(f), Cascade({f}), UNCHANGED <<claims, orphans, keeping>>
        PROVE  TypeOK'
    <3>1. life' \in [File -> Stages] /\ doomed' \subseteq File
      BY <1>4, <2>3 DEF SweepDelete
    <3> QED
      BY <2>3, <3>1 DEF SweepDelete, Cascade
  <2> QED
    BY <1>8, <2>1, <2>2, <2>3 DEF Sweep
<1>9. ASSUME Retention PROVE TypeOK'
  <2>1. CASE ReadPinned \/ ListExpiring \/ RetentionStop
    <3>1. Expiring \subseteq Att
      BY DEF Expiring
    <3>2. CASE ReadPinned
      <4>1. retention' = [phase |-> "kept", keep |-> pinned, todo |-> {}, dropped |-> {}]
        BY <3>2 DEF ReadPinned, NoPass
      <4> QED
        BY <3>2, <4>1 DEF ReadPinned, Att
    <3>3. CASE ListExpiring
      BY <3>1, <3>3 DEF ListExpiring
    <3>4. CASE RetentionStop
      BY <3>4 DEF RetentionStop, NoPass
    <3> QED
      BY <2>1, <3>2, <3>3, <3>4
  <2>2. CASE DropThumbnails
    BY <2>2, FileStoreAssumption DEF DropThumbnails, ThumbRows, Thumbnails
  <2>3. CASE MarkExpired
    BY <2>3 DEF MarkExpired, NoPass
  <2>4. ASSUME NEW a \in Att, DropExpiring(a) \/ KeepExpiring(a) PROVE TypeOK'
    <3>1. retention.todo \ {a} \in SUBSET Att /\ retention.dropped \cup {a} \in SUBSET Att
      OBVIOUS
    <3>2. CASE DropExpiring(a)
      <4>1. /\ retention' \in [phase : {"idle", "kept", "dropping", "marking"},
                               keep : SUBSET Att, todo : SUBSET Att, dropped : SUBSET Att]
            /\ blob' \subseteq File
        BY <3>1, <3>2 DEF DropExpiring
      <4> QED
        BY <3>2, <4>1 DEF DropExpiring
    <3>3. CASE KeepExpiring(a)
      BY <3>1, <3>3 DEF KeepExpiring
    <3> QED
      BY <2>4, <3>2, <3>3
  <2> QED
    BY <1>9, <2>1, <2>2, <2>3, <2>4 DEF Retention
<1>10. CASE UNCHANGED vars
  BY <1>10 DEF vars
<1> QED
  BY <1>1, <1>2, <1>3, <1>5, <1>6, <1>7, <1>8, <1>9, <1>10 DEF Next
-----------------------------------------------------------------------------
(* The stores *)

LEMMA StoresStep == Inv /\ [Next]_vars => StoresAgree' /\ BytesBehindRow'
<1> SUFFICES ASSUME Inv, [Next]_vars PROVE StoresAgree' /\ BytesBehindRow'
  OBVIOUS
<1> USE DEF StoresAgree, BytesBehindRow, OnItsWay
<1>0. /\ TypeOK /\ StoresAgree /\ BytesBehindRow
      /\ life \in [File -> Stages] /\ doomed \cup old \cup stale \cup lost \subseteq File
      /\ retention.todo \subseteq ripe
  BY DEF Inv, TypeOK, StoreTypeOK, PassSparesPinned, Att
<1>. USE <1>0
<1>1. ASSUME NEW f \in File, CheckQuota(f) \/ StoreBlob(f) \/ RefuseRow(f), UNCHANGED ripe
      PROVE  StoresAgree' /\ BytesBehindRow'
  <2>1. CASE CheckQuota(f)
    BY <1>1, <2>1 DEF CheckQuota
  <2>2. CASE StoreBlob(f)
    BY <1>1, <2>2 DEF StoreBlob
  <2>3. CASE RefuseRow(f)
    BY <1>1, <2>3 DEF RefuseRow
  <2> QED
    BY <1>1, <2>1, <2>2, <2>3
<1>2. ASSUME NEW f \in File, life[f] = "stored", life' = [life EXCEPT ![f] = "live"],
             blob' = blob, ripe' = ripe, old' = old, stale' = stale,
             \/ lost' = lost /\ doomed' = doomed
             \/ lost' = lost \cup {f} /\ doomed' = doomed \cup {f}
      PROVE  StoresAgree' /\ BytesBehindRow'
  BY <1>2
<1>3. ASSUME UNCHANGED <<life, blob, lost, doomed, old, stale>>, ripe \subseteq ripe', ripe' \subseteq old
      PROVE  StoresAgree' /\ BytesBehindRow'
  BY <1>3
<1>4. ASSUME \A f \in File : \/ life'[f] \in {life[f], "gone"}
                             \/ life'[f] = "expired" /\ Row(f),
             doomed' \subseteq doomed \cup {f \in File : life'[f] = "gone"},
             UNCHANGED <<blob, lost, old, stale, ripe>>
      PROVE  StoresAgree' /\ BytesBehindRow'
  BY <1>4 DEF Row
<1>5. ASSUME NEW S \in SUBSET File, DeleteRows(S), UNCHANGED <<blob, lost, old, stale, ripe>>
      PROVE  StoresAgree' /\ BytesBehindRow'
  <2>1. RowsOf(S) \subseteq File
    BY FileStoreAssumption DEF RowsOf, ThumbRows, Thumbnails
  <2> QED
    BY <1>4, <1>5, <2>1 DEF DeleteRows
<1>6. ASSUME NEW a \in Att, Upload(a) PROVE StoresAgree' /\ BytesBehindRow'
  <2>1. CASE RecordRow(a, "live") \/ RecordUnheard(a, "live")
    BY <1>2, <1>6, <2>1 DEF Upload, RecordRow, RecordUnheard, CommitUnheard, Att, keeping
  <2> QED
    BY <1>1, <1>6, <2>1 DEF Upload, Att, keeping
<1>7. ASSUME NEW t \in Thumbnails, MakeThumbnail(t) PROVE StoresAgree' /\ BytesBehindRow'
  BY <1>7, FileStoreAssumption DEF MakeThumbnail, Thumbnails, keeping
<1>8. ASSUME NEW t \in Thumbnails, RecordThumbnail(t) PROVE StoresAgree' /\ BytesBehindRow'
  <2>1. t \in File
    BY FileStoreAssumption DEF Thumbnails
  <2> QED
    BY <1>1, <1>2, <1>8, <2>1 DEF RecordThumbnail, CommitUnheard, keeping
<1>9. ASSUME NEW a \in Att,
             CheckClaim(a) \/ Claim(a) \/ Pin(a) \/ Unpin(a) \/ Tombstone(a) \/ LoseDelete(a) \/ Ripen(a)
      PROVE  StoresAgree' /\ BytesBehindRow'
  BY <1>3, <1>9 DEF CheckClaim, Claim, Pin, Unpin, Tombstone, LoseDelete, Ripen, store, keeping
<1>10. ASSUME NEW a \in Att, DeleteFiles(a) PROVE StoresAgree' /\ BytesBehindRow'
  BY <1>5, <1>10 DEF DeleteFiles, Att, keeping
<1>11. ASSUME NEW f \in File, Blobs(f) \/ GrowOld(f) PROVE StoresAgree' /\ BytesBehindRow'
  <2>1. CASE DropBlob(f) /\ UNCHANGED <<chat, keeping>>
    BY <2>1 DEF DropBlob, keeping
  <2>2. CASE LoseDrop(f) /\ UNCHANGED <<chat, keeping>>
    BY <2>2 DEF LoseDrop, keeping
  <2>3. CASE GrowOld(f)
    BY <2>3 DEF GrowOld, Age, keeping
  <2> QED
    BY <1>11, <2>1, <2>2, <2>3 DEF Blobs
<1>12. CASE Sweep
  <2>1. CASE SweepStrays /\ UNCHANGED <<chat, keeping>>
    <3>1. \A f \in Strays : life[f] = "gone"
      BY DEF Strays, Row, Stages
    <3> QED
      BY <1>4, <2>1, <3>1 DEF SweepStrays, keeping
  <2>2. CASE (SweepList \/ SweepAsk(attached) \/ SweepStop) /\ UNCHANGED <<chat, keeping>>
    BY <1>3, <2>2 DEF SweepList, SweepAsk, SweepStop, keeping
  <2>3. ASSUME NEW f \in File, SweepSkip(f), UNCHANGED <<chat, keeping>>
        PROVE  StoresAgree' /\ BytesBehindRow'
    BY <1>3, <2>3 DEF SweepSkip, keeping
  <2>4. ASSUME NEW f \in File, SweepDelete(f), UNCHANGED keeping
        PROVE  StoresAgree' /\ BytesBehindRow'
    BY <1>5, <2>4 DEF SweepDelete, keeping
  <2> QED
    BY <1>12, <2>1, <2>2, <2>3, <2>4 DEF Sweep
<1>13. CASE Retention
  <2>1. CASE ReadPinned \/ ListExpiring \/ RetentionStop \/ \E a \in Att : KeepExpiring(a)
    BY <1>3, <2>1 DEF ReadPinned, ListExpiring, RetentionStop, KeepExpiring, store
  <2>2. CASE DropThumbnails
    <3>1. ThumbRows(retention.dropped) \subseteq File
      BY FileStoreAssumption DEF ThumbRows, Thumbnails
    <3> QED
      BY <1>4, <2>2, <3>1 DEF DropThumbnails
  <2>3. CASE MarkExpired
    BY <1>4, <2>3 DEF MarkExpired, Marked
  <2>4. ASSUME NEW a \in Att, DropExpiring(a) PROVE StoresAgree' /\ BytesBehindRow'
    BY <2>4 DEF DropExpiring
  <2> QED
    BY <1>13, <2>1, <2>2, <2>3, <2>4 DEF Retention
<1>14. CASE UNCHANGED vars
  BY <1>3, <1>14 DEF vars, store
<1> QED
  BY <1>6, <1>7, <1>8, <1>9, <1>10, <1>11, <1>12, <1>13, <1>14 DEF Next

-----------------------------------------------------------------------------
(* Messages *)

LEMMA ClaimsStep == Inv /\ [Next]_vars => ClaimsHold'
<1> SUFFICES ASSUME Inv, [Next]_vars PROVE ClaimsHold'
  OBVIOUS
<1> USE DEF ClaimsHold, OnItsWay
<1>0. /\ TypeOK /\ ClaimsHold
      /\ life \in [File -> Stages] /\ claims \cup attached \subseteq Att /\ Att \subseteq File
      /\ Att \cap Thumbnails = {}
  BY DEF Inv, TypeOK, StoreTypeOK, Att
<1> USE <1>0
\* No row of a message goes but with its link, and no upload of one is lost.
<1>1. ASSUME claims' \subseteq claims, attached' \subseteq attached,
             \A a \in claims \cup attached : a \in lost' => a \in lost,
             \A a \in claims \cup attached : life'[a] # life[a] => life'[a] \in {"gone", "expired"},
             \A a \in attached' : life'[a] \in {life[a], "expired"}
      PROVE  ClaimsHold'
  BY <1>1 DEF Row
<1>2. ASSUME NEW f \in File,
             CheckQuota(f) \/ StoreBlob(f) \/ RecordRow(f, "live") \/ RefuseRow(f)
               \/ RecordUnheard(f, "live"),
             UNCHANGED chat
      PROVE  ClaimsHold'
  BY <1>2 DEF CheckQuota, StoreBlob, RecordRow, RefuseRow, RecordUnheard, CommitUnheard, chat, Row
<1>3. ASSUME NEW a \in Att, Upload(a) PROVE ClaimsHold'
  BY <1>2, <1>3 DEF Upload, Att
<1>4. ASSUME NEW t \in Thumbnails, MakeThumbnail(t) \/ RecordThumbnail(t) PROVE ClaimsHold'
  <2>1. \A a \in Att : life'[a] = life[a]
    BY <1>4 DEF MakeThumbnail, RecordThumbnail, RefuseRow, CommitUnheard
  <2> QED
    BY <1>1, <1>4, <2>1 DEF MakeThumbnail, RecordThumbnail, RefuseRow, CommitUnheard, chat
<1>5. ASSUME NEW a \in Att, CheckClaim(a) \/ Claim(a) PROVE ClaimsHold'
  BY <1>5 DEF CheckClaim, Claim, Row, store
<1>6. ASSUME NEW a \in Att, Pin(a) \/ Unpin(a) \/ Tombstone(a) \/ LoseDelete(a) \/ Ripen(a)
      PROVE  ClaimsHold'
  BY <1>1, <1>6 DEF Pin, Unpin, Tombstone, LoseDelete, Ripen, store, chat
<1>7. ASSUME NEW f \in File, DeleteRows({f}), Cascade({f}), UNCHANGED <<lost, claims>>
      PROVE  ClaimsHold'
  <2>1. \A a \in Att : life'[a] # life[a] => life'[a] = "gone" /\ a = f
    BY <1>7 DEF DeleteRows, RowsOf, ThumbRows
  <2> QED
    BY <1>1, <1>7, <2>1 DEF Cascade
<1>8. ASSUME NEW a \in Att, DeleteFiles(a) PROVE ClaimsHold'
  BY <1>7, <1>8 DEF DeleteFiles
<1>9. ASSUME NEW f \in File, Blobs(f) \/ GrowOld(f) PROVE ClaimsHold'
  BY <1>1, <1>9 DEF Blobs, DropBlob, LoseDrop, GrowOld, Age, chat
<1>10. CASE Sweep
  <2>1. CASE UNCHANGED <<life, lost, chat>>
    BY <1>1, <2>1 DEF chat
  <2>2. ASSUME NEW f \in File, SweepDelete(f), Cascade({f}), UNCHANGED <<claims, orphans, keeping>>
        PROVE  ClaimsHold'
    BY <1>7, <2>2 DEF SweepDelete
  <2> QED
    BY <1>10, <2>1, <2>2 DEF Sweep, SweepList, SweepAsk, SweepStrays, SweepStop, SweepSkip
<1>11. CASE Retention
  <2>1. CASE DropThumbnails
    <3>1. \A a \in Att : life'[a] = life[a]
      BY <2>1 DEF DropThumbnails, ThumbRows
    <3> QED
      BY <1>1, <2>1, <3>1 DEF DropThumbnails, chat
  <2>2. CASE MarkExpired
    BY <1>1, <2>2 DEF MarkExpired
  <2>3. CASE UNCHANGED <<life, lost, claims, attached>>
    BY <1>1, <2>3
  <2> QED
    BY <1>11, <2>1, <2>2, <2>3
       DEF Retention, ReadPinned, ListExpiring, RetentionStop, DropExpiring, KeepExpiring, store, chat
<1>12. CASE UNCHANGED vars
  BY <1>1, <1>12 DEF vars, store, chat
<1> QED
  BY <1>3, <1>4, <1>5, <1>6, <1>8, <1>9, <1>10, <1>11, <1>12 DEF Next

LEMMA ChosenStep == Inv /\ [Next]_vars => ChosenIsRaced'
<1> SUFFICES ASSUME Inv, [Next]_vars PROVE ChosenIsRaced'
  OBVIOUS
<1> USE DEF ChosenIsRaced
<1>0. /\ TypeOK /\ ChosenIsRaced
      /\ sweep \in [phase : {"idle", "listed", "deleting"}, todo : SUBSET File]
      /\ attached \subseteq Att
  BY DEF Inv, TypeOK, StoreTypeOK
<1> USE <1>0
\* Links go with what says they were raced, deletions are chosen of what no
\* message has.
<1>1. ASSUME NEW S, attached' = attached \ S, raced' = raced \ S, old \subseteq old',
             sweep'.todo \subseteq sweep.todo, sweep'.phase = sweep.phase,
             orphans' \subseteq orphans \cup S
      PROVE  ChosenIsRaced'
  BY <1>1
<1>2. ASSUME attached' = attached, raced' = raced, old \subseteq old',
             sweep'.todo \subseteq sweep.todo, sweep'.phase = sweep.phase,
             orphans' \subseteq orphans
      PROVE  ChosenIsRaced'
  BY <1>2
<1>3. ASSUME NEW a \in Att, Upload(a) PROVE ChosenIsRaced'
  BY <1>2, <1>3 DEF Upload, CheckQuota, StoreBlob, RecordRow, RefuseRow, RecordUnheard, CommitUnheard, chat
<1>4. ASSUME NEW t \in Thumbnails, MakeThumbnail(t) \/ RecordThumbnail(t) PROVE ChosenIsRaced'
  BY <1>2, <1>4 DEF MakeThumbnail, RecordThumbnail, RefuseRow, CommitUnheard, chat
<1>5. ASSUME NEW a \in Att, CheckClaim(a) \/ Pin(a) \/ Unpin(a) \/ LoseDelete(a) \/ Ripen(a)
      PROVE  ChosenIsRaced'
  BY <1>2, <1>5 DEF CheckClaim, Pin, Unpin, LoseDelete, Ripen, store, chat
<1>6. ASSUME NEW a \in Att, Claim(a) PROVE ChosenIsRaced'
  BY <1>6 DEF Claim, store
<1>7. ASSUME NEW a \in Att, Tombstone(a) PROVE ChosenIsRaced'
  BY <1>1, <1>7 DEF Tombstone, store
<1>8. ASSUME NEW a \in Att, DeleteFiles(a) PROVE ChosenIsRaced'
  BY <1>1, <1>8 DEF DeleteFiles, Cascade
<1>9. ASSUME NEW f \in File, Blobs(f) \/ GrowOld(f) PROVE ChosenIsRaced'
  BY <1>2, <1>9 DEF Blobs, DropBlob, LoseDrop, GrowOld, Age, chat
<1>10. CASE Sweep
  <2>1. CASE SweepList /\ UNCHANGED <<chat, keeping>>
    BY <2>1 DEF SweepList, Listed, chat
  <2>2. CASE SweepAsk(attached) /\ UNCHANGED <<chat, keeping>>
    BY <2>2 DEF SweepAsk, chat
  <2>3. CASE (SweepStrays \/ SweepStop) /\ UNCHANGED <<chat, keeping>>
    BY <2>3 DEF SweepStrays, SweepStop, chat
  <2>4. ASSUME NEW f \in File, SweepSkip(f), UNCHANGED <<chat, keeping>> PROVE ChosenIsRaced'
    BY <1>2, <2>4 DEF SweepSkip, chat
  <2>5. ASSUME NEW f \in File, SweepDelete(f), Cascade({f}), UNCHANGED <<claims, orphans, keeping>>
        PROVE  ChosenIsRaced'
    BY <1>1, <2>5 DEF SweepDelete, Cascade
  <2> QED
    BY <1>10, <2>1, <2>2, <2>3, <2>4, <2>5 DEF Sweep
<1>11. CASE Retention
  BY <1>2, <1>11 DEF Retention, ReadPinned, ListExpiring, DropExpiring, KeepExpiring,
                     DropThumbnails, MarkExpired, RetentionStop, store, chat
<1>12. CASE UNCHANGED vars
  BY <1>2, <1>12 DEF vars, store, chat
<1> QED
  BY <1>3, <1>4, <1>5, <1>6, <1>7, <1>8, <1>9, <1>10, <1>11, <1>12 DEF Next

-----------------------------------------------------------------------------
(* Retention *)

LEMMA PassStep == Inv /\ [Next]_vars => PassSparesPinned'
<1> SUFFICES ASSUME Inv, [Next]_vars PROVE PassSparesPinned'
  OBVIOUS
<1> USE DEF PassSparesPinned
<1>0. /\ TypeOK /\ PassSparesPinned
      /\ retention \in [phase : {"idle", "kept", "dropping", "marking"},
                        keep : SUBSET Att, todo : SUBSET Att, dropped : SUBSET Att]
  BY DEF Inv, TypeOK
<1> USE <1>0
<1>1. ASSUME NEW S, pinned' = pinned \ S, pinnedLate' = pinnedLate \ S,
             ripe \subseteq ripe', retention' = retention
      PROVE  PassSparesPinned'
  BY <1>1
<1>2. CASE UNCHANGED <<pinned, pinnedLate, ripe, retention>>
  BY <1>2
<1>3. ASSUME NEW a \in Att, Upload(a) \/ CheckClaim(a) \/ Claim(a) \/ LoseDelete(a) PROVE PassSparesPinned'
  BY <1>2, <1>3 DEF Upload, CheckClaim, Claim, LoseDelete, chat, keeping
<1>4. ASSUME NEW t \in Thumbnails, MakeThumbnail(t) \/ RecordThumbnail(t) PROVE PassSparesPinned'
  BY <1>2, <1>4 DEF MakeThumbnail, RecordThumbnail, chat, keeping
<1>5. ASSUME NEW a \in Att, Pin(a) PROVE PassSparesPinned'
  BY <1>5 DEF Pin, keeping
<1>6. ASSUME NEW a \in Att, Unpin(a) \/ Tombstone(a) \/ DeleteFiles(a) PROVE PassSparesPinned'
  BY <1>1, <1>6 DEF Unpin, Tombstone, DeleteFiles, Cascade, keeping
<1>7. ASSUME NEW a \in Att, Ripen(a) PROVE PassSparesPinned'
  BY <1>7 DEF Ripen, chat
<1>8. ASSUME NEW f \in File, Blobs(f) \/ GrowOld(f) PROVE PassSparesPinned'
  BY <1>2, <1>8 DEF Blobs, GrowOld, chat, keeping
<1>9. CASE Sweep
  BY <1>1, <1>2, <1>9 DEF Sweep, Cascade, chat, keeping
<1>10. CASE Retention
  <2>1. CASE ReadPinned
    BY <2>1 DEF ReadPinned, NoPass, chat
  <2>2. CASE ListExpiring
    BY <2>2 DEF ListExpiring, Expiring, chat
  <2>3. CASE DropThumbnails
    BY <2>3 DEF DropThumbnails, chat
  <2>4. CASE MarkExpired \/ RetentionStop
    BY <2>4 DEF MarkExpired, RetentionStop, NoPass
  <2>5. ASSUME NEW a \in Att, DropExpiring(a) \/ KeepExpiring(a) PROVE PassSparesPinned'
    BY <2>5 DEF DropExpiring, KeepExpiring, chat
  <2> QED
    BY <1>10, <2>1, <2>2, <2>3, <2>4, <2>5 DEF Retention
<1>11. CASE UNCHANGED vars
  BY <1>2, <1>11 DEF vars, chat, keeping
<1> QED
  BY <1>3, <1>4, <1>5, <1>6, <1>7, <1>8, <1>9, <1>10, <1>11 DEF Next

LEMMA InvStep == Inv /\ [Next]_vars => Inv'
BY TypeStep, StoresStep, ClaimsStep, ChosenStep, PassStep DEF Inv

LEMMA Invariant == Spec => []Inv
BY InitInv, InvStep, PTL DEF Spec

-----------------------------------------------------------------------------
(* What a message can count on *)

\* Every piece of state has the shape the code gives it.
THEOREM TypeCorrect == Spec => []TypeOK
BY Invariant, PTL DEF Inv

\* A file that is served has its bytes, however uploads, thumbnails,
\* deletions, sweeps and retention passes interleave and fail: a row that is
\* live has its blob unless its retention is over or its uploader was told
\* it failed (attachments.go, sweep.go, retention.go).
THEOREM BytesAlwaysBehindRow == Spec => []BytesBehindRow
BY Invariant, PTL DEF Inv

\* A file leaves a message only as the message is deleted, or where a
\* deletion had chosen the file before the message claimed it (sweep.go
\* Sweep, chat/attachments.go claimAttachments).
THEOREM FilesStayWithMessage == Spec => MessageKeepsItsFiles
<1> DEFINE Keeps == \A a \in attached \ attached' : a \in orphans' \ orphans \/ a \in raced
<1>1. ASSUME Inv, [Next]_vars PROVE Keeps
  <2>0. ChosenIsRaced /\ attached \subseteq Att
    BY <1>1 DEF Inv, TypeOK
  <2> USE <2>0
  <2>1. CASE attached \subseteq attached'
    BY <2>1
  <2>2. ASSUME NEW a \in Att, Tombstone(a) PROVE Keeps
    BY <2>2 DEF Tombstone, ChosenIsRaced
  <2>3. ASSUME NEW a \in Att, DeleteFiles(a) PROVE Keeps
    BY <2>3 DEF DeleteFiles, Cascade, ChosenIsRaced
  <2>4. ASSUME NEW f \in File, SweepDelete(f), Cascade({f}) PROVE Keeps
    BY <2>4 DEF SweepDelete, Cascade, ChosenIsRaced
  <2>5. ASSUME NEW a \in Att, Upload(a) \/ CheckClaim(a) \/ Claim(a) \/ Pin(a) \/ Unpin(a)
                               \/ LoseDelete(a) \/ Ripen(a)
        PROVE  attached \subseteq attached'
    BY <2>5 DEF Upload, CheckClaim, Claim, Pin, Unpin, LoseDelete, Ripen, chat
  <2>6. CASE \/ \E t \in Thumbnails : MakeThumbnail(t) \/ RecordThumbnail(t)
             \/ \E f \in File : Blobs(f) \/ GrowOld(f)
    BY <2>1, <2>6 DEF MakeThumbnail, RecordThumbnail, Blobs, GrowOld, chat
  <2>7. CASE Sweep
    BY <2>1, <2>4, <2>7 DEF Sweep, chat
  <2>8. CASE Retention
    BY <2>1, <2>8 DEF Retention, ReadPinned, ListExpiring, DropThumbnails, MarkExpired,
                      RetentionStop, DropExpiring, KeepExpiring, chat
  <2>9. CASE UNCHANGED vars
    BY <2>9 DEF vars, chat
  <2> QED
    BY <1>1, <2>1, <2>2, <2>3, <2>5, <2>6, <2>7, <2>8, <2>9 DEF Next
<1>2. Inv /\ [Next]_vars => [Keeps]_vars
  BY <1>1
<1> QED
  BY <1>2, Invariant, PTL DEF Spec, MessageKeepsItsFiles

\* A pinned message's file keeps its bytes past its retention, unless it was
\* pinned while a pass was under way (retention.go kept).
THEOREM PinnedBytesStay == Spec => PinnedKeepsItsBytes
<1> DEFINE Keeps == \A a \in (pinned \cap pinned') \cap (blob \ blob') : a \in pinnedLate
<1>1. ASSUME Inv, [Next]_vars PROVE Keeps
  <2>0. /\ StoresAgree /\ ClaimsHold /\ PassSparesPinned
        /\ pinned \subseteq attached /\ attached \subseteq Att
    BY <1>1 DEF Inv, TypeOK
  <2> USE <2>0
  <2>1. CASE blob \subseteq blob'
    BY <2>1
  <2>2. ASSUME NEW f \in File, DropBlob(f) PROVE Keeps
    BY <2>2 DEF DropBlob, StoresAgree, ClaimsHold, Row
  <2>3. ASSUME NEW a \in Att, DropExpiring(a) PROVE Keeps
    BY <2>3 DEF DropExpiring, PassSparesPinned
  <2>4. ASSUME NEW a \in Att, Upload(a) \/ CheckClaim(a) \/ Claim(a) \/ Pin(a) \/ Unpin(a)
                               \/ Tombstone(a) \/ DeleteFiles(a) \/ LoseDelete(a) \/ Ripen(a)
        PROVE  blob \subseteq blob'
    BY <2>4 DEF Upload, CheckQuota, StoreBlob, RecordRow, RefuseRow, RecordUnheard, CommitUnheard, CheckClaim, Claim,
                Pin, Unpin, Tombstone, DeleteFiles, LoseDelete, Ripen, store
  <2>5. ASSUME NEW t \in Thumbnails, MakeThumbnail(t) \/ RecordThumbnail(t) PROVE blob \subseteq blob'
    BY <2>5 DEF MakeThumbnail, RecordThumbnail, RefuseRow, CommitUnheard
  <2>6. ASSUME NEW f \in File, Blobs(f) \/ GrowOld(f) PROVE Keeps
    BY <2>1, <2>2, <2>6 DEF Blobs, LoseDrop, GrowOld, Age
  <2>7. CASE Sweep
    BY <2>1, <2>7 DEF Sweep, SweepList, SweepAsk, SweepStrays, SweepStop, SweepSkip, SweepDelete
  <2>8. CASE Retention
    BY <2>1, <2>3, <2>8 DEF Retention, ReadPinned, ListExpiring, DropThumbnails, MarkExpired,
                            RetentionStop, KeepExpiring, store
  <2>9. CASE UNCHANGED vars
    BY <2>9 DEF vars, store
  <2> QED
    BY <1>1, <2>1, <2>4, <2>5, <2>6, <2>7, <2>8, <2>9 DEF Next
<1>2. Inv /\ [Next]_vars => [Keeps]_vars
  BY <1>1
<1> QED
  BY <1>2, Invariant, PTL DEF Spec, PinnedKeepsItsBytes
=============================================================================
