---------------------------- MODULE MCVoiceRooms ----------------------------
(***************************************************************************)
(* VoiceRooms for TLC.  Joins are alike, and so are changes, which a run   *)
(* of safety properties may use.                                           *)
(***************************************************************************)
EXTENDS VoiceRooms, TLC

Alike == Permutations(Joins) \cup Permutations(Works)
=============================================================================
