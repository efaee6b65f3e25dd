--------------------------- MODULE MCChannelLog ---------------------------
(***************************************************************************)
(* ChannelLog for TLC.  Requests in flight are interchangeable, so states   *)
(* that differ only in which of them is which are one state.               *)
(***************************************************************************)
EXTENDS ChannelLog, TLC

LoadSymmetry == Permutations(Loads)
=============================================================================
