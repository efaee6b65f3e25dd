----------------------------- MODULE MCAvatars -----------------------------
(***************************************************************************)
(* Avatars for TLC: no file is a thumbnail, and of the sizes as sent and   *)
(* as kept, the second picture's grows.                                    *)
(***************************************************************************)
EXTENDS Avatars

MCSize == [f \in File |-> [sent |-> 1, kept |-> IF f = 2 THEN 2 ELSE 1]]
MCNoThumbs == [t \in {} |-> First]
=============================================================================
