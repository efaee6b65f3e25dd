--------------------------- MODULE MCAttachments ---------------------------
(***************************************************************************)
(* Attachments for TLC.  Files are small integers: attachments from 1, and *)
(* thumbnails from 11, each of the attachment in its last digit.           *)
(***************************************************************************)
EXTENDS Attachments

CONSTANT MCThumbs

MCSize == [f \in File |-> [sent |-> 1, kept |-> 1]]
MCThumbOf == [t \in MCThumbs |-> t % 10]
=============================================================================
