--------------------------- MODULE MCMaildirMove ----------------------------
(* Small instances of MaildirMove: two files of one base name. *)
EXTENDS MaildirMove

CONSTANTS m1, m2
=============================================================================
