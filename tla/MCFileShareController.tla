------------------------ MODULE MCFileShareController ------------------------
(* The instance of FileShareController that TLC checks. *)
EXTENDS FileShareController
=============================================================================
