--------------------------- MODULE MCUploadBuffer ---------------------------
(* A small file for TLC. *)
EXTENDS UploadBuffer
=============================================================================
