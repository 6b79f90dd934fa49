----------------------------- MODULE MCMediaFiles ----------------------------
(* The instance of MediaFiles for TLC. *)
EXTENDS MediaFiles
=============================================================================
