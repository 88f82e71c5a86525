--------------------------- MODULE MCWorkspacePage ---------------------------
(* WorkspacePage with one environment's card, views of two targets, and two     *)
(* variables in the file.                                                       *)
EXTENDS WorkspacePage
=============================================================================
