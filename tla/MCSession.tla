------------------------------ MODULE MCSession ------------------------------
(* Session on a browser with a handful of tabs. *)
EXTENDS Session
=============================================================================
