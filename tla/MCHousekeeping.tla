---------------------------- MODULE MCHousekeeping ----------------------------
(* Two things of the kind the section is about. *)
EXTENDS Housekeeping
=============================================================================
