------------------------------- MODULE MCPages -------------------------------
(* Pages with two environment names, two settings, two services of two rows and *)
(* two things to clear away, and two rows of settings.  A row's host port is    *)
(* empty or a number; its container port is empty, no number, begins with one,  *)
(* or has a colon itself and is an entry of three parts with the host port.     *)
EXTENDS Pages

SomeLefts  == {<<>>, <<"80">>}
SomeRights == {<<>>, <<"x">>, <<"80x">>, <<"80", "x">>}
=============================================================================
