------------------------------- MODULE MCRing -------------------------------
(* Three items tell every order of a few sends apart.                       *)
EXTENDS Ring

CONSTANTS a, b, c
=============================================================================
