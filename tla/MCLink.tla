------------------------------- MODULE MCLink -------------------------------
(***************************************************************************)
(* Model-checking instance of Link.                                        *)
(***************************************************************************)
EXTENDS Link
=============================================================================
