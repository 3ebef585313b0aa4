------------------------------- MODULE MCShell -------------------------------
(***************************************************************************)
(* Instance of Shell for TLC.  With two values of a byte a body of two     *)
(* needs two bytes of the header, bodies look like headers, and zeros for  *)
(* the end of one body make another.                                       *)
(***************************************************************************)
EXTENDS Shell

MCMessages == {<<>>, <<1, 0>>, <<1, 1>>}
=============================================================================
