--------------------------- MODULE MCQuietUpdate ---------------------------
(* A small instance of QuietUpdate for TLC: the installed build, a release *)
(* and the one that overtakes it. *)
EXTENDS QuietUpdate, TLC
=============================================================================
