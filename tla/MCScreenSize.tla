---------------------------- MODULE MCScreenSize ----------------------------
(* A screen that shrinks below the size of a scaled one, for ScreenSize.    *)
EXTENDS ScreenSize, TLC

Anyone == Permutations(Client)
=============================================================================
