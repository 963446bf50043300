---------------------------- MODULE MCGameAdmin -----------------------------
(* A run of GameAdmin alone: the board and rewards are in the .cfg file.   *)
EXTENDS GameAdmin
=============================================================================
