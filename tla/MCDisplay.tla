----------------------------- MODULE MCDisplay ------------------------------
(* The run of Display, and with it of GameAdmin: any moves, and the frames *)
(* drawn between them on a terminal with room for the board and on one     *)
(* that cuts it.                                                           *)
EXTENDS Display

TwoTerminals == {[rows |-> 24, cols |-> 80], [rows |-> 7, cols |-> 8]}
=============================================================================
