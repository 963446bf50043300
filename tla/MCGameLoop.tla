----------------------------- MODULE MCGameLoop -----------------------------
(* The games the runs of GameLoop start.  Players are numbers and are      *)
(* served in their order, so there is no symmetry to use.                  *)
EXTENDS GameLoop

Quiet(players, view, cells) ==
  [players |-> players, view |-> view, cells |-> cells, signalled |-> {}, killable |-> {}]

(* Everything that can happen to two players and a view; three players.    *)
SafetyGames ==
  {[Quiet(2, TRUE, 2) EXCEPT !.signalled = {0, View}, !.killable = {1, View}],
   Quiet(3, FALSE, 2)}

(* Nobody is killed, and the view is there until its last screen.          *)
LivenessGames ==
  {[Quiet(2, TRUE, 2) EXCEPT !.signalled = {Master}],
   [Quiet(2, FALSE, 3) EXCEPT !.signalled = {1}]}

QuietView == {Quiet(2, TRUE, 2)}
ViewInterrupted == {[Quiet(2, TRUE, 2) EXCEPT !.signalled = {View}]}
OnePlayerKilled == {[Quiet(2, FALSE, 2) EXCEPT !.killable = {0}]}
=============================================================================
