--------------------------- MODULE PlayerMovement ---------------------------
(***************************************************************************)
(* How a player chooses its move (player_movement.c, player_loop.c), and   *)
(* games played with those choices under the master's rules.  A player     *)
(* computes under the reader lock, so the board stands still meanwhile,    *)
(* and here the master applies each move before anybody else looks.        *)
(* (Moves that others overtake are GameLoop's subject.)                    *)
(***************************************************************************)
EXTENDS GameAdmin, Sequences, SequencesExt

CONSTANTS Strategies,  \* what each player may have been compiled with
          MayFail      \* bound: directions whose flood may get no memory

AllStrategies ==
  {"NAIVE", "GREEDY", "GREEDY_LOOKAHEAD", "FLOOD", "GREEDY_FLOOD", "MIN_REWARD"}
Flooding == {"FLOOD", "GREEDY_FLOOD"}

ASSUME StrategyAssumption ==
  Strategies \in [Players -> SUBSET AllStrategies] /\ MayFail \subseteq 0 .. dir_count - 1

VARIABLES strategy,  \* of each player
          gone,      \* players that gave up
          pc,        \* "idle", "scan", "flood" or "decided"
          me,        \* the player that computes, unless idle
          dir, floods,                    \* compute_next_move's dir and floods[]
          stack, visited, count, cell, d, \* flood_count's locals
          move                            \* compute_next_move's result

scanVars == <<dir, floods>>
floodVars == <<stack, visited, count, cell, d>>
moverVars == <<strategy, gone, pc, me, scanVars, floodVars, move>>
matchVars == <<vars, moverVars>>

Directions == 0 .. dir_count - 1

-----------------------------------------------------------------------------
(* The board as the player sees it: a cell is a pair <<x, y>> of int16_t.  *)

Cells == (0 .. Width - 1) \X (0 .. Height - 1)

Here == <<Int16(x[me]), Int16(y[me])>>

Neighbor(c, dd) == <<Int16(c[1] + DeltaX(dd)), Int16(c[2] + DeltaY(dd))>>

InBounds(c) == c[1] >= 0 /\ c[1] < Width /\ c[2] >= 0 /\ c[2] < Height
BoardAt(c) == board[Offset(c[2], c[1])]

(* Mutants: a cell taken by player 0 counts as free; the best cells do not.*)
IsFreeZero(c) == BoardAt(c) >= 0 /\ BoardAt(c) <= 9
IsFreeLess(c) == BoardAt(c) >= 1 /\ BoardAt(c) < 9
IsFree(c) == BoardAt(c) >= 1 /\ BoardAt(c) <= 9

IsFreeNeighbor(c, dd) == InBounds(Neighbor(c, dd)) /\ IsFree(Neighbor(c, dd))
FreeDirections(c) == {dd \in Directions : IsFreeNeighbor(c, dd)}
FreeAround(c) == {Neighbor(c, dd) : dd \in FreeDirections(c)}

-----------------------------------------------------------------------------
(* compute_next_move                                                       *)

(* LOOKAHEAD_DEPTH is 3: the neighbour, and lookahead to depth 2 from it,  *)
(* past the cells already on the path.                                     *)
Ahead1(c, path) == Max({0} \union {BoardAt(n) : n \in FreeAround(c) \ path})
(* Mutant: only the last cell of the path is passed over.                  *)
Ahead2Revisiting(c, path) ==
  Max({0} \union {BoardAt(n) + Ahead1(n, {n}) : n \in FreeAround(c) \ path})
Ahead2(c, path) ==
  Max({0} \union {BoardAt(n) + Ahead1(n, path \union {n}) : n \in FreeAround(c) \ path})

Reward == [dd \in FreeDirections(Here) |-> BoardAt(Neighbor(Here, dd))]
Cost == [dd \in FreeDirections(Here) |-> -BoardAt(Neighbor(Here, dd))]
Lookahead ==
  [dd \in FreeDirections(Here) |->
     LET n == Neighbor(Here, dd) IN BoardAt(n) + Ahead2(n, {n})]

(* A scan keeps the direction at hand if it is better than the best so     *)
(* far: the result is the first of the best ones, or NO_VALID_MOVE.        *)
Best(S, value) == {dd \in S : \A e \in S : value[dd] >= value[e]}
First(S) == IF S = {} THEN {NO_VALID_MOVE} ELSE {dd \in S : \A e \in S : dd <= e}

(* is_within_survival_threshold multiplies in int32_t, which wraps in the  *)
(* build (no optimisation), and C rounds a quotient to zero.               *)
Uint32(n) == n % Uint32Size
Int32(n) == IF Uint32(n) >= Uint32Size \div 2 THEN Uint32(n) - Uint32Size ELSE Uint32(n)
Threshold(most) ==
  LET product == Int32(most * 3)
  IN  IF product >= 0 THEN product \div 10 ELSE -((-product) \div 10)

(* GREEDY_FLOOD: directions that keep three tenths of the most space.      *)
(* Mutant: the threshold is left out.                                      *)
SurvivorsAll == FreeDirections(Here)
Survivors ==
  LET free == FreeDirections(Here)
      most == Max({0} \union {floods[dd] : dd \in free})
  IN  {dd \in free : floods[dd] >= Threshold(most)}

BestMoves ==
  LET free == FreeDirections(Here)
  IN  CASE strategy[me] = "NAIVE" -> IF free = {} THEN {NO_VALID_MOVE} ELSE free
        [] strategy[me] = "GREEDY" -> First(Best(free, Reward))
        [] strategy[me] = "GREEDY_LOOKAHEAD" -> First(Best(free, Lookahead))
        [] strategy[me] = "FLOOD" -> First(Best(free, floods))
        [] strategy[me] = "MIN_REWARD" -> First(Best(free, Cost))
        [] strategy[me] = "GREEDY_FLOOD" ->
             IF Survivors # {} THEN First(Best(Best(Survivors, Reward), floods))
                               ELSE First(Best(free, floods))

-----------------------------------------------------------------------------
MatchInit ==
  /\ Init
  /\ strategy \in {s \in [Players -> AllStrategies] : \A p \in Players : s[p] \in Strategies[p]}
  /\ gone = {} /\ pc = "idle" /\ me = 0
  /\ dir = dir_count /\ floods = [dd \in Directions |-> 0]
  /\ stack = <<>> /\ visited = {} /\ count = 0 /\ cell = <<0, 0>> /\ d = dir_count
  /\ move = NO_VALID_MOVE

Setup == (RegisterPlayers \/ PlacePlayers) /\ UNCHANGED moverVars

(* player_run calls compute_next_move; only two strategies flood.          *)
ComputeNextMove(p) ==
  /\ phase = "playing" /\ pc = "idle" /\ p \notin gone
  /\ me' = p /\ pc' = "scan"
  /\ dir' = IF strategy[p] \in Flooding THEN 0 ELSE dir_count
  /\ floods' = [dd \in Directions |-> 0]
  /\ UNCHANGED <<vars, strategy, gone, floodVars, move>>

SkipDirection ==
  /\ pc = "scan" /\ dir < dir_count /\ ~IsFreeNeighbor(Here, dir)
  /\ dir' = dir + 1
  /\ UNCHANGED <<vars, strategy, gone, pc, me, floods, floodVars, move>>

(* flood_count returns 0 when it gets no memory.  Its stack takes two      *)
(* int16_t for each cell; twice the cells, when it overflows an int32_t,   *)
(* is negative and asks for more than there is.                            *)
StackSizeFits == 2 * (Width * Height) < Uint32Size \div 2

FloodFails ==
  /\ pc = "scan" /\ dir < dir_count /\ IsFreeNeighbor(Here, dir)
  /\ dir \in MayFail \/ ~StackSizeFits
  /\ dir' = dir + 1
  /\ UNCHANGED <<vars, strategy, gone, pc, me, floods, floodVars, move>>

FloodStarts ==
  /\ pc = "scan" /\ dir < dir_count /\ IsFreeNeighbor(Here, dir) /\ StackSizeFits
  /\ pc' = "flood"
  /\ stack' = <<Neighbor(Here, dir)>> /\ visited' = {Neighbor(Here, dir)}
  /\ count' = 0 /\ d' = dir_count
  /\ UNCHANGED <<vars, strategy, gone, me, scanVars, cell, move>>

(* Mutant: the cell stays on the stack.                                    *)
PopCellPeeking ==
  /\ pc = "flood" /\ d = dir_count /\ stack # <<>>
  /\ cell' = Last(stack) /\ d' = 0
  /\ UNCHANGED <<vars, strategy, gone, pc, me, scanVars, stack, visited, count, move>>
PopCell ==
  /\ pc = "flood" /\ d = dir_count /\ stack # <<>>
  /\ cell' = Last(stack) /\ stack' = Front(stack) /\ d' = 0
  /\ UNCHANGED <<vars, strategy, gone, pc, me, scanVars, visited, count, move>>

(* Mutant: the cell is not marked as visited.                              *)
SpreadUnmarked ==
  /\ pc = "flood" /\ d < dir_count
  /\ IsFreeNeighbor(cell, d) /\ Neighbor(cell, d) \notin visited
  /\ stack' = Append(stack, Neighbor(cell, d))
  /\ count' = count + 1 /\ d' = d + 1
  /\ UNCHANGED <<vars, strategy, gone, pc, me, scanVars, visited, cell, move>>
Spread ==
  /\ pc = "flood" /\ d < dir_count
  /\ IsFreeNeighbor(cell, d) /\ Neighbor(cell, d) \notin visited
  /\ visited' = visited \union {Neighbor(cell, d)}
  /\ stack' = Append(stack, Neighbor(cell, d))
  /\ count' = count + 1 /\ d' = d + 1
  /\ UNCHANGED <<vars, strategy, gone, pc, me, scanVars, cell, move>>

(* Mutants: the first neighbour that is no use ends the cell; the          *)
(* direction is advanced twice.                                            *)
PassOverTwice ==
  /\ pc = "flood" /\ d < dir_count
  /\ ~(IsFreeNeighbor(cell, d) /\ Neighbor(cell, d) \notin visited)
  /\ d' = d + 2
  /\ UNCHANGED <<vars, strategy, gone, pc, me, scanVars, stack, visited, count, cell, move>>
PassOverBreaking ==
  /\ pc = "flood" /\ d < dir_count
  /\ ~(IsFreeNeighbor(cell, d) /\ Neighbor(cell, d) \notin visited)
  /\ d' = dir_count
  /\ UNCHANGED <<vars, strategy, gone, pc, me, scanVars, stack, visited, count, cell, move>>
PassOver ==
  /\ pc = "flood" /\ d < dir_count
  /\ ~(IsFreeNeighbor(cell, d) /\ Neighbor(cell, d) \notin visited)
  /\ d' = d + 1
  /\ UNCHANGED <<vars, strategy, gone, pc, me, scanVars, stack, visited, count, cell, move>>

FloodDone == pc = "flood" /\ d = dir_count /\ stack = <<>>

FloodReturns ==
  /\ FloodDone
  /\ floods' = [floods EXCEPT ![dir] = count] /\ dir' = dir + 1 /\ pc' = "scan"
  /\ visited' = {} /\ count' = 0 /\ cell' = <<0, 0>>
  /\ UNCHANGED <<vars, strategy, gone, me, stack, d, move>>

Decide ==
  /\ pc = "scan" /\ dir = dir_count
  /\ pc' = "decided" /\ move' \in BestMoves
  /\ UNCHANGED <<vars, strategy, gone, me, scanVars, floodVars>>

(* The move is sent and the master applies it, or the player leaves.  What *)
(* was computed is forgotten.                                              *)
Send ==
  /\ pc = "decided" /\ move # NO_VALID_MOVE
  /\ ProcessPlayerMove(me, move)
  /\ pc' = "idle" /\ floods' = [dd \in Directions |-> 0] /\ move' = NO_VALID_MOVE
  /\ UNCHANGED <<strategy, gone, me, dir, floodVars>>
GiveUp ==
  /\ pc = "decided" /\ move = NO_VALID_MOVE
  /\ gone' = gone \union {me} /\ pc' = "idle"
  /\ UNCHANGED <<vars, strategy, me, scanVars, floodVars, move>>

MatchOver == gone = Players

MatchNext ==
  \/ Setup
  \/ \E p \in Players : ComputeNextMove(p)
  \/ SkipDirection \/ FloodFails \/ FloodStarts
  \/ PopCell \/ Spread \/ PassOver \/ FloodReturns
  \/ Decide \/ Send \/ GiveUp
  \/ MatchOver /\ UNCHANGED matchVars

MatchSpec == MatchInit /\ [][MatchNext]_matchVars

-----------------------------------------------------------------------------
MoverTypeOK ==
  /\ strategy \in [Players -> AllStrategies] /\ gone \subseteq Players
  /\ pc \in {"idle", "scan", "flood", "decided"} /\ me \in Players
  /\ dir \in 0 .. dir_count /\ floods \in [Directions -> Nat]
  /\ stack \in Seq(Cells) /\ visited \subseteq Cells /\ count \in Nat
  /\ cell \in Cells \union {<<0, 0>>} /\ d \in 0 .. dir_count
  /\ move \in Directions \union {NO_VALID_MOVE}

(* What the master would accept from the player that computes.             *)
Accepted(dd) == IsValidDirection(dd) /\ IsMoveAllowed(NewY(me, dd), NewX(me, dd))

(* A player's choice is one the master accepts, as long as nobody moves in *)
(* between: the player's own bounds and reward tests and the master's      *)
(* agree, although each computes with different integer types.             *)
ChoiceAccepted == pc = "decided" /\ move # NO_VALID_MOVE => Accepted(move)

(* A player gives up only when the master would accept nothing from it:    *)
(* no strategy leaves a game it could still play.                          *)
GivesUpOnlyWhenShutIn ==
  pc = "decided" /\ move = NO_VALID_MOVE => \A dd \in Directions : ~Accepted(dd)

(* flood_count never writes past the stack it allocates, one entry for     *)
(* each cell of the board.                                                 *)
StackFits == Len(stack) <= Width * Height

Closed(S) == \A c \in S : FreeAround(c) \subseteq S

(* flood_count returns the number of free cells that can be reached from   *)
(* the neighbour, itself aside: what it visited is the smallest set that   *)
(* contains it and every free neighbour of its members.                    *)
FloodCountsRegion ==
  FloodDone =>
    /\ count + 1 = Cardinality(visited)
    /\ Neighbor(Here, dir) \in visited /\ Closed(visited)
    /\ \A S \in SUBSET visited :
         Neighbor(Here, dir) \in S /\ Closed(S) => S = visited

(* The rewards along every path of at most three different free cells that *)
(* begins in direction dd.                                                 *)
PathTotals(dd) ==
  LET a == Neighbor(Here, dd)
      Second == FreeAround(a) \ {a}
      Third(b) == FreeAround(b) \ {a, b}
  IN  {BoardAt(a)} \union {BoardAt(a) + BoardAt(b) : b \in Second}
        \union UNION {{BoardAt(a) + BoardAt(b) + BoardAt(c) : c \in Third(b)} : b \in Second}

(* GREEDY_LOOKAHEAD starts the richest such path there is.                 *)
LookaheadOptimal ==
  pc = "decided" /\ move # NO_VALID_MOVE /\ strategy[me] = "GREEDY_LOOKAHEAD" =>
    \A dd \in FreeDirections(Here) : Max(PathTotals(dd)) <= Max(PathTotals(move))

(* GREEDY_FLOOD never gives up more than seven tenths of the space it      *)
(* could have, rounded: some direction always passes its threshold, and    *)
(* the loop that would ignore the threshold is not reached.  It holds      *)
(* while three times a flood fits an int32_t (FloodFits): a product that   *)
(* wraps is negative, and every direction passes.                          *)
FloodFits == 3 * (Width * Height) < Uint32Size \div 2

SpaceKept ==
  pc = "decided" /\ move # NO_VALID_MOVE /\ strategy[me] = "GREEDY_FLOOD" =>
    \A dd \in FreeDirections(Here) : floods[move] >= (floods[dd] * 3) \div 10

(* flood_count ends: each turn of its loops uses up part of what is left   *)
(* to do, in cells not visited, cells on the stack and directions.  While  *)
(* a player computes it holds the reader lock and the master cannot write. *)
LeftToDo == 18 * (Width * Height - Cardinality(visited)) + 9 * Len(stack) + (dir_count - d)
FloodShrinks ==
  [][pc = "flood" /\ pc' = "flood" => LeftToDo' < LeftToDo /\ LeftToDo' >= 0]_matchVars
=============================================================================
