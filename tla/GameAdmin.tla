----------------------------- MODULE GameAdmin ------------------------------
(***************************************************************************)
(* The rules of the game as the master applies them (game_admin.c): the    *)
(* board and its rewards, registration, placement of the players, and the  *)
(* validation and application of a move.  Only the master writes this      *)
(* state, under the writer lock once the players run (module GameLoop).    *)
(***************************************************************************)
EXTENDS Integers, FiniteSets, FiniteSetsExt

CONSTANTS Width, Height,  \* uint16_t width and height of the board; -w 0 is accepted
          PlayersCount,
          Rewards,        \* rewards board_init may put on a cell, in 1..9
          Uint32Size,     \* how many values a uint32_t has: 2^32, less in the runs
          MaxInvalid      \* bound: invalid moves a player makes

MAX_PLAYERS == 9
MIN_CELL_REWARD == 1
MAX_CELL_REWARD == 9

ASSUME BoardAssumption ==
  /\ Width \in Nat /\ Width < 65536 /\ Height \in Nat /\ Height < 65536
  /\ PlayersCount \in 1 .. MAX_PLAYERS
  /\ Rewards \subseteq MIN_CELL_REWARD .. MAX_CELL_REWARD
  /\ Uint32Size \in Nat \ {0}
  /\ MaxInvalid \in Nat

VARIABLES phase,          \* how far main() is: "created", "registered", "playing"
          board, x, y, score, valid_moves, invalid_moves,
          initial         \* history: the rewards the players found on the board

vars == <<phase, board, x, y, score, valid_moves, invalid_moves, initial>>

Players == 0 .. PlayersCount - 1
Offsets == 0 .. Width * Height - 1

(* get_board_offset: the board is stored row by row.                       *)
Offset(row, col) == row * Width + col

-----------------------------------------------------------------------------
(* place_players_on_board                                                  *)

(* calculate_grid_dimensions: the smallest square grid with n places, less *)
(* the rows nobody needs.                                                  *)
GridCols(n) == CHOOSE c \in 1 .. n : c * c >= n /\ \A d \in 1 .. c - 1 : d * d < n
GridRows(n) == (n + GridCols(n) - 1) \div GridCols(n)

StepX == Width \div (GridCols(PlayersCount) + 1)
StepY == Height \div (GridRows(PlayersCount) + 1)
StartX(i) == ((i % GridCols(PlayersCount)) + 1) * StepX
StartY(i) == ((i \div GridCols(PlayersCount)) + 1) * StepY
StartCell(i) == Offset(StartY(i), StartX(i))

(* The players are placed in order, each marking its cell: where two share *)
(* a cell the last one's mark stays.  (On a board without cells the mark   *)
(* is written past the array, which is not modelled: PlacementInBounds.)   *)
MarkedBoard ==
  [o \in Offsets |->
     LET here == {i \in Players : StartCell(i) = o}
     IN  IF here = {} THEN board[o] ELSE -Max(here)]

-----------------------------------------------------------------------------
(* apply_direction, is_move_allowed, with the widths they compute in       *)

NO_VALID_MOVE == -1
dir_count == 8

(* What a pipe may carry as far as is_valid_direction can tell.            *)
Wire == {NO_VALID_MOVE} \union 0 .. dir_count

(* move_delta: the directions go clockwise from up.                        *)
DeltaX(d) == IF d \in 1 .. 3 THEN 1 ELSE IF d \in 5 .. 7 THEN -1 ELSE 0
DeltaY(d) == IF d \in 3 .. 5 THEN 1 ELSE IF d \in {7, 0, 1} THEN -1 ELSE 0

IsValidDirection(d) == d >= 0 /\ d < dir_count

Uint16(n) == n % 65536
Int16(n) == IF Uint16(n) >= 32768 THEN Uint16(n) - 65536 ELSE Uint16(n)

(* A coordinate and a displacement, through apply_direction's int16_t and  *)
(* back to the uint16_t that is_move_allowed takes.                        *)
Displaced(coord, delta) == Uint16(Int16(Int16(coord) + delta))

NewX(p, d) == Displaced(x[p], DeltaX(d))
NewY(p, d) == Displaced(y[p], DeltaY(d))

(* Mutant: the column just past the board is let through.                  *)
IsOutOfBoundsPast(row, col) == row >= Height \/ col > Width
IsOutOfBounds(row, col) == row >= Height \/ col >= Width

(* Mutant: a cell of player 0 reads as free.                               *)
IsMoveAllowedOnZero(row, col) == ~IsOutOfBounds(row, col) /\ board[Offset(row, col)] >= 0
IsMoveAllowed(row, col) == ~IsOutOfBounds(row, col) /\ board[Offset(row, col)] > 0

-----------------------------------------------------------------------------
(* game_state_init on a fresh segment, which reads as zeros.               *)
Init ==
  /\ phase = "created"
  /\ board \in [Offsets -> Rewards]
  /\ initial = board
  /\ x = [p \in Players |-> 0] /\ y = [p \in Players |-> 0]
  /\ score = [p \in Players |-> 0]
  /\ valid_moves = [p \in Players |-> 0] /\ invalid_moves = [p \in Players |-> 0]

(* register_players_from_paths: each player_t starts from zero.            *)
RegisterPlayers ==
  /\ phase = "created" /\ phase' = "registered"
  /\ x' = [p \in Players |-> 0] /\ y' = [p \in Players |-> 0]
  /\ score' = [p \in Players |-> 0]
  /\ valid_moves' = [p \in Players |-> 0] /\ invalid_moves' = [p \in Players |-> 0]
  /\ UNCHANGED <<board, initial>>

PlacePlayers ==
  /\ phase = "registered" /\ phase' = "playing"
  /\ x' = [p \in Players |-> Uint16(StartX(p))]
  /\ y' = [p \in Players |-> Uint16(StartY(p))]
  /\ board' = MarkedBoard
  /\ initial' = [o \in Offsets |-> IF \E p \in Players : StartCell(p) = o THEN 0 ELSE initial[o]]
  /\ UNCHANGED <<score, valid_moves, invalid_moves>>

(* Mutant: every move received is counted as valid too.                    *)
RejectMoveCounted(p) ==
  /\ invalid_moves[p] < MaxInvalid
  /\ invalid_moves' = [invalid_moves EXCEPT ![p] = @ + 1]
  /\ valid_moves' = [valid_moves EXCEPT ![p] = @ + 1]
  /\ UNCHANGED <<phase, board, x, y, score, initial>>

(* register_move(false)                                                    *)
RejectMove(p) ==
  /\ invalid_moves[p] < MaxInvalid
  /\ invalid_moves' = [invalid_moves EXCEPT ![p] = @ + 1]
  /\ UNCHANGED <<phase, board, x, y, score, valid_moves, initial>>

(* Mutants: the reward is read after the cell is marked; the coordinates   *)
(* are swapped when they are stored.                                       *)
CollectCellMarkedFirst(p, row, col) ==
  /\ score' = [score EXCEPT ![p] = (@ - p) % Uint32Size]
  /\ x' = [x EXCEPT ![p] = col]
  /\ y' = [y EXCEPT ![p] = row]
  /\ board' = [board EXCEPT ![Offset(row, col)] = -p]
  /\ valid_moves' = [valid_moves EXCEPT ![p] = @ + 1]
  /\ UNCHANGED <<phase, invalid_moves, initial>>
CollectCellSwapped(p, row, col) ==
  /\ score' = [score EXCEPT ![p] = (@ + board[Offset(row, col)]) % Uint32Size]
  /\ x' = [x EXCEPT ![p] = row]
  /\ y' = [y EXCEPT ![p] = col]
  /\ board' = [board EXCEPT ![Offset(row, col)] = -p]
  /\ valid_moves' = [valid_moves EXCEPT ![p] = @ + 1]
  /\ UNCHANGED <<phase, invalid_moves, initial>>

(* apply_move on a cell that is allowed: the reward is collected, the cell *)
(* marked with the negated index, the move counted.  The score wraps; the  *)
(* count cannot, as every valid move takes a cell and game.c:97 makes no   *)
(* segment for 2^31 cells.                                                 *)
CollectCell(p, row, col) ==
  /\ score' = [score EXCEPT ![p] = (@ + board[Offset(row, col)]) % Uint32Size]
  /\ x' = [x EXCEPT ![p] = col]
  /\ y' = [y EXCEPT ![p] = row]
  /\ board' = [board EXCEPT ![Offset(row, col)] = -p]
  /\ valid_moves' = [valid_moves EXCEPT ![p] = @ + 1]
  /\ UNCHANGED <<phase, invalid_moves, initial>>

(* process_player_move: any byte may arrive.                               *)
ProcessPlayerMove(p, d) ==
  /\ phase = "playing"
  /\ IF IsValidDirection(d) /\ IsMoveAllowed(NewY(p, d), NewX(p, d))
       THEN CollectCell(p, NewY(p, d), NewX(p, d))
       ELSE RejectMove(p)

Next ==
  \/ RegisterPlayers
  \/ PlacePlayers
  \/ \E p \in Players, d \in Wire : ProcessPlayerMove(p, d)

Spec == Init /\ [][Next]_vars

-----------------------------------------------------------------------------
TypeOK ==
  /\ phase \in {"created", "registered", "playing"}
  /\ board \in [Offsets -> -(MAX_PLAYERS - 1) .. MAX_CELL_REWARD]
  /\ initial \in [Offsets -> Rewards \union {0}]
  /\ x \in [Players -> {0} \union 0 .. Width - 1]
  /\ y \in [Players -> {0} \union 0 .. Height - 1]
  /\ score \in [Players -> 0 .. Uint32Size - 1]
  /\ valid_moves \in [Players -> Nat] /\ invalid_moves \in [Players -> 0 .. MaxInvalid]

(* The board is not empty.                                                 *)
HasCells == Width > 0 /\ Height > 0

(* The board has room for the grid of starting cells: the step between     *)
(* players is not zero.                                                    *)
Roomy == StepX > 0 /\ StepY > 0

Owned(p) == {o \in Offsets : board[o] = -p}

(* Every player stands on a cell it owns, so no two players ever stand on  *)
(* the same one, and a player's own cell is never free for another.        *)
StandsOnOwnCell ==
  phase = "playing" => \A p \in Players : board[Offset(y[p], x[p])] = -p

(* valid_moves counts the cells a player took, its starting cell aside:    *)
(* no valid move is counted without a cell and no cell is taken twice.     *)
(* (PictureMatchesPanels of module Display rests on it.)                   *)
MovesMatchCells ==
  phase = "playing" => \A p \in Players : Cardinality(Owned(p)) = valid_moves[p] + 1

(* The rewards that lay on the cells a player owns, point by point.        *)
Points(p) == {u \in Owned(p) \X (1 .. MAX_CELL_REWARD) : u[2] <= initial[u[1]]}

(* A player's score is the sum of the rewards that lay on the cells it     *)
(* owns, its starting cell aside, as a uint32_t holds it: points are       *)
(* neither lost nor counted twice, whatever the players send.              *)
ScoreMatchesCells ==
  phase = "playing" => \A p \in Players : score[p] = Cardinality(Points(p)) % Uint32Size

(* A cell that has been taken never changes hands or becomes free again,   *)
(* player 0's included, although its mark is 0: game_state.h:44-46 calls a *)
(* cell of 0 empty and test_game_admin.c:24-26 and 661-664 not claimed,    *)
(* but is_move_allowed lets nobody onto one.                               *)
CapturedForever ==
  [][phase = "playing" => \A o \in Offsets : board[o] <= 0 => board'[o] = board[o]]_vars

(* A player moves to one of the eight neighbours of its cell: no move      *)
(* crosses an edge of the board to the other side, although coordinates    *)
(* wrap around in uint16_t and cells are addressed by offset.              *)
StepsAreAdjacent ==
  [][phase = "playing" =>
       \A p \in Players : x'[p] - x[p] \in -1 .. 1 /\ y'[p] - y[p] \in -1 .. 1]_vars

(* place_players_on_board "marks their starting cells with the negated     *)
(* player index", as game_admin.h says of every board.                     *)
StartCellsMarked ==
  phase = "playing" /\ valid_moves = [p \in Players |-> 0] =>
    \A p \in Players : board[Offset(y[p], x[p])] = -p
=============================================================================
