------------------------------ MODULE Display -------------------------------
(***************************************************************************)
(* What the view shows of a game (view.c, view_board.c, view_panels.c):    *)
(* where each cell lands on the terminal, whose cell it is painted as, and *)
(* the order of the players in the panels and on the last screen.  While   *)
(* the view draws, the master waits for its frame and the game stands      *)
(* still: that is ViewUndisturbed of module GameLoop.                      *)
(***************************************************************************)
EXTENDS GameAdmin

CONSTANT Terminals  \* sizes the terminal may have: records rows, cols

ASSUME TerminalAssumption ==
  \A t \in Terminals :
    t.rows \in Nat \ {0} /\ t.rows < 32768 /\ t.cols \in Nat \ {0} /\ t.cols < 32768

VARIABLES vpc,     \* "wait" for a frame, "board" or "panels"
          view,    \* view_t: the terminal's size, while the board is drawn
          order, i, j  \* sort_players_by_score's

sortVars == <<order, i, j>>
displayVars == <<vpc, view, sortVars>>
allVars == <<vars, displayVars>>

CELL_WIDTH == 3
PANEL_HEIGHT == 5
NO_PLAYER == -1

NoTerminal == [rows |-> 0, cols |-> 0]
Unsorted == [pos \in Players |-> pos]

-----------------------------------------------------------------------------
(* calculate_board_layout: the board in the middle of the rows above the   *)
(* panels, or from the corner on when there is no room.  (C rounds the     *)
(* half of a negative difference to zero and TLA+ downwards: both end as 0.)*)

Centred(room, size) == Max({0, (room - Int16(size)) \div 2})

BoardRows == Max({1, view.rows - PANEL_HEIGHT})

XOffset == Centred(view.cols, Width * CELL_WIDTH)
YOffset == Centred(BoardRows, Height)

(* The place on the terminal of a cell, in view_draw_board's int16_t, and  *)
(* the tests that leave it out.                                            *)
ScreenX(col) == Int16(XOffset + col * CELL_WIDTH)
ScreenY(row) == Int16(YOffset + Int16(row))

VisibleRows == {row \in 0 .. Height - 1 : ScreenY(row) >= 0 /\ ScreenY(row) < BoardRows}
VisibleCols ==
  {col \in 0 .. Width - 1 : ScreenX(col) >= 0 /\ ScreenX(col) + CELL_WIDTH <= view.cols}

(* draw_stadium_border: up to four rings around the board, and the far     *)
(* sides of each, up to which draw_stadium_ring counts in int16_t.         *)
Rings == Max({1, Min({4, XOffset \div 3, YOffset \div 2})})
RingRight(ring) == Int16(XOffset + Width * CELL_WIDTH + ring * 2)
RingBottom(ring) == Int16(YOffset + Height + ring)

(* player_at: the first player that stands on the cell.                    *)
PlayerAt(row, col) ==
  LET there == {p \in Players : x[p] = col /\ y[p] = row}
  IN  IF there = {} THEN NO_PLAYER ELSE Min(there)

(* Mutant: the mark of player 0, which is 0, is taken for a reward.        *)
DrawnAsZero(row, col) ==
  IF PlayerAt(row, col) # NO_PLAYER THEN PlayerAt(row, col)
  ELSE IF board[Offset(row, col)] >= 0 THEN NO_PLAYER ELSE -board[Offset(row, col)]

(* draw_cell: the player whose avatar or flag the cell is painted with.    *)
DrawnAs(row, col) ==
  IF PlayerAt(row, col) # NO_PLAYER THEN PlayerAt(row, col)
  ELSE IF board[Offset(row, col)] > 0 THEN NO_PLAYER ELSE -board[Offset(row, col)]

-----------------------------------------------------------------------------
DisplayInit ==
  Init /\ vpc = "wait" /\ view = NoTerminal /\ order = Unsorted /\ i = 0 /\ j = 1

(* The master changes the game only while no frame is being drawn.         *)
Play == vpc = "wait" /\ Next /\ UNCHANGED displayVars

(* view_run: a frame is asked for; the terminal may have been resized.     *)
StartFrame ==
  /\ vpc = "wait" /\ phase = "playing" /\ vpc' = "board"
  /\ view' \in Terminals
  /\ UNCHANGED <<vars, sortVars>>

(* view_draw_board is done.  What is kept of view_t is forgotten here: the *)
(* next frame sets it to any size again.                                   *)
BoardDrawn ==
  /\ vpc = "board" /\ vpc' = "panels"
  /\ view' = NoTerminal
  /\ UNCHANGED <<vars, sortVars>>

(* The loops of sort_players_by_score.                                     *)
Sorted == i >= PlayersCount - 1

NextPair ==
  IF j < PlayersCount - 1
    THEN i' = i /\ j' = j + 1
    ELSE i' = i + 1 /\ j' = i + 2

(* Mutant: only neighbours are compared, in one pass.                      *)
ComparePairOnePass ==
  /\ vpc = "panels" /\ ~Sorted
  /\ order' = IF score[order[i + 1]] > score[order[i]]
                THEN [order EXCEPT ![i] = order[i + 1], ![i + 1] = order[i]]
                ELSE order
  /\ i' = i + 1 /\ j' = i + 2
  /\ UNCHANGED <<vars, vpc, view>>

ComparePair ==
  /\ vpc = "panels" /\ ~Sorted
  /\ order' = IF score[order[j]] > score[order[i]]
                THEN [order EXCEPT ![i] = order[j], ![j] = order[i]]
                ELSE order
  /\ NextPair
  /\ UNCHANGED <<vars, vpc, view>>

(* view_draw_panels, or view_draw_endscreen, draws the players in order    *)
(* and the frame is done.                                                  *)
PanelsDrawn ==
  /\ vpc = "panels" /\ Sorted /\ vpc' = "wait"
  /\ order' = Unsorted /\ i' = 0 /\ j' = 1
  /\ UNCHANGED <<vars, view>>

DisplayNext == Play \/ StartFrame \/ BoardDrawn \/ ComparePair \/ PanelsDrawn

DisplaySpec == DisplayInit /\ [][DisplayNext]_allVars

-----------------------------------------------------------------------------
Fits == Width * CELL_WIDTH <= view.cols /\ Height <= BoardRows

ShownAs(p) == {c \in VisibleRows \X VisibleCols : DrawnAs(c[1], c[2]) = p}

(* The picture and the panels tell the same game: the cells keep their     *)
(* order and none is painted over another, on whatever terminal, and where *)
(* the whole board fits every player, player 0 included, has one cell      *)
(* painted for each valid move its panel counts, and one for its start.    *)
PictureMatchesPanels ==
  vpc = "board" =>
    /\ \A r1, r2 \in VisibleRows : r1 < r2 => ScreenY(r1) < ScreenY(r2)
    /\ \A c1, c2 \in VisibleCols : c1 < c2 => ScreenX(c1) + CELL_WIDTH <= ScreenX(c2)
    /\ Fits => \A p \in Players : Cardinality(ShownAs(p)) = valid_moves[p] + 1

(* The loops that draw the border end: an int16_t that counts up to a side *)
(* at 32767 never passes it, and the master would wait for the frame for   *)
(* ever.                                                                   *)
BorderEnds ==
  vpc = "board" =>
    \A ring \in 0 .. Rings - 1 : RingRight(ring) < 32767 /\ RingBottom(ring) < 32767

(* sort_players_by_score leaves every player in the order once, "sorted so *)
(* that order[0] is the player with the highest score" (view_internal.h):  *)
(* nobody drops out of the panels, and who is announced as the winner has  *)
(* no less than anybody else.                                              *)
RankedByScore ==
  vpc = "panels" /\ Sorted =>
    /\ {order[pos] : pos \in Players} = Players
    /\ \A a, b \in Players : a < b => score[order[a]] >= score[order[b]]

(* What is shown of a game is that game, and it is shown.                  *)
FrameTruthful == PictureMatchesPanels /\ BorderEnds /\ RankedByScore
=============================================================================
