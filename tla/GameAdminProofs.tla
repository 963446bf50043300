-------------------------- MODULE GameAdminProofs --------------------------
(* Proofs about the rules of the game, for boards of every size and any    *)
(* number of players the program accepts: a width or height of 0 is one of *)
(* them, and what needs cells, or room for the starts, says so.            *)
EXTENDS GameAdmin, FiniteSetTheorems, TLAPS

-----------------------------------------------------------------------------
(* Arithmetic                                                              *)

(* The conversion to uint16_t, of what fits and of what is just below.     *)
LEMMA Uint16Small == \A n \in Nat : n < 65536 => Uint16(n) = n
  <1> SUFFICES ASSUME NEW n \in Nat, n < 65536 PROVE n % 65536 = n
    BY DEF Uint16
  <1>. QED
    BY SMTT(20)

LEMMA Uint16Negative == \A n \in Int : n < 0 /\ n >= -65536 => Uint16(n) = n + 65536
  <1> SUFFICES ASSUME NEW n \in Int, n < 0, n >= -65536 PROVE n % 65536 = n + 65536
    BY DEF Uint16
  <1>. QED
    BY SMTT(20)

(* Both coordinates of a destination are exact on the board, and off the   *)
(* board a coordinate is too large for any board: -1 becomes 65535.        *)
LEMMA DisplacedExact ==
  ASSUME NEW size \in Nat, size < 65536, NEW c \in {0} \union 0 .. size - 1, NEW delta \in -1 .. 1
  PROVE  /\ c + delta \in 0 .. size - 1 => Displaced(c, delta) = c + delta
         /\ c + delta \notin 0 .. size - 1 => Displaced(c, delta) >= size
  <1>0. /\ c \in Int /\ 0 <= c /\ c < 65536 /\ (c < size \/ c = 0) /\ size \in Int /\ 0 <= size /\ size < 65536
        /\ delta \in Int /\ -1 <= delta /\ delta <= 1
    OBVIOUS
  <1>1. Int16(c) = IF c >= 32768 THEN c - 65536 ELSE c
    <2>1. Uint16(c) = c
      BY <1>0, Uint16Small
    <2>. QED
      BY <2>1 DEF Int16
  <1> DEFINE s == Int16(c) + delta
  <1>2. s \in Int /\ -32769 <= s /\ s <= 32768 /\ s = IF c >= 32768 THEN c - 65536 + delta ELSE c + delta
    BY <1>0, <1>1
  <1>3. Uint16(s) = IF s < 0 THEN s + 65536 ELSE s
    <2> HIDE DEF s
    <2>. QED
      BY <1>2, Uint16Small, Uint16Negative
  <1>4. Int16(s) = IF s = 32768 THEN -32768 ELSE IF s = -32769 THEN 32767 ELSE s
    <2> HIDE DEF s
    <2>. QED
      BY <1>2, <1>3 DEF Int16
  <1>5. Displaced(c, delta) = IF Int16(s) < 0 THEN Int16(s) + 65536 ELSE Int16(s)
    <2>1. Displaced(c, delta) = Uint16(Int16(s))
      BY DEF Displaced
    <2> HIDE DEF s
    <2>. QED
      BY <1>2, <1>4, <2>1, Uint16Small, Uint16Negative
  <1> HIDE DEF s
  <1>. QED
    BY <1>0, <1>2, <1>4, <1>5

(* A smallest square grid exists for every number of players, and has at   *)
(* most three columns.                                                     *)
LEMMA GridColsType == GridCols(PlayersCount) \in 1 .. 3
  <1> DEFINE P(c) == /\ c * c >= PlayersCount
                     /\ \A d \in 1 .. c - 1 : d * d < PlayersCount
  <1>1. \E c \in 1 .. PlayersCount : P(c)
    <2>1. CASE PlayersCount = 1
      <3>1. P(1)
        BY <2>1
      <3>. QED
        BY <2>1, <3>1
    <2>2. CASE PlayersCount \in 2 .. 4
      <3>1. P(2)
        BY <2>2
      <3>. QED
        BY <2>2, <3>1
    <2>3. CASE PlayersCount \in 5 .. 9
      <3>1. P(3)
        <4>1. 1 .. 3 - 1 = {1, 2}
          OBVIOUS
        <4>. QED
          BY <2>3, <4>1
      <3>. QED
        BY <2>3, <3>1
    <2>. QED
      BY <2>1, <2>2, <2>3, BoardAssumption DEF MAX_PLAYERS
  <1>2. GridCols(PlayersCount) \in 1 .. PlayersCount /\ P(GridCols(PlayersCount))
    BY <1>1 DEF GridCols
  <1> DEFINE cols == GridCols(PlayersCount)
  <1>3. cols \in Nat /\ PlayersCount \in 1 .. 9 /\ \A d \in 1 .. cols - 1 : d * d < PlayersCount
    BY <1>2, BoardAssumption DEF MAX_PLAYERS
  <1> HIDE DEF cols
  <1>4. cols > 3 => 3 * 3 < PlayersCount
    BY <1>3
  <1>5. cols <= 3
    BY <1>3, <1>4
  <1>. QED
    BY <1>2, <1>3, <1>5 DEF cols

(* k steps of a (k + 1)-th of a length stay strictly inside the length,    *)
(* unless there is none.                                                   *)
LEMMA StepsFit ==
  ASSUME NEW L \in Nat, NEW c \in Nat \ {0}, NEW k \in 0 .. c
  PROVE  k * (L \div (c + 1)) \in {0} \union 0 .. L - 1
  <1> DEFINE s == L \div (c + 1)
  <1>1. s \in Nat /\ (c + 1) * s <= L
    OBVIOUS
  <1> HIDE DEF s
  <1>2. k * s \in Nat
    BY <1>1
  <1>3. k * s <= c * s
    BY <1>1
  <1>4. (c + 1) * s = c * s + s
    BY <1>1
  <1>5. c * s \in Nat
    BY <1>1
  <1>6. CASE s = 0
    BY <1>6, <1>2, <1>3
  <1>7. CASE s # 0
    BY <1>7, <1>1, <1>2, <1>3, <1>4, <1>5
  <1>. QED
    BY <1>6, <1>7 DEF s

(* Division by the number of columns.                                      *)
LEMMA Quotient ==
  ASSUME NEW c \in Nat \ {0}, NEW i \in Nat
  PROVE  i \div c \in Nat /\ i % c \in 0 .. c - 1 /\ i - c * (i \div c) = i % c
  <1>1. i \div c \in Nat
    BY SMTT(20)
  <1>2. i % c \in 0 .. c - 1
    BY SMTT(20)
  <1>3. i - c * (i \div c) = i % c
    BY Z3T(20)
  <1>. QED
    BY <1>1, <1>2, <1>3

(* Every player has a row of the grid.                                     *)
LEMMA GridRowsType ==
  /\ GridRows(PlayersCount) \in Nat \ {0}
  /\ \A i \in Players : (i \div GridCols(PlayersCount)) + 1 \in 1 .. GridRows(PlayersCount)
  <1> DEFINE c == GridCols(PlayersCount)
             m == PlayersCount + c - 1
  <1>1. c \in 1 .. 3 /\ c \in Nat \ {0} /\ PlayersCount \in Nat \ {0}
    BY GridColsType, BoardAssumption
  <1>2. m \in Nat /\ GridRows(PlayersCount) = m \div c
    BY <1>1 DEF GridRows
  <1> HIDE DEF c
  <1>3. m \div c \in Nat /\ m % c \in 0 .. c - 1 /\ m - c * (m \div c) = m % c
    <2> HIDE DEF m
    <2>. QED
      BY <1>1, <1>2, Quotient
  <1>4. m \div c \in Nat \ {0}
    BY <1>1, <1>3
  <1>5. ASSUME NEW i \in Players PROVE (i \div c) + 1 \in 1 .. m \div c
    <2>1. i \in Nat /\ i < PlayersCount
      BY <1>1, <1>5 DEF Players
    <2>2. i \div c \in Nat /\ i % c \in 0 .. c - 1 /\ i - c * (i \div c) = i % c
      BY <1>1, <2>1, Quotient
    <2> DEFINE q == i \div c
               r == i % c
               q2 == m \div c
               r2 == m % c
    <2>3. /\ q \in Nat /\ r \in 0 .. c - 1 /\ q2 \in Nat /\ r2 \in 0 .. c - 1
          /\ i \in Nat /\ i < PlayersCount /\ i - c * q = r
          /\ m = PlayersCount + c - 1 /\ m - c * q2 = r2
      BY <1>3, <2>1, <2>2
    <2> HIDE DEF q, r, q2, r2, m
    <2>4. q + 1 <= q2
      <3>1. CASE c = 1
        BY <1>1, <2>3, <3>1
      <3>2. CASE c = 2
        BY <1>1, <2>3, <3>2
      <3>3. CASE c = 3
        BY <1>1, <2>3, <3>3
      <3>. QED
        BY <1>1, <3>1, <3>2, <3>3
    <2>5. q + 1 \in 1 .. q2
      BY <2>3, <2>4
    <2>. QED
      BY <2>5 DEF q, q2
  <1>. QED
    BY <1>2, <1>4, <1>5 DEF c

(* The coordinates of the starting cells.                                  *)
LEMMA StartsType ==
  \A i \in Players : StartX(i) \in {0} \union 0 .. Width - 1 /\ StartY(i) \in {0} \union 0 .. Height - 1
  <1> SUFFICES ASSUME NEW i \in Players
               PROVE  /\ StartX(i) \in {0} \union 0 .. Width - 1
                      /\ StartY(i) \in {0} \union 0 .. Height - 1
    OBVIOUS
  <1>0. GridCols(PlayersCount) \in 1 .. 3 /\ i \in Nat
    BY GridColsType, BoardAssumption DEF Players
  <1>1. (i % GridCols(PlayersCount)) + 1 \in 0 .. GridCols(PlayersCount)
    BY <1>0, Quotient
  <1>2. (i \div GridCols(PlayersCount)) + 1 \in 0 .. GridRows(PlayersCount)
    BY GridRowsType
  <1>3. Width \in Nat /\ Height \in Nat /\ GridCols(PlayersCount) \in Nat \ {0}
    BY <1>0, BoardAssumption
  <1>4. StartX(i) \in {0} \union 0 .. Width - 1
    BY <1>1, <1>3, StepsFit DEF StartX, StepX
  <1>5. StartY(i) \in {0} \union 0 .. Height - 1
    BY <1>2, <1>3, GridRowsType, StepsFit DEF StartY, StepY
  <1>. QED
    BY <1>4, <1>5

LEMMA StartsOnBoard ==
  HasCells =>
    \A i \in Players : StartX(i) \in 0 .. Width - 1 /\ StartY(i) \in 0 .. Height - 1
  <1>1. HasCells => 0 \in 0 .. Width - 1 /\ 0 \in 0 .. Height - 1
    BY BoardAssumption DEF HasCells
  <1>. QED
    BY <1>1, StartsType

(* Of several players placed on one cell, one is the last.                 *)
LEMMA LastPlaced ==
  ASSUME NEW S \in SUBSET Players, S # {}
  PROVE  Max(S) \in S
  <1>1. ASSUME \A m \in S : \E k \in S : m < k PROVE FALSE
    <2>1. \A n \in S : n \in {0, 1, 2, 3, 4, 5, 6, 7, 8}
      BY BoardAssumption DEF Players, MAX_PLAYERS
    <2>2. 8 \notin S
      BY <1>1, <2>1
    <2>3. 7 \notin S
      BY <1>1, <2>1, <2>2
    <2>4. 6 \notin S
      BY <1>1, <2>1, <2>2, <2>3
    <2>5. 5 \notin S
      BY <1>1, <2>1, <2>2, <2>3, <2>4
    <2>6. 4 \notin S
      BY <1>1, <2>1, <2>2, <2>3, <2>4, <2>5
    <2>7. 3 \notin S
      BY <1>1, <2>1, <2>2, <2>3, <2>4, <2>5, <2>6
    <2>8. 2 \notin S
      BY <1>1, <2>1, <2>2, <2>3, <2>4, <2>5, <2>6, <2>7
    <2>9. S \subseteq {0, 1}
      BY <2>1, <2>2, <2>3, <2>4, <2>5, <2>6, <2>7, <2>8
    <2>10. 1 \notin S
      BY <1>1, <2>9
    <2>11. S = {0}
      BY <2>9, <2>10
    <2>. QED
      BY <1>1, <2>11
  <1>2. \A m, k \in S : m \in Int /\ k \in Int
    BY BoardAssumption DEF Players
  <1>3. \E m \in S : \A k \in S : m >= k
    BY <1>1, <1>2
  <1>. QED
    BY <1>3 DEF Max

(* A larger number of rows takes at least one more row's worth of cells.   *)
LEMMA MoreRows ==
  ASSUME NEW a \in Nat, NEW b \in Nat, NEW w \in Nat, a < b
  PROVE  a * w + w <= b * w
  <1> DEFINE k == a + 1
  <1>1. k \in 0 .. b
    OBVIOUS
  <1>2. k * w = a * w + w
    OBVIOUS
  <1> HIDE DEF k
  <1>3. k * w <= b * w
    BY <1>1
  <1>. QED
    BY <1>2, <1>3

(* A cell on the board has an offset inside the array, and no other cell   *)
(* has the same one.                                                       *)
LEMMA OffsetInRange ==
  ASSUME NEW row \in 0 .. Height - 1, NEW col \in 0 .. Width - 1
  PROVE  Offset(row, col) \in Offsets
  <1>1. row \in Nat /\ col \in Nat /\ Width \in Nat /\ Height \in Nat /\ row + 1 <= Height /\ col < Width
    BY BoardAssumption
  <1>2. row * Width \in Nat /\ Width * Height \in Nat /\ (row + 1) * Width = row * Width + Width
    BY <1>1
  <1>3. (row + 1) * Width <= Width * Height
    BY <1>1
  <1>. QED
    BY <1>1, <1>2, <1>3 DEF Offset, Offsets

(* The write to board[y * width + x] that places a player, which nothing   *)
(* checks, is inside the array exactly when the board has cells: on every  *)
(* board but those of width or height 0, which the options accept.         *)
THEOREM PlacementInBounds == \A i \in Players : StartCell(i) \in Offsets <=> HasCells
  <1> SUFFICES ASSUME NEW i \in Players PROVE StartCell(i) \in Offsets <=> HasCells
    OBVIOUS
  <1>1. HasCells => StartCell(i) \in Offsets
    BY StartsOnBoard, OffsetInRange DEF StartCell
  <1>2. ASSUME ~HasCells PROVE StartCell(i) \notin Offsets
    <2>1. Width = 0 \/ Height = 0
      BY <1>2, BoardAssumption DEF HasCells
    <2>2. Width * Height = 0
      BY <2>1, BoardAssumption
    <2>. QED
      BY <2>2 DEF Offsets
  <1>. QED
    BY <1>1, <1>2

LEMMA OffsetInjective ==
  ASSUME NEW r1 \in Nat, NEW r2 \in Nat, NEW c1 \in 0 .. Width - 1, NEW c2 \in 0 .. Width - 1,
         Offset(r1, c1) = Offset(r2, c2)
  PROVE  r1 = r2 /\ c1 = c2
  <1>0. Width \in Nat \ {0} /\ c1 \in Nat /\ c2 \in Nat /\ c1 < Width /\ c2 < Width
    BY BoardAssumption
  <1>2. r1 * Width \in Nat /\ r2 * Width \in Nat /\ r1 * Width + c1 = r2 * Width + c2
    BY <1>0 DEF Offset
  <1>3. ~(r1 < r2)
    BY <1>0, <1>2, MoreRows
  <1>4. ~(r2 < r1)
    BY <1>0, <1>2, MoreRows
  <1>5. r1 = r2
    BY <1>3, <1>4
  <1>. QED
    BY <1>0, <1>2, <1>5

(* A board with room for the grid has cells.                               *)
LEMMA RoomyHasCells == Roomy => HasCells
  <1>1. GridCols(PlayersCount) + 1 \in Nat \ {0} /\ GridRows(PlayersCount) + 1 \in Nat \ {0}
    BY GridColsType, GridRowsType
  <1>2. \A c \in Nat \ {0} : 0 \div c = 0
    BY SMTT(20)
  <1>3. (Width = 0 => StepX = 0) /\ (Height = 0 => StepY = 0)
    BY <1>1, <1>2 DEF StepX, StepY
  <1>. QED
    BY <1>3, BoardAssumption DEF Roomy, HasCells

(* On a board with room for the grid no two players start on the same cell. *)
THEOREM DistinctStarts ==
  ASSUME Roomy, NEW i \in Players, NEW j \in Players, StartCell(i) = StartCell(j)
  PROVE  i = j
  <1> DEFINE c == GridCols(PlayersCount)
             ri == i % c
             rj == j % c
             qi == i \div c
             qj == j \div c
  <1>1. c \in Nat \ {0} /\ i \in Nat /\ j \in Nat
    BY GridColsType, BoardAssumption DEF Players
  <1>2. StartY(i) = StartY(j) /\ StartX(i) = StartX(j)
    <2>1. /\ StartX(i) \in 0 .. Width - 1 /\ StartY(i) \in Nat
          /\ StartX(j) \in 0 .. Width - 1 /\ StartY(j) \in Nat
      BY StartsOnBoard, RoomyHasCells, BoardAssumption
    <2>. QED
      BY <2>1, OffsetInjective DEF StartCell
  <1>3. /\ qi \in Nat /\ ri \in Nat /\ i - c * qi = ri
        /\ qj \in Nat /\ rj \in Nat /\ j - c * qj = rj
    <2>1. qi \in Nat /\ ri \in 0 .. c - 1 /\ i - c * qi = ri
      BY <1>1, Quotient
    <2>2. qj \in Nat /\ rj \in 0 .. c - 1 /\ j - c * qj = rj
      BY <1>1, Quotient
    <2> HIDE DEF c, ri, rj, qi, qj
    <2>. QED
      BY <1>1, <2>1, <2>2
  <1>4. StepX \in Nat \ {0} /\ StepY \in Nat \ {0}
    <2>1. StepX \in Int /\ StepY \in Int
      BY <1>1, GridRowsType, BoardAssumption DEF StepX, StepY
    <2>. QED
      BY <2>1 DEF Roomy
  <1>5. (ri + 1) * StepX = (rj + 1) * StepX /\ (qi + 1) * StepY = (qj + 1) * StepY
    BY <1>2 DEF StartX, StartY
  <1> HIDE DEF c, ri, rj, qi, qj
  <1>6. ASSUME NEW a \in Nat, NEW b \in Nat, NEW s \in Nat \ {0}, a * s = b * s PROVE a = b
    <2>1. a * s \in Nat
      OBVIOUS
    <2>2. ~(a < b) /\ ~(b < a)
      BY <1>6, <2>1, MoreRows
    <2>. QED
      BY <2>2
  <1>7. ri + 1 = rj + 1 /\ qi + 1 = qj + 1
    BY <1>3, <1>4, <1>5, <1>6
  <1>. QED
    BY <1>1, <1>3, <1>7

-----------------------------------------------------------------------------
(* Every state                                                             *)

(* Placement marks the starting cells and leaves the others as they were.  *)
LEMMA MarkedBoardType ==
  ASSUME TypeOK
  PROVE  MarkedBoard \in [Offsets -> -(MAX_PLAYERS - 1) .. MAX_CELL_REWARD]
  <1> SUFFICES ASSUME NEW o \in Offsets
               PROVE  MarkedBoard[o] \in -(MAX_PLAYERS - 1) .. MAX_CELL_REWARD
    BY DEF MarkedBoard
  <1> DEFINE here == {i \in Players : StartCell(i) = o}
  <1>1. CASE here = {}
    BY <1>1 DEF MarkedBoard, TypeOK
  <1>2. CASE here # {}
    <2>1. Max(here) \in Players
      BY <1>2, LastPlaced
    <2>2. MarkedBoard[o] = -Max(here)
      BY <1>2 DEF MarkedBoard
    <2>. QED
      BY <2>1, <2>2, BoardAssumption DEF Players, MAX_PLAYERS, MAX_CELL_REWARD
  <1>. QED
    BY <1>1, <1>2

(* A move that is allowed leads to a neighbour on the board.               *)
LEMMA AllowedMove ==
  ASSUME TypeOK, NEW p \in Players, NEW d, IsValidDirection(d), d \in Wire,
         IsMoveAllowed(NewY(p, d), NewX(p, d))
  PROVE  /\ NewX(p, d) \in 0 .. Width - 1 /\ NewX(p, d) - x[p] \in -1 .. 1
         /\ NewY(p, d) \in 0 .. Height - 1 /\ NewY(p, d) - y[p] \in -1 .. 1
         /\ Offset(NewY(p, d), NewX(p, d)) \in Offsets
         /\ board[Offset(NewY(p, d), NewX(p, d))] \in 1 .. MAX_CELL_REWARD
  <1>1. d \in 0 .. 7
    BY DEF IsValidDirection, Wire, dir_count, NO_VALID_MOVE
  <1>2. DeltaX(d) \in -1 .. 1 /\ DeltaY(d) \in -1 .. 1
    BY <1>1 DEF DeltaX, DeltaY
  <1>3. x[p] \in {0} \union 0 .. Width - 1 /\ y[p] \in {0} \union 0 .. Height - 1
    BY DEF TypeOK
  <1>4. ~(NewX(p, d) >= Width) /\ ~(NewY(p, d) >= Height)
    BY DEF IsMoveAllowed, IsOutOfBounds
  <1>5. NewX(p, d) = x[p] + DeltaX(d) /\ NewX(p, d) \in 0 .. Width - 1
    <2> DEFINE c == x[p]
               delta == DeltaX(d)
    <2>1. Width \in Nat /\ Width < 65536 /\ c \in {0} \union 0 .. Width - 1 /\ delta \in -1 .. 1
      BY <1>2, <1>3, BoardAssumption
    <2> HIDE DEF c, delta
    <2>2. /\ c + delta \in 0 .. Width - 1 => Displaced(c, delta) = c + delta
          /\ c + delta \notin 0 .. Width - 1 => Displaced(c, delta) >= Width
      BY <2>1, DisplacedExact
    <2>3. NewX(p, d) = Displaced(c, delta)
      BY DEF NewX, c, delta
    <2>4. NewX(p, d) = c + delta /\ c + delta \in 0 .. Width - 1
      BY <1>4, <2>2, <2>3
    <2>. QED
      BY <2>4 DEF c, delta
  <1>6. NewY(p, d) = y[p] + DeltaY(d) /\ NewY(p, d) \in 0 .. Height - 1
    <2> DEFINE c == y[p]
               delta == DeltaY(d)
    <2>1. Height \in Nat /\ Height < 65536 /\ c \in {0} \union 0 .. Height - 1 /\ delta \in -1 .. 1
      BY <1>2, <1>3, BoardAssumption
    <2> HIDE DEF c, delta
    <2>2. /\ c + delta \in 0 .. Height - 1 => Displaced(c, delta) = c + delta
          /\ c + delta \notin 0 .. Height - 1 => Displaced(c, delta) >= Height
      BY <2>1, DisplacedExact
    <2>3. NewY(p, d) = Displaced(c, delta)
      BY DEF NewY, c, delta
    <2>4. NewY(p, d) = c + delta /\ c + delta \in 0 .. Height - 1
      BY <1>4, <2>2, <2>3
    <2>. QED
      BY <2>4 DEF c, delta
  <1>7. NewX(p, d) - x[p] \in -1 .. 1 /\ NewY(p, d) - y[p] \in -1 .. 1
    <2>1. \A a \in Int, b \in -1 .. 1 : a + b - a = b
      OBVIOUS
    <2>. QED
      BY <1>2, <1>3, <1>5, <1>6, <2>1
  <1>8. Offset(NewY(p, d), NewX(p, d)) \in Offsets
    BY <1>5, <1>6, OffsetInRange
  <1>9. board[Offset(NewY(p, d), NewX(p, d))] \in 1 .. MAX_CELL_REWARD
    BY <1>8 DEF TypeOK, IsMoveAllowed, MAX_CELL_REWARD, MAX_PLAYERS
  <1>. QED
    BY <1>5, <1>6, <1>7, <1>8, <1>9

(* The state the master keeps always has its types: positions are on the   *)
(* board, so every cell the program indexes exists; on a board without     *)
(* cells they are at most 0 along a side of 0.                             *)
THEOREM TypeCorrect == Spec => []TypeOK
  <1>1. Init => TypeOK
    <2> SUFFICES ASSUME Init PROVE TypeOK
      OBVIOUS
    <2>1. Rewards \subseteq -(MAX_PLAYERS - 1) .. MAX_CELL_REWARD
      BY BoardAssumption DEF MAX_PLAYERS, MAX_CELL_REWARD, MIN_CELL_REWARD
    <2>2. board \in [Offsets -> -(MAX_PLAYERS - 1) .. MAX_CELL_REWARD]
      BY <2>1 DEF Init
    <2>3. 0 \in 0 .. Uint32Size - 1 /\ 0 \in 0 .. MaxInvalid
      BY BoardAssumption
    <2>4. x \in [Players -> {0} \union 0 .. Width - 1] /\ y \in [Players -> {0} \union 0 .. Height - 1]
      BY DEF Init
    <2>5. /\ score \in [Players -> 0 .. Uint32Size - 1] /\ valid_moves \in [Players -> Nat]
          /\ invalid_moves \in [Players -> 0 .. MaxInvalid]
      BY <2>3 DEF Init
    <2>. QED
      BY <2>2, <2>4, <2>5 DEF Init, TypeOK
  <1>2. TypeOK /\ [Next]_vars => TypeOK'
    <2> SUFFICES ASSUME TypeOK, [Next]_vars PROVE TypeOK'
      OBVIOUS
    <2>1. CASE RegisterPlayers
      <3>1. 0 \in 0 .. Uint32Size - 1 /\ 0 \in 0 .. MaxInvalid
        BY BoardAssumption
      <3>2. x' \in [Players -> {0} \union 0 .. Width - 1] /\ y' \in [Players -> {0} \union 0 .. Height - 1]
        BY <2>1 DEF RegisterPlayers
      <3>3. /\ score' \in [Players -> 0 .. Uint32Size - 1] /\ valid_moves' \in [Players -> Nat]
            /\ invalid_moves' \in [Players -> 0 .. MaxInvalid]
        BY <2>1, <3>1 DEF RegisterPlayers
      <3>. QED
        BY <2>1, <3>2, <3>3 DEF RegisterPlayers, TypeOK
    <2>2. CASE PlacePlayers
      <3>1. \A p \in Players : /\ Uint16(StartX(p)) \in {0} \union 0 .. Width - 1
                               /\ Uint16(StartY(p)) \in {0} \union 0 .. Height - 1
        BY StartsType, Uint16Small, BoardAssumption
      <3>. QED
        BY <2>2, <3>1, MarkedBoardType DEF PlacePlayers, TypeOK
    <2>3. ASSUME NEW p \in Players, NEW d \in Wire, ProcessPlayerMove(p, d) PROVE TypeOK'
      <3> DEFINE row == NewY(p, d)
                 col == NewX(p, d)
      <3>1. CASE IsValidDirection(d) /\ IsMoveAllowed(row, col)
        <4>1. /\ col \in 0 .. Width - 1 /\ row \in 0 .. Height - 1
              /\ board[Offset(row, col)] \in 1 .. MAX_CELL_REWARD
          BY <3>1, AllowedMove
        <4>2. CollectCell(p, row, col)
          BY <2>3, <3>1 DEF ProcessPlayerMove
        <4>3. -p \in -(MAX_PLAYERS - 1) .. MAX_CELL_REWARD
          BY BoardAssumption DEF Players, MAX_PLAYERS, MAX_CELL_REWARD
        <4> HIDE DEF row, col
        <4>4. board' \in [Offsets -> -(MAX_PLAYERS - 1) .. MAX_CELL_REWARD]
          BY <4>2, <4>3 DEF CollectCell, TypeOK
        <4>5. x' \in [Players -> {0} \union 0 .. Width - 1] /\ y' \in [Players -> {0} \union 0 .. Height - 1]
          BY <4>1, <4>2 DEF CollectCell, TypeOK
        <4>6. score' \in [Players -> 0 .. Uint32Size - 1]
          <5>1. score[p] \in Nat /\ board[Offset(row, col)] \in Nat
            BY <4>1, BoardAssumption DEF TypeOK, MAX_CELL_REWARD
          <5>2. score[p] + board[Offset(row, col)] \in Nat /\ Uint32Size \in Nat \ {0}
            BY <5>1, BoardAssumption
          <5>3. (score[p] + board[Offset(row, col)]) % Uint32Size \in 0 .. Uint32Size - 1
            BY <5>2, Quotient
          <5>. QED
            BY <4>2, <5>3 DEF CollectCell, TypeOK
        <4>7. valid_moves' \in [Players -> Nat]
          <5>1. valid_moves[p] + 1 \in Nat
            BY DEF TypeOK
          <5>. QED
            BY <4>2, <5>1 DEF CollectCell, TypeOK
        <4>. QED
          BY <4>2, <4>4, <4>5, <4>6, <4>7 DEF CollectCell, TypeOK
      <3>2. CASE ~(IsValidDirection(d) /\ IsMoveAllowed(row, col))
        <4>1. RejectMove(p)
          BY <2>3, <3>2 DEF ProcessPlayerMove
        <4>2. invalid_moves[p] + 1 \in 0 .. MaxInvalid
          <5>1. invalid_moves[p] \in 0 .. MaxInvalid
            BY DEF TypeOK
          <5>2. invalid_moves[p] < MaxInvalid /\ MaxInvalid \in Nat
            BY <4>1, BoardAssumption DEF RejectMove
          <5>. QED
            BY <5>1, <5>2
        <4>3. invalid_moves' \in [Players -> 0 .. MaxInvalid]
          BY <4>1, <4>2 DEF RejectMove, TypeOK
        <4>. QED
          BY <4>1, <4>3 DEF RejectMove, TypeOK
      <3>. QED
        BY <3>1, <3>2
    <2>4. CASE UNCHANGED vars
      BY <2>4 DEF vars, TypeOK
    <2>. QED
      BY <2>1, <2>2, <2>3, <2>4 DEF Next
  <1>. QED
    BY <1>1, <1>2, PTL DEF Spec

(* A cell once taken stays with whoever took it.                           *)
THEOREM Captured == Spec => CapturedForever
  <1>1. TypeOK /\ [Next]_vars =>
          [phase = "playing" => \A o \in Offsets : board[o] <= 0 => board'[o] = board[o]]_vars
    <2> SUFFICES ASSUME TypeOK, Next, phase = "playing", NEW o \in Offsets, board[o] <= 0
                 PROVE  board'[o] = board[o]
      OBVIOUS
    <2>1. PICK p \in Players, d \in Wire : ProcessPlayerMove(p, d)
      BY DEF Next, RegisterPlayers, PlacePlayers
    <2>2. CASE IsValidDirection(d) /\ IsMoveAllowed(NewY(p, d), NewX(p, d))
      <3>1. board[Offset(NewY(p, d), NewX(p, d))] > 0
        BY <2>2 DEF IsMoveAllowed
      <3>2. Offset(NewY(p, d), NewX(p, d)) # o
        BY <3>1 DEF TypeOK, MAX_PLAYERS, MAX_CELL_REWARD
      <3>. QED
        BY <2>1, <2>2, <3>2 DEF ProcessPlayerMove, CollectCell, TypeOK
    <2>3. CASE ~(IsValidDirection(d) /\ IsMoveAllowed(NewY(p, d), NewX(p, d)))
      BY <2>1, <2>3 DEF ProcessPlayerMove, RejectMove
    <2>. QED
      BY <2>2, <2>3
  <1>. QED
    BY <1>1, TypeCorrect, PTL DEF Spec, CapturedForever

(* No move jumps, nor crosses an edge of the board.                        *)
THEOREM Adjacent == Spec => StepsAreAdjacent
  <1>1. TypeOK /\ [Next]_vars =>
          [phase = "playing" =>
             \A p \in Players : x'[p] - x[p] \in -1 .. 1 /\ y'[p] - y[p] \in -1 .. 1]_vars
    <2> SUFFICES ASSUME TypeOK, Next, phase = "playing", NEW q \in Players
                 PROVE  x'[q] - x[q] \in -1 .. 1 /\ y'[q] - y[q] \in -1 .. 1
      OBVIOUS
    <2>0. x[q] - x[q] = 0 /\ y[q] - y[q] = 0
      BY DEF TypeOK
    <2>1. PICK p \in Players, d \in Wire : ProcessPlayerMove(p, d)
      BY DEF Next, RegisterPlayers, PlacePlayers
    <2>2. CASE IsValidDirection(d) /\ IsMoveAllowed(NewY(p, d), NewX(p, d))
      <3>1. NewX(p, d) - x[p] \in -1 .. 1 /\ NewY(p, d) - y[p] \in -1 .. 1
        BY <2>2, AllowedMove
      <3>2. x' = [x EXCEPT ![p] = NewX(p, d)] /\ y' = [y EXCEPT ![p] = NewY(p, d)]
        BY <2>1, <2>2 DEF ProcessPlayerMove, CollectCell
      <3>. QED
        BY <2>0, <3>1, <3>2 DEF TypeOK
    <2>3. CASE ~(IsValidDirection(d) /\ IsMoveAllowed(NewY(p, d), NewX(p, d)))
      BY <2>0, <2>1, <2>3 DEF ProcessPlayerMove, RejectMove
    <2>. QED
      BY <2>2, <2>3
  <1>. QED
    BY <1>1, TypeCorrect, PTL DEF Spec, StepsAreAdjacent

(* On a board with room for the grid every player always stands on a cell  *)
(* of its own.                                                             *)
THEOREM OwnCell == ASSUME Roomy PROVE Spec => []StandsOnOwnCell
  <1>1. Init => StandsOnOwnCell
    BY DEF Init, StandsOnOwnCell
  <1>2. TypeOK /\ TypeOK' /\ StandsOnOwnCell /\ [Next]_vars => StandsOnOwnCell'
    <2> SUFFICES ASSUME TypeOK, TypeOK', StandsOnOwnCell, [Next]_vars, phase' = "playing",
                        NEW q \in Players
                 PROVE  board'[Offset(y'[q], x'[q])] = -q
      BY DEF StandsOnOwnCell
    <2>1. CASE RegisterPlayers
      BY <2>1 DEF RegisterPlayers
    <2>2. CASE PlacePlayers
      <3>1. x'[q] = StartX(q) /\ y'[q] = StartY(q)
        <4>1. /\ StartX(q) \in Nat /\ StartX(q) < 65536
              /\ StartY(q) \in Nat /\ StartY(q) < 65536
          <5>1. StartX(q) \in 0 .. Width - 1 /\ StartY(q) \in 0 .. Height - 1
            BY StartsOnBoard, RoomyHasCells
          <5>2. Width \in Nat /\ Width < 65536 /\ Height \in Nat /\ Height < 65536
            BY BoardAssumption
          <5>. QED
            BY <5>1, <5>2
        <4>2. Uint16(StartX(q)) = StartX(q) /\ Uint16(StartY(q)) = StartY(q)
          BY <4>1, Uint16Small
        <4>. QED
          BY <2>2, <4>2 DEF PlacePlayers
      <3>2. StartCell(q) \in Offsets
        BY PlacementInBounds, RoomyHasCells
      <3>3. {i \in Players : StartCell(i) = StartCell(q)} = {q}
        BY DistinctStarts
      <3>4. Max({q}) = q
        BY LastPlaced
      <3>5. MarkedBoard[StartCell(q)] = -q
        BY <3>2, <3>3, <3>4 DEF MarkedBoard
      <3>. QED
        BY <2>2, <3>1, <3>5 DEF PlacePlayers, StartCell
    <2>3. ASSUME NEW p \in Players, NEW d \in Wire, ProcessPlayerMove(p, d)
          PROVE  board'[Offset(y'[q], x'[q])] = -q
      <3> DEFINE row == NewY(p, d)
                 col == NewX(p, d)
      <3>0. board[Offset(y[q], x[q])] = -q /\ q \in Nat /\ -q <= 0
        <4>1. phase = "playing"
          BY <2>3 DEF ProcessPlayerMove
        <4>2. q \in Nat
          BY BoardAssumption DEF Players
        <4>. QED
          BY <4>1, <4>2 DEF StandsOnOwnCell
      <3>1. CASE IsValidDirection(d) /\ IsMoveAllowed(row, col)
        <4>1. CollectCell(p, row, col)
          BY <2>3, <3>1 DEF ProcessPlayerMove
        <4>2. Offset(row, col) \in Offsets /\ board[Offset(row, col)] \in 1 .. MAX_CELL_REWARD
          BY <3>1, AllowedMove
        <4> HIDE DEF row, col
        <4>3. CASE q = p
          BY <4>1, <4>2, <4>3 DEF CollectCell, TypeOK
        <4>4. CASE q # p
          <5>1. Offset(y[q], x[q]) # Offset(row, col)
            BY <3>0, <4>2 DEF MAX_CELL_REWARD
          <5>2. x'[q] = x[q] /\ y'[q] = y[q]
            BY <4>1, <4>4 DEF CollectCell, TypeOK
          <5>3. Offset(y[q], x[q]) \in Offsets
            <6>1. x[q] \in 0 .. Width - 1 /\ y[q] \in 0 .. Height - 1
              BY RoomyHasCells, BoardAssumption DEF TypeOK, HasCells
            <6>. QED
              BY <6>1, OffsetInRange
          <5>. QED
            BY <3>0, <4>1, <5>1, <5>2, <5>3 DEF CollectCell, TypeOK
        <4>. QED
          BY <4>3, <4>4
      <3>2. CASE ~(IsValidDirection(d) /\ IsMoveAllowed(row, col))
        BY <2>3, <3>0, <3>2 DEF ProcessPlayerMove, RejectMove
      <3>. QED
        BY <3>1, <3>2
    <2>4. CASE UNCHANGED vars
      BY <2>4 DEF vars, StandsOnOwnCell
    <2>. QED
      BY <2>1, <2>2, <2>3, <2>4 DEF Next
  <1>. QED
    BY <1>1, <1>2, TypeCorrect, PTL DEF Spec

(* Before the players are placed every cell holds a reward and nobody has  *)
(* moved.                                                                  *)
Untouched ==
  phase # "playing" => board \in [Offsets -> Rewards] /\ valid_moves = [p \in Players |-> 0]

LEMMA UntouchedInvariant == Spec => []Untouched
  <1>1. Init => Untouched
    BY DEF Init, Untouched
  <1>2. Untouched /\ [Next]_vars => Untouched'
    BY DEF Untouched, Next, vars, RegisterPlayers, PlacePlayers, ProcessPlayerMove, CollectCell, RejectMove
  <1>. QED
    BY <1>1, <1>2, PTL DEF Spec

(* Where there is room, placement gives each player its start and no other *)
(* cell.                                                                   *)
LEMMA OwnedAtStart ==
  ASSUME Roomy, board \in [Offsets -> Rewards], NEW q \in Players
  PROVE  {o \in Offsets : MarkedBoard[o] = -q} = {StartCell(q)}
  <1>0. \A n \in Players : n \in Nat
    BY BoardAssumption DEF Players
  <1>1. StartCell(q) \in Offsets
    BY PlacementInBounds, RoomyHasCells
  <1>2. MarkedBoard[StartCell(q)] = -q
    <2>1. {i \in Players : StartCell(i) = StartCell(q)} = {q}
      BY DistinctStarts
    <2>2. Max({q}) = q
      BY LastPlaced
    <2>. QED
      BY <1>1, <2>1, <2>2 DEF MarkedBoard
  <1>3. ASSUME NEW o \in Offsets, MarkedBoard[o] = -q PROVE o = StartCell(q)
    <2> DEFINE here == {i \in Players : StartCell(i) = o}
    <2>1. here # {}
      <3>1. board[o] > 0
        <4>1. board[o] \in Rewards
          OBVIOUS
        <4>2. Rewards \subseteq 1 .. 9
          BY BoardAssumption DEF MIN_CELL_REWARD, MAX_CELL_REWARD
        <4>3. board[o] \in 1 .. 9
          BY <4>1, <4>2
        <4> HIDE DEF here
        <4>. QED
          BY <4>3
      <3>2. here = {} => MarkedBoard[o] = board[o]
        BY DEF MarkedBoard
      <3>. QED
        BY <1>0, <1>3, <3>1, <3>2
    <2>2. Max(here) \in here
      BY <2>1, LastPlaced
    <2>3. MarkedBoard[o] = -Max(here)
      BY <2>1 DEF MarkedBoard
    <2> HIDE DEF here
    <2>4. Max(here) \in Players /\ StartCell(Max(here)) = o
      BY <2>2 DEF here
    <2>5. Max(here) = q
      BY <1>0, <1>3, <2>3, <2>4
    <2>. QED
      BY <2>4, <2>5
  <1>. QED
    BY <1>1, <1>2, <1>3

LEMMA OwnedFinite == ASSUME NEW p PROVE IsFiniteSet(Owned(p))
  <1>1. Width * Height \in Nat
    BY BoardAssumption
  <1>2. IsFiniteSet(Offsets)
    BY <1>1, FS_Interval DEF Offsets
  <1>. QED
    BY <1>2, FS_Subset DEF Owned

(* On a board with room for the grid a player owns one cell for each valid *)
(* move, and its start.                                                    *)
THEOREM MovesMatch == ASSUME Roomy PROVE Spec => []MovesMatchCells
  <1>1. Init => MovesMatchCells
    BY DEF Init, MovesMatchCells
  <1>2. TypeOK /\ Untouched /\ MovesMatchCells /\ [Next]_vars => MovesMatchCells'
    <2> SUFFICES ASSUME TypeOK, Untouched, MovesMatchCells, [Next]_vars, phase' = "playing",
                        NEW q \in Players
                 PROVE  Cardinality(Owned(q)') = valid_moves'[q] + 1
      BY DEF MovesMatchCells
    <2>1. CASE RegisterPlayers
      BY <2>1 DEF RegisterPlayers
    <2>2. CASE PlacePlayers
      <3>1. board \in [Offsets -> Rewards] /\ valid_moves'[q] = 0
        BY <2>2 DEF PlacePlayers, Untouched
      <3>2. Owned(q)' = {StartCell(q)}
        BY <2>2, <3>1, OwnedAtStart DEF PlacePlayers, Owned
      <3>3. Cardinality(Owned(q)') = 1
        BY <3>2, FS_Singleton, Zenon
      <3>. QED
        BY <3>1, <3>3
    <2>3. ASSUME NEW p \in Players, NEW d \in Wire, ProcessPlayerMove(p, d)
          PROVE  Cardinality(Owned(q)') = valid_moves'[q] + 1
      <3> DEFINE row == NewY(p, d)
                 col == NewX(p, d)
      <3>0. Cardinality(Owned(q)) = valid_moves[q] + 1 /\ p \in Nat /\ q \in Nat
        BY <2>3, BoardAssumption DEF ProcessPlayerMove, MovesMatchCells, Players
      <3>1. CASE IsValidDirection(d) /\ IsMoveAllowed(row, col)
        <4>1. CollectCell(p, row, col)
          BY <2>3, <3>1 DEF ProcessPlayerMove
        <4>2. Offset(row, col) \in Offsets /\ board[Offset(row, col)] \in 1 .. MAX_CELL_REWARD
          BY <3>1, AllowedMove
        <4> HIDE DEF row, col
        <4>3. Offset(row, col) \notin Owned(q)
          BY <3>0, <4>2 DEF Owned, MAX_CELL_REWARD
        <4>4. /\ board' = [board EXCEPT ![Offset(row, col)] = -p]
              /\ valid_moves' = [valid_moves EXCEPT ![p] = @ + 1]
          BY <4>1 DEF CollectCell
        <4>5. CASE q = p
          <5>1. Owned(q)' = Owned(q) \union {Offset(row, col)}
            BY <4>2, <4>4, <4>5 DEF Owned, TypeOK
          <5>2. Cardinality(Owned(q)') = valid_moves[q] + 1 + 1
            BY <3>0, <4>3, <5>1, OwnedFinite, FS_AddElement
          <5>. QED
            BY <4>4, <4>5, <5>2 DEF TypeOK
        <4>6. CASE q # p
          <5>1. -p # -q
            BY <3>0, <4>6
          <5>2. Owned(q)' = Owned(q)
            BY <4>2, <4>3, <4>4, <5>1 DEF Owned, TypeOK
          <5>. QED
            BY <3>0, <4>4, <4>6, <5>2 DEF TypeOK
        <4>. QED
          BY <4>5, <4>6
      <3>2. CASE ~(IsValidDirection(d) /\ IsMoveAllowed(row, col))
        BY <2>3, <3>0, <3>2 DEF ProcessPlayerMove, RejectMove, Owned
      <3>. QED
        BY <3>1, <3>2
    <2>4. CASE UNCHANGED vars
      BY <2>4 DEF vars, MovesMatchCells, Owned
    <2>. QED
      BY <2>1, <2>2, <2>3, <2>4 DEF Next
  <1>. QED
    BY <1>1, <1>2, TypeCorrect, UntouchedInvariant, PTL DEF Spec

-----------------------------------------------------------------------------
(* The score                                                               *)

(* A cell nobody has taken holds the reward it had when the game began.    *)
AsFound == \A o \in Offsets : board[o] > 0 => initial[o] = board[o]

LEMMA AsFoundInvariant == Spec => []AsFound
  <1>1. Init => AsFound
    BY DEF Init, AsFound
  <1>2. TypeOK /\ Untouched /\ AsFound /\ [Next]_vars => AsFound'
    <2> SUFFICES ASSUME TypeOK, Untouched, AsFound, [Next]_vars, NEW o \in Offsets, board'[o] > 0
                 PROVE  initial'[o] = board'[o]
      BY DEF AsFound
    <2>1. CASE PlacePlayers
      <3> DEFINE here == {i \in Players : StartCell(i) = o}
      <3>1. board' = MarkedBoard
            /\ initial' = [c \in Offsets |-> IF \E p \in Players : StartCell(p) = c THEN 0 ELSE initial[c]]
        BY <2>1 DEF PlacePlayers
      <3>2. CASE here = {}
        <4>1. board'[o] = board[o]
          BY <3>1, <3>2 DEF MarkedBoard
        <4>2. initial'[o] = initial[o]
          BY <3>1, <3>2
        <4>. QED
          BY <2>1, <4>1, <4>2 DEF AsFound
      <3>3. CASE here # {}
        <4>1. board'[o] = -Max(here)
          BY <3>1, <3>3 DEF MarkedBoard
        <4>2. Max(here) \in Nat
          <5>1. Max(here) \in here
            BY <3>3, LastPlaced
          <5>. QED
            BY <5>1, BoardAssumption DEF Players
        <4> HIDE DEF here
        <4>. QED
          BY <4>1, <4>2
      <3>. QED
        BY <3>2, <3>3
    <2>2. ASSUME NEW p \in Players, NEW d \in Wire, ProcessPlayerMove(p, d)
          PROVE  initial'[o] = board'[o]
      <3>1. CASE IsValidDirection(d) /\ IsMoveAllowed(NewY(p, d), NewX(p, d))
        <4>1. CollectCell(p, NewY(p, d), NewX(p, d))
          BY <2>2, <3>1 DEF ProcessPlayerMove
        <4>2. PICK c : c = Offset(NewY(p, d), NewX(p, d))
          OBVIOUS
        <4>3. board' = [board EXCEPT ![c] = -p] /\ initial' = initial /\ p \in Nat
          BY <4>1, <4>2, BoardAssumption DEF CollectCell, Players
        <4>4. o # c
          BY <4>3 DEF TypeOK
        <4>. QED
          BY <4>3, <4>4 DEF AsFound, TypeOK
      <3>2. CASE ~(IsValidDirection(d) /\ IsMoveAllowed(NewY(p, d), NewX(p, d)))
        BY <2>2, <3>2 DEF ProcessPlayerMove, RejectMove, AsFound
      <3>. QED
        BY <3>1, <3>2
    <2>3. CASE RegisterPlayers \/ UNCHANGED vars
      BY <2>3 DEF RegisterPlayers, vars, AsFound
    <2>. QED
      BY <2>1, <2>2, <2>3 DEF Next
  <1>. QED
    BY <1>1, <1>2, TypeCorrect, UntouchedInvariant, PTL DEF Spec

LEMMA PointsFinite == ASSUME NEW p PROVE IsFiniteSet(Points(p))
  <1>1. IsFiniteSet(1 .. MAX_CELL_REWARD)
    <2>1. 1 \in Int /\ MAX_CELL_REWARD \in Int
      BY DEF MAX_CELL_REWARD
    <2>. QED
      BY <2>1, FS_Interval
  <1>2. IsFiniteSet(Owned(p) \X (1 .. MAX_CELL_REWARD))
    BY <1>1, OwnedFinite, FS_Product
  <1>3. Points(p) \subseteq Owned(p) \X (1 .. MAX_CELL_REWARD)
    BY DEF Points
  <1>. QED
    BY <1>2, <1>3, FS_Subset

(* The points of one cell.                                                 *)
LEMMA CellPoints ==
  ASSUME NEW o, NEW r \in 0 .. MAX_CELL_REWARD
  PROVE  IsFiniteSet({o} \X (1 .. r)) /\ Cardinality({o} \X (1 .. r)) = r
  <1>1. r \in Nat
    BY DEF MAX_CELL_REWARD
  <1>2. IsFiniteSet(1 .. r) /\ Cardinality(1 .. r) = r
    BY <1>1, FS_Interval
  <1>3. IsFiniteSet({o}) /\ Cardinality({o}) = 1
    BY FS_Singleton
  <1>4. IsFiniteSet({o} \X (1 .. r)) /\ Cardinality({o} \X (1 .. r)) = Cardinality({o}) * Cardinality(1 .. r)
    BY <1>2, <1>3, FS_Product
  <1>. QED
    BY <1>1, <1>2, <1>3, <1>4

(* Taking a cell adds its points to its new owner's, and to nobody else's. *)
LEMMA PointsTaken ==
  ASSUME TypeOK, AsFound, NEW p \in Players, NEW q \in Players, NEW c \in Offsets, board[c] > 0,
         board' = [board EXCEPT ![c] = -p], initial' = initial
  PROVE  Cardinality(Points(q)') = Cardinality(Points(q)) + (IF q = p THEN board[c] ELSE 0)
  <1>1. p \in Nat /\ q \in Nat /\ board[c] \in 1 .. MAX_CELL_REWARD /\ initial[c] = board[c]
    <2>1. p \in Nat /\ q \in Nat
      BY BoardAssumption DEF Players, MAX_PLAYERS
    <2>2. board[c] \in -(MAX_PLAYERS - 1) .. MAX_CELL_REWARD
      BY DEF TypeOK
    <2>3. board[c] \in 1 .. MAX_CELL_REWARD
      BY <2>2 DEF MAX_PLAYERS, MAX_CELL_REWARD
    <2>4. initial[c] = board[c]
      BY DEF AsFound
    <2>. QED
      BY <2>1, <2>3, <2>4
  <1>2. c \notin Owned(q)
    BY <1>1 DEF Owned
  <1>3. CASE q # p
    <2>1. -p # -q
      BY <1>1, <1>3
    <2>2. Owned(q)' = Owned(q)
      BY <1>2, <2>1 DEF Owned, TypeOK
    <2>3. Points(q)' = Points(q)
      BY <2>2 DEF Points
    <2>4. Cardinality(Points(q)) \in Nat
      BY PointsFinite, FS_CardinalityType
    <2>. QED
      BY <1>3, <2>3, <2>4
  <1>4. CASE q = p
    <2> DEFINE new == {c} \X (1 .. board[c])
    <2>1. Owned(q)' = Owned(q) \union {c}
      BY <1>2, <1>4 DEF Owned, TypeOK
    <2>2. Points(q)' = Points(q) \union new
      <3>1. \A t : t \in Points(q)' <=>
              \E o \in Owned(q) \union {c}, n \in 1 .. MAX_CELL_REWARD : n <= initial[o] /\ t = <<o, n>>
        BY <2>1 DEF Points
      <3>2. \A t : t \in Points(q) <=>
              \E o \in Owned(q), n \in 1 .. MAX_CELL_REWARD : n <= initial[o] /\ t = <<o, n>>
        BY DEF Points
      <3>3. \A t : t \in new <=> \E n \in 1 .. MAX_CELL_REWARD : n <= initial[c] /\ t = <<c, n>>
        BY <1>1 DEF MAX_CELL_REWARD
      <3> HIDE DEF new
      <3>4. \A t : t \in Points(q)' <=> t \in Points(q) \union new
        BY <3>1, <3>2, <3>3
      <3>. QED
        BY <3>4
    <2>3. Points(q) \intersect new = {}
      BY <1>2 DEF Points
    <2>4. IsFiniteSet(new) /\ Cardinality(new) = board[c]
      <3>1. board[c] \in 0 .. MAX_CELL_REWARD
        BY <1>1 DEF MAX_CELL_REWARD
      <3>. QED
        BY <3>1, CellPoints
    <2>5. IsFiniteSet(Points(q)) /\ Cardinality(Points(q)) \in Nat
      BY PointsFinite, FS_CardinalityType
    <2> HIDE DEF new
    <2>6. Cardinality(Points(q) \union new) = Cardinality(Points(q)) + Cardinality(new) - 0
      BY <2>3, <2>4, <2>5, FS_Union, FS_EmptySet
    <2>. QED
      BY <1>1, <1>4, <2>2, <2>4, <2>5, <2>6 DEF MAX_CELL_REWARD
  <1>. QED
    BY <1>3, <1>4

(* Adding to a remainder and taking the remainder again is adding first.   *)
LEMMA AddedRemainder ==
  ASSUME NEW n \in Nat \ {0}, NEW a \in Nat, NEW b \in Nat
  PROVE  ((a % n) + b) % n = (a + b) % n
  <1> DEFINE r == a % n
             q == a \div n
             u == (r + b) % n
             v == (r + b) \div n
             w == (a + b) % n
             z == (a + b) \div n
  <1>1. q \in Nat /\ r \in 0 .. n - 1 /\ a - n * q = r
    BY Quotient
  <1>2. r + b \in Nat /\ a + b \in Nat
    <2> HIDE DEF r
    <2>. QED
      BY <1>1
  <1>3. v \in Nat /\ u \in 0 .. n - 1 /\ (r + b) - n * v = u
    <2> HIDE DEF r
    <2>. QED
      BY <1>2, Quotient
  <1>4. z \in Nat /\ w \in 0 .. n - 1 /\ (a + b) - n * z = w
    BY <1>2, Quotient
  <1> HIDE DEF r, q, u, v, w, z
  <1> DEFINE k == q + v
  <1>5. k \in Nat /\ n * k = n * q + n * v /\ n * q \in Nat /\ n * v \in Nat /\ n * z \in Nat
    BY <1>1, <1>3, <1>4
  <1> HIDE DEF k
  <1>6. n * k = k * n /\ n * z = z * n
    BY <1>4, <1>5
  <1>7. n * k + u = n * z + w
    BY <1>1, <1>3, <1>4, <1>5
  <1>8. ~(k < z) /\ ~(z < k)
    <2>1. k < z => k * n + n <= z * n
      BY <1>4, <1>5, MoreRows
    <2>2. z < k => z * n + n <= k * n
      BY <1>4, <1>5, MoreRows
    <2>. QED
      BY <1>3, <1>4, <1>5, <1>6, <1>7, <2>1, <2>2
  <1>9. k = z
    BY <1>4, <1>5, <1>8
  <1>10. u = w
    BY <1>3, <1>4, <1>5, <1>7, <1>9
  <1>. QED
    BY <1>10 DEF u, w, r

(* A player's score is what lay on its cells, on every board and whatever  *)
(* it sent, up to the wrap of a uint32_t.                                  *)
THEOREM ScoreMatches == Spec => []ScoreMatchesCells
  <1> DEFINE NoScore == phase # "playing" => score = [p \in Players |-> 0]
  <1>1. Init => ScoreMatchesCells /\ NoScore
    BY DEF Init, ScoreMatchesCells
  <1>2. NoScore /\ [Next]_vars => NoScore'
    BY DEF Next, vars, RegisterPlayers, PlacePlayers, ProcessPlayerMove, CollectCell, RejectMove
  <1>3. TypeOK /\ Untouched /\ AsFound /\ NoScore /\ ScoreMatchesCells /\ [Next]_vars => ScoreMatchesCells'
    <2> SUFFICES ASSUME TypeOK, Untouched, AsFound, NoScore, ScoreMatchesCells, [Next]_vars,
                        phase' = "playing", NEW q \in Players
                 PROVE  score'[q] = Cardinality(Points(q)') % Uint32Size
      BY DEF ScoreMatchesCells
    <2>1. CASE PlacePlayers
      <3>1. board \in [Offsets -> Rewards] /\ score'[q] = 0
        BY <2>1 DEF PlacePlayers, Untouched
      <3>2. ASSUME NEW o \in Owned(q)' PROVE initial'[o] = 0
        <4>1. o \in Offsets /\ MarkedBoard[o] = -q /\ q \in Nat
          BY <2>1, <3>2, BoardAssumption DEF Owned, PlacePlayers, Players
        <4>2. \E p \in Players : StartCell(p) = o
          <5>1. SUFFICES ASSUME {p \in Players : StartCell(p) = o} = {} PROVE FALSE
            OBVIOUS
          <5>2. MarkedBoard[o] = board[o]
            BY <4>1, <5>1 DEF MarkedBoard
          <5>3. board[o] \in 1 .. 9
            <6>1. board[o] \in Rewards
              BY <3>1, <4>1
            <6>2. Rewards \subseteq 1 .. 9
              BY BoardAssumption DEF MIN_CELL_REWARD, MAX_CELL_REWARD
            <6>. QED
              BY <6>1, <6>2
          <5>. QED
            BY <4>1, <5>2, <5>3
        <4>. QED
          BY <2>1, <4>1, <4>2 DEF PlacePlayers
      <3>3. Points(q)' = {}
        BY <3>2 DEF Points
      <3>4. Cardinality(Points(q)') = 0
        BY <3>3, FS_EmptySet
      <3>5. 0 % Uint32Size = 0
        BY BoardAssumption, SMTT(20)
      <3>. QED
        BY <3>1, <3>4, <3>5
    <2>2. ASSUME NEW p \in Players, NEW d \in Wire, ProcessPlayerMove(p, d)
          PROVE  score'[q] = Cardinality(Points(q)') % Uint32Size
      <3>0. score[q] = Cardinality(Points(q)) % Uint32Size
        BY <2>2 DEF ProcessPlayerMove, ScoreMatchesCells
      <3>1. CASE IsValidDirection(d) /\ IsMoveAllowed(NewY(p, d), NewX(p, d))
        <4>1. CollectCell(p, NewY(p, d), NewX(p, d))
          BY <2>2, <3>1 DEF ProcessPlayerMove
        <4>2. PICK c \in Offsets : c = Offset(NewY(p, d), NewX(p, d)) /\ board[c] \in 1 .. MAX_CELL_REWARD
          BY <3>1, AllowedMove
        <4>3. board' = [board EXCEPT ![c] = -p] /\ initial' = initial
              /\ score' = [score EXCEPT ![p] = (@ + board[c]) % Uint32Size]
          BY <4>1, <4>2 DEF CollectCell
        <4>4. board[c] > 0 /\ board[c] \in Nat /\ Uint32Size \in Nat \ {0}
          BY <4>2, BoardAssumption DEF MAX_CELL_REWARD
        <4>5. Cardinality(Points(q)') = Cardinality(Points(q)) + (IF q = p THEN board[c] ELSE 0)
          BY <4>3, <4>4, PointsTaken
        <4>6. Cardinality(Points(q)) \in Nat
          BY PointsFinite, FS_CardinalityType
        <4>7. CASE q = p
          <5>1. score'[q] = (score[q] + board[c]) % Uint32Size
            BY <4>3, <4>7 DEF TypeOK
          <5>. QED
            BY <3>0, <4>4, <4>5, <4>6, <4>7, <5>1, AddedRemainder
        <4>8. CASE q # p
          <5>1. score'[q] = score[q]
            BY <4>3, <4>8 DEF TypeOK
          <5>2. Cardinality(Points(q)') = Cardinality(Points(q))
            BY <4>5, <4>6, <4>8
          <5>. QED
            BY <3>0, <5>1, <5>2
        <4>. QED
          BY <4>7, <4>8
      <3>2. CASE ~(IsValidDirection(d) /\ IsMoveAllowed(NewY(p, d), NewX(p, d)))
        <4>1. UNCHANGED <<board, initial, score>>
          BY <2>2, <3>2 DEF ProcessPlayerMove, RejectMove
        <4>2. Points(q)' = Points(q)
          BY <4>1 DEF Points, Owned
        <4>. QED
          BY <3>0, <4>1, <4>2
      <3>. QED
        BY <3>1, <3>2
    <2>3. CASE UNCHANGED vars
      <3>1. Points(q)' = Points(q) /\ score' = score /\ phase' = phase
        BY <2>3 DEF vars, Points, Owned
      <3>. QED
        BY <3>1 DEF ScoreMatchesCells
    <2>4. ~RegisterPlayers
      BY DEF RegisterPlayers
    <2>. QED
      BY <2>1, <2>2, <2>3, <2>4 DEF Next
  <1>. QED
    BY <1>1, <1>2, <1>3, TypeCorrect, UntouchedInvariant, AsFoundInvariant, PTL DEF Spec
=============================================================================
