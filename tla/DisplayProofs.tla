--------------------------- MODULE DisplayProofs ----------------------------
(* Proofs about what the view shows, for every number of players, every    *)
(* terminal and every board it can lay out in int16_t.                     *)
EXTENDS Display, GameAdminProofs

-----------------------------------------------------------------------------
(* Drawing frames leaves the game to the rules: what GameAdminProofs       *)
(* establishes holds of a game that is being shown.                        *)
THEOREM ShownIsGame == DisplaySpec => Spec
  <1>1. DisplayInit => Init
    BY DEF DisplayInit
  <1>2. [DisplayNext]_allVars => [Next]_vars
    BY DEF DisplayNext, allVars, Play, StartFrame, BoardDrawn, ComparePair, PanelsDrawn
  <1>. QED
    BY <1>1, <1>2, PTL DEF DisplaySpec, Spec

-----------------------------------------------------------------------------
(* The order of the players                                                *)

(* The positions before i are settled: nobody after them has more.  Of the *)
(* others, those before j have been compared with position i.              *)
SortInv ==
  /\ vpc \in {"wait", "board", "panels"}
  /\ order \in [Players -> Players]
  /\ \A p \in Players : \E pos \in Players : order[pos] = p
  /\ \A a, b \in Players : order[a] = order[b] => a = b
  /\ i \in Nat /\ j \in Nat /\ i < j /\ (~Sorted => j < PlayersCount)
  /\ vpc # "panels" => i = 0 /\ j = 1
  /\ \A a, b \in Players : a < i /\ a < b => score[order[a]] >= score[order[b]]
  /\ \A b \in Players : i < b /\ b < j => score[order[i]] >= score[order[b]]

LEMMA UnsortedInv ==
  ASSUME vpc' \in {"wait", "board"}, order' = Unsorted, i' = 0, j' = 1
  PROVE  SortInv'
  <1>1. \A a \in Players : a \in Nat
    BY BoardAssumption DEF Players
  <1>2. \A b \in Players : ~(b < 0) /\ ~(0 < b /\ b < 1)
    BY <1>1
  <1>3. ~Sorted' => 1 < PlayersCount
    BY BoardAssumption DEF Sorted
  <1>4. order' \in [Players -> Players] /\ \A a \in Players : order'[a] = a
    BY DEF Unsorted
  <1>. QED
    BY <1>2, <1>3, <1>4 DEF SortInv

(* A comparison exchanges two positions at most, neither of them settled.  *)
LEMMA CompareKeepsSorting ==
  ASSUME TypeOK, SortInv, ComparePair
  PROVE  SortInv'
  <1>1. /\ i \in Nat /\ j \in Nat /\ i < j /\ j < PlayersCount /\ PlayersCount \in Nat
        /\ i < PlayersCount - 1
    BY BoardAssumption DEF SortInv, ComparePair, Sorted
  <1>2. i \in Players /\ j \in Players /\ \A a \in Players : a \in Nat /\ a < PlayersCount
    BY <1>1 DEF Players
  <1>3. order \in [Players -> Players] /\ \A p \in Players : score[p] \in Nat
    BY DEF SortInv, TypeOK
  <1>4. score' = score /\ vpc' = vpc /\ vpc = "panels"
    BY DEF ComparePair, vars
  <1>5. order' \in [Players -> Players]
    BY <1>2, <1>3 DEF ComparePair
  <1>6. \A a \in Players : a # i /\ a # j => order'[a] = order[a]
    BY <1>2, <1>3 DEF ComparePair
  <1>7. \/ order'[i] = order[i] /\ order'[j] = order[j]
        \/ order'[i] = order[j] /\ order'[j] = order[i]
    BY <1>1, <1>2, <1>3 DEF ComparePair
  <1>8. /\ score[order'[i]] >= score[order'[j]]
        /\ score[order'[i]] >= score[order[i]]
        /\ score[order'[i]] >= score[order[j]]
    <2>1. score[order[i]] \in Nat /\ score[order[j]] \in Nat
      BY <1>2, <1>3
    <2>2. CASE score[order[j]] > score[order[i]]
      <3>1. order'[i] = order[j] /\ order'[j] = order[i]
        BY <1>1, <1>2, <1>3, <2>2 DEF ComparePair
      <3>. QED
        BY <2>1, <2>2, <3>1
    <2>3. CASE ~(score[order[j]] > score[order[i]])
      <3>1. order' = order
        BY <2>3 DEF ComparePair
      <3>. QED
        BY <2>1, <2>3, <3>1
    <2>. QED
      BY <2>2, <2>3
  <1>9. \A p \in Players : \E pos \in Players : order'[pos] = p
    <2> SUFFICES ASSUME NEW p \in Players PROVE \E pos \in Players : order'[pos] = p
      OBVIOUS
    <2>1. PICK pos \in Players : order[pos] = p
      BY DEF SortInv
    <2>. QED
      BY <1>2, <1>6, <1>7, <2>1
  <1>10. \A a, b \in Players : order'[a] = order'[b] => a = b
    BY <1>1, <1>2, <1>6, <1>7 DEF SortInv
  (* Whatever was at the positions from i on still is.                     *)
  <1>11. \A b \in Players : i <= b => \E c \in Players : i <= c /\ order'[b] = order[c]
    BY <1>1, <1>2, <1>6, <1>7
  <1>12. \A a, b \in Players : a < i /\ a < b => score[order'[a]] >= score[order'[b]]
    <2> SUFFICES ASSUME NEW a \in Players, NEW b \in Players, a < i, a < b
                 PROVE  score[order'[a]] >= score[order'[b]]
      OBVIOUS
    <2>1. order'[a] = order[a]
      BY <1>1, <1>2, <1>6
    <2>2. CASE b < i
      BY <1>1, <1>2, <1>6, <2>1, <2>2 DEF SortInv
    <2>3. CASE i <= b
      <3>1. PICK c \in Players : i <= c /\ order'[b] = order[c]
        BY <1>11, <2>3
      <3>2. a < c
        BY <1>1, <1>2, <3>1
      <3>. QED
        BY <2>1, <3>1, <3>2 DEF SortInv
    <2>. QED
      BY <1>1, <1>2, <2>2, <2>3
  <1>13. \A b \in Players : i < b /\ b < j + 1 => score[order'[i]] >= score[order'[b]]
    <2> SUFFICES ASSUME NEW b \in Players, i < b, b < j + 1
                 PROVE  score[order'[i]] >= score[order'[b]]
      OBVIOUS
    <2>1. CASE b = j
      BY <1>8, <2>1
    <2>2. CASE b # j
      <3>1. b \in Nat /\ b < j
        BY <1>1, <1>2, <2>2
      <3>2. score[order[i]] >= score[order[b]]
        BY <3>1 DEF SortInv
      <3>3. order'[b] = order[b]
        BY <1>1, <1>2, <1>6, <2>2
      <3>4. score[order[i]] \in Nat /\ score[order[b]] \in Nat /\ score[order'[i]] \in Nat
        BY <1>2, <1>3, <1>5
      <3>. QED
        BY <1>8, <3>2, <3>3, <3>4
    <2>. QED
      BY <2>1, <2>2
  <1>14. CASE j < PlayersCount - 1
    <2>1. i' = i /\ j' = j + 1
      BY <1>14 DEF ComparePair, NextPair
    <2>2. i' < j' /\ j' < PlayersCount /\ j' \in Nat
      BY <1>1, <1>14, <2>1
    <2>. QED
      BY <1>1, <1>4, <1>5, <1>9, <1>10, <1>12, <1>13, <2>1, <2>2 DEF SortInv
  <1>15. CASE ~(j < PlayersCount - 1)
    <2>1. i' = i + 1 /\ j' = i + 2
      BY <1>15 DEF ComparePair, NextPair
    <2>2. i' \in Nat /\ j' \in Nat /\ i' < j' /\ (~Sorted' => j' < PlayersCount)
      BY <1>1, <2>1 DEF Sorted
    <2>3. \A a, b \in Players : a < i' /\ a < b => score[order'[a]] >= score[order'[b]]
      <3> SUFFICES ASSUME NEW a \in Players, NEW b \in Players, a < i', a < b
                   PROVE  score[order'[a]] >= score[order'[b]]
        OBVIOUS
      <3>1. a < i \/ a = i
        BY <1>1, <1>2, <2>1
      <3>2. b < j + 1
        BY <1>1, <1>2, <1>15
      <3>. QED
        BY <1>12, <1>13, <3>1, <3>2
    <2>4. \A b \in Players : ~(i' < b /\ b < j')
      BY <1>1, <1>2, <2>1
    <2>. QED
      BY <1>4, <1>5, <1>9, <1>10, <2>2, <2>3, <2>4 DEF SortInv
  <1>. QED
    BY <1>14, <1>15

LEMMA SortInvariant == DisplaySpec => []SortInv
  <1>1. DisplayInit => SortInv
    <2> SUFFICES ASSUME DisplayInit PROVE SortInv
      OBVIOUS
    <2>1. \A a \in Players : a \in Nat
      BY BoardAssumption DEF Players
    <2>2. \A b \in Players : ~(b < 0) /\ ~(0 < b /\ b < 1)
      BY <2>1
    <2>3. ~Sorted => 1 < PlayersCount
      BY BoardAssumption DEF Sorted, DisplayInit
    <2>4. order \in [Players -> Players] /\ \A a \in Players : order[a] = a
      BY DEF Unsorted, DisplayInit
    <2>. QED
      BY <2>2, <2>3, <2>4 DEF SortInv, DisplayInit
  <1>2. TypeOK /\ SortInv /\ [DisplayNext]_allVars => SortInv'
    <2> SUFFICES ASSUME TypeOK, SortInv, [DisplayNext]_allVars PROVE SortInv'
      OBVIOUS
    <2>0. \A a \in Players : a \in Nat
      BY BoardAssumption DEF Players
    <2>1. CASE Play
      <3>1. UNCHANGED <<vpc, order, i, j>> /\ i = 0 /\ j = 1
        BY <2>1 DEF Play, displayVars, sortVars, SortInv
      <3>2. \A b \in Players : ~(b < 0) /\ ~(0 < b /\ b < 1)
        BY <2>0
      <3>. QED
        BY <3>1, <3>2 DEF SortInv, Sorted
    <2>2. CASE StartFrame
      BY <2>2 DEF StartFrame, sortVars, vars, SortInv, Sorted
    <2>3. CASE BoardDrawn
      BY <2>3 DEF BoardDrawn, sortVars, vars, SortInv, Sorted
    <2>4. CASE ComparePair
      BY <2>4, CompareKeepsSorting
    <2>5. CASE PanelsDrawn
      BY <2>5, UnsortedInv DEF PanelsDrawn
    <2>6. CASE UNCHANGED allVars
      BY <2>6 DEF allVars, displayVars, sortVars, vars, SortInv, Sorted
    <2>. QED
      BY <2>1, <2>2, <2>3, <2>4, <2>5, <2>6 DEF DisplayNext
  <1>. QED
    BY <1>1, <1>2, ShownIsGame, TypeCorrect, PTL DEF DisplaySpec

(* The panels and the last screen show every player once, in order of      *)
(* score, for any number of players.                                       *)
THEOREM Ranked == DisplaySpec => []RankedByScore
  <1>1. SortInv => RankedByScore
    <2> SUFFICES ASSUME SortInv, Sorted
                 PROVE  /\ {order[pos] : pos \in Players} = Players
                        /\ \A a, b \in Players : a < b => score[order[a]] >= score[order[b]]
      BY DEF RankedByScore
    <2>1. {order[pos] : pos \in Players} = Players
      BY DEF SortInv
    <2>2. ASSUME NEW a \in Players, NEW b \in Players, a < b PROVE a < i
      BY <2>2, BoardAssumption DEF Players, SortInv, Sorted
    <2>. QED
      BY <2>1, <2>2 DEF SortInv
  <1>. QED
    BY <1>1, SortInvariant, PTL

-----------------------------------------------------------------------------
(* The picture                                                             *)

(* The board can be laid out in int16_t: up to 10922 columns.  (A board    *)
(* with 32767 rows is not a board the view can frame.)                     *)
LaidOutExactly == Width * CELL_WIDTH < 32767 /\ Height < 32767

LEMMA Int16Small == \A n \in Nat : n < 32768 => Int16(n) = n
  <1> SUFFICES ASSUME NEW n \in Nat, n < 32768 PROVE Int16(n) = n
    OBVIOUS
  <1>1. Uint16(n) = n
    BY Uint16Small
  <1>. QED
    BY <1>1 DEF Int16

LEMMA MaxOfTwo ==
  ASSUME NEW a \in Int, NEW b \in Int
  PROVE  Max({a, b}) = IF a >= b THEN a ELSE b
  <1>1. \E m \in {a, b} : \A n \in {a, b} : m >= n
    OBVIOUS
  <1>2. Max({a, b}) \in {a, b} /\ \A n \in {a, b} : Max({a, b}) >= n
    BY <1>1 DEF Max
  <1>. QED
    BY <1>2

(* What is centred stays within the room, or starts at 0 if it is larger.  *)
Within(start, room, size) ==
  /\ room >= size => 2 * start + size <= room
  /\ room < size => start = 0

LEMMA CentredFits ==
  \A room, size \in Nat : size < 32768 =>
    Centred(room, size) \in Nat /\ Within(Centred(room, size), room, size)
  <1> SUFFICES ASSUME NEW room \in Nat, NEW size \in Nat, size < 32768
               PROVE  Centred(room, size) \in Nat /\ Within(Centred(room, size), room, size)
    OBVIOUS
  <1>1. Int16(size) = size
    BY Int16Small
  <1> DEFINE half == (room - size) \div 2
  <1>2. half \in Int /\ 2 * half <= room - size /\ room - size < 2 * half + 2
    BY SMTT(20)
  <1> HIDE DEF half
  <1>3. Max({0, half}) = IF 0 >= half THEN 0 ELSE half
    BY <1>2, MaxOfTwo
  <1>4. Centred(room, size) = IF 0 >= half THEN 0 ELSE half
    BY <1>1, <1>3 DEF Centred, half
  <1>. QED
    BY <1>2, <1>4 DEF Within

(* Rows and columns land where the layout puts them, without wrapping.     *)
LEMMA PlacesExact ==
  ASSUME LaidOutExactly, view \in Terminals
  PROVE  /\ XOffset \in Nat /\ YOffset \in Nat
         /\ BoardRows \in Nat /\ BoardRows < 32768 /\ view.cols \in Nat /\ view.cols < 32768
         /\ \A row \in 0 .. Height - 1 : ScreenY(row) = YOffset + row
         /\ \A col \in 0 .. Width - 1 : ScreenX(col) = XOffset + 3 * col
         /\ IF Height <= BoardRows THEN 2 * YOffset + Height <= BoardRows ELSE YOffset = 0
         /\ IF 3 * Width <= view.cols THEN 2 * XOffset + 3 * Width <= view.cols ELSE XOffset = 0
  <1>1. view.rows \in Nat /\ view.rows < 32768 /\ view.cols \in Nat /\ view.cols < 32768
    BY TerminalAssumption
  <1>2. /\ Width \in Nat /\ Height \in Nat /\ Height < 32767
        /\ Width * CELL_WIDTH = 3 * Width /\ 3 * Width \in Nat /\ 3 * Width < 32767
    BY BoardAssumption DEF LaidOutExactly, CELL_WIDTH
  <1>3. BoardRows \in Nat /\ BoardRows < 32768
    <2>1. view.rows - 5 \in Int /\ view.rows - 5 < 32768
      BY <1>1
    <2>2. Max({1, view.rows - 5}) = IF 1 >= view.rows - 5 THEN 1 ELSE view.rows - 5
      BY <2>1, MaxOfTwo
    <2>3. BoardRows = Max({1, view.rows - 5})
      BY DEF BoardRows, PANEL_HEIGHT
    <2>. QED
      BY <2>1, <2>2, <2>3
  <1>4. /\ YOffset \in Nat
        /\ BoardRows >= Height => 2 * YOffset + Height <= BoardRows
        /\ BoardRows < Height => YOffset = 0
    <2>1. Height < 32768
      BY <1>2
    <2>2. YOffset \in Nat /\ Within(YOffset, BoardRows, Height)
      BY <1>2, <1>3, <2>1, CentredFits DEF YOffset
    <2>. QED
      BY <2>2 DEF Within
  <1>5. /\ XOffset \in Nat
        /\ view.cols >= 3 * Width => 2 * XOffset + 3 * Width <= view.cols
        /\ view.cols < 3 * Width => XOffset = 0
    <2> DEFINE wide == Width * CELL_WIDTH
    <2>1. wide \in Nat /\ wide < 32768 /\ wide = 3 * Width
      BY <1>2
    <2>2. XOffset = Centred(view.cols, wide) /\ view.cols \in Nat
      BY <1>1 DEF XOffset
    <2> HIDE DEF wide
    <2>3. XOffset \in Nat /\ Within(XOffset, view.cols, wide)
      BY <2>1, <2>2, CentredFits
    <2>. QED
      BY <2>1, <2>3 DEF Within
  <1>6. ASSUME NEW row \in 0 .. Height - 1 PROVE ScreenY(row) = YOffset + row
    <2>1. row \in Nat /\ row < 32768 /\ YOffset + row \in Nat /\ YOffset + row < 32768
      BY <1>2, <1>3, <1>4
    <2>2. Int16(row) = row /\ Int16(YOffset + row) = YOffset + row
      BY <2>1, Int16Small
    <2>. QED
      BY <2>2 DEF ScreenY
  <1>7. ASSUME NEW col \in 0 .. Width - 1 PROVE ScreenX(col) = XOffset + 3 * col
    <2>1. /\ col * 3 = 3 * col /\ XOffset + 3 * col \in Nat /\ XOffset + 3 * col < 32768
      BY <1>1, <1>2, <1>5
    <2>2. Int16(XOffset + 3 * col) = XOffset + 3 * col
      BY <2>1, Int16Small
    <2>3. ScreenX(col) = Int16(XOffset + col * 3)
      BY DEF ScreenX, CELL_WIDTH
    <2>. QED
      BY <2>1, <2>2, <2>3
  <1>. QED
    BY <1>1, <1>2, <1>3, <1>4, <1>5, <1>6, <1>7

(* A cell is painted as p's exactly if p owns it.                          *)
LEMMA DrawnAsOwner ==
  ASSUME TypeOK, StandsOnOwnCell, phase = "playing", NEW p \in Players,
         NEW row \in 0 .. Height - 1, NEW col \in 0 .. Width - 1
  PROVE  DrawnAs(row, col) = p <=> board[Offset(row, col)] = -p
  <1> DEFINE there == {q \in Players : x[q] = col /\ y[q] = row}
             cell == board[Offset(row, col)]
  <1>1. \A q \in Players : q \in Nat
    BY BoardAssumption DEF Players
  <1>2. cell \in Int
    BY OffsetInRange DEF TypeOK
  <1>3. CASE there = {}
    <2>1. PlayerAt(row, col) = NO_PLAYER
      BY <1>3 DEF PlayerAt
    <2>2. DrawnAs(row, col) = IF cell > 0 THEN NO_PLAYER ELSE -cell
      BY <2>1 DEF DrawnAs
    <2> HIDE DEF cell
    <2>3. DrawnAs(row, col) = p <=> cell = -p
      BY <1>1, <1>2, <2>2 DEF NO_PLAYER
    <2>. QED
      BY <2>3 DEF cell
  <1>4. CASE there # {}
    <2>1. \A q \in there : cell = -q
      BY DEF StandsOnOwnCell
    <2>2. PICK q \in there : TRUE
      BY <1>4
    <2> HIDE DEF cell
    <2>3. q \in Players /\ there = {q}
      BY <1>1, <2>1, <2>2
    <2>4. Min({q}) = q
      BY <1>1, <2>3 DEF Min
    <2>5. PlayerAt(row, col) = q
      BY <2>3, <2>4 DEF PlayerAt
    <2>6. DrawnAs(row, col) = q
      BY <1>1, <2>3, <2>5 DEF DrawnAs, NO_PLAYER
    <2>7. DrawnAs(row, col) = p <=> cell = -p
      BY <1>1, <2>1, <2>2, <2>3, <2>6
    <2>. QED
      BY <2>7 DEF cell
  <1>. QED
    BY <1>3, <1>4

(* Every cell of the array is that of one row and one column.              *)
LEMMA CellOfOffset ==
  ASSUME NEW o \in Offsets
  PROVE  \E row \in 0 .. Height - 1, col \in 0 .. Width - 1 : Offset(row, col) = o
  <1>1. /\ Width \in Nat \ {0} /\ Height \in Nat /\ Width * Height \in Nat
        /\ o \in Nat /\ o < Width * Height
    BY BoardAssumption DEF Offsets
  <1> DEFINE row == o \div Width
             col == o % Width
  <1>2. row \in Nat /\ col \in 0 .. Width - 1 /\ o - Width * row = col
    BY <1>1, Quotient
  <1> HIDE DEF row, col
  <1>3. row * Width \in Nat /\ Width * row = row * Width
    BY <1>1, <1>2
  <1>4. row * Width + col = o
    BY <1>1, <1>2, <1>3
  <1>5. row < Height
    <2>1. CASE Height < row
      <3>1. Height * Width + Width <= row * Width
        BY <1>1, <1>2, <2>1, MoreRows
      <3>2. Height * Width = Width * Height
        BY <1>1
      <3>. QED
        BY <1>1, <1>2, <1>3, <1>4, <3>1, <3>2
    <2>2. CASE Height = row
      <3>1. row * Width = Width * Height
        BY <1>1, <2>2
      <3>. QED
        BY <1>1, <1>2, <1>4, <3>1
    <2>. QED
      BY <1>1, <1>2, <2>1, <2>2
  <1>6. row \in 0 .. Height - 1
    BY <1>1, <1>2, <1>5
  <1>. QED
    BY <1>2, <1>4, <1>6 DEF Offset

(* Where every cell is visible, as many are painted for a player as it     *)
(* owns.                                                                   *)
LEMMA ShownAsMany ==
  ASSUME TypeOK, StandsOnOwnCell, phase = "playing", NEW p \in Players,
         VisibleRows = 0 .. Height - 1, VisibleCols = 0 .. Width - 1
  PROVE  Cardinality(ShownAs(p)) = Cardinality(Owned(p))
  <1> DEFINE f == [c \in ShownAs(p) |-> Offset(c[1], c[2])]
  <1>1. ASSUME NEW c \in ShownAs(p)
        PROVE  /\ c[1] \in 0 .. Height - 1 /\ c[2] \in 0 .. Width - 1 /\ c = <<c[1], c[2]>>
               /\ f[c] \in Owned(p)
    <2>1. /\ c[1] \in 0 .. Height - 1 /\ c[2] \in 0 .. Width - 1 /\ c = <<c[1], c[2]>>
          /\ DrawnAs(c[1], c[2]) = p
      BY DEF ShownAs
    <2>2. Offset(c[1], c[2]) \in Offsets /\ board[Offset(c[1], c[2])] = -p
      BY <2>1, OffsetInRange, DrawnAsOwner
    <2>. QED
      BY <2>1, <2>2 DEF Owned
  <1>2. ASSUME NEW b \in ShownAs(p), NEW c \in ShownAs(p), f[b] = f[c] PROVE b = c
    <2>1. b[1] \in Nat /\ c[1] \in Nat
      BY <1>1
    <2>2. b[1] = c[1] /\ b[2] = c[2]
      BY <1>1, <1>2, <2>1, OffsetInjective
    <2>. QED
      BY <1>1, <2>2
  <1>3. ASSUME NEW o \in Owned(p) PROVE \E c \in ShownAs(p) : f[c] = o
    <2>1. o \in Offsets /\ board[o] = -p
      BY DEF Owned
    <2>2. PICK row \in 0 .. Height - 1, col \in 0 .. Width - 1 : Offset(row, col) = o
      BY <2>1, CellOfOffset
    <2>3. <<row, col>> \in ShownAs(p)
      BY <2>1, <2>2, DrawnAsOwner DEF ShownAs
    <2>. QED
      BY <2>2, <2>3
  <1>4. f \in Bijection(ShownAs(p), Owned(p))
    <2>1. f \in [ShownAs(p) -> Owned(p)]
      BY <1>1
    <2> HIDE DEF f
    <2>. QED
      BY <1>2, <1>3, <2>1 DEF Bijection, Injection, Surjection, IsInjective
  <1>5. f \in Injection(ShownAs(p), Owned(p)) /\ f \in Surjection(ShownAs(p), Owned(p))
    BY <1>4 DEF Bijection
  <1> HIDE DEF f
  <1>. QED
    BY <1>5, OwnedFinite, FS_Injection

(* The frame being drawn is of a game that has begun.                      *)
DrawingInv == vpc = "board" => view \in Terminals /\ phase = "playing"

LEMMA DrawingInvariant == DisplaySpec => []DrawingInv
  <1>1. DisplayInit => DrawingInv
    BY DEF DisplayInit, DrawingInv
  <1>2. DrawingInv /\ [DisplayNext]_allVars => DrawingInv'
    BY DEF DrawingInv, DisplayNext, allVars, vars, displayVars, Play, StartFrame, BoardDrawn,
           ComparePair, PanelsDrawn
  <1>. QED
    BY <1>1, <1>2, PTL DEF DisplaySpec

(* On a board with room for the players, and laid out in int16_t without   *)
(* wrapping, every picture agrees with the panels below it.                *)
THEOREM PictureAgrees ==
  ASSUME Roomy, LaidOutExactly PROVE DisplaySpec => []PictureMatchesPanels
  <1>1. TypeOK /\ StandsOnOwnCell /\ MovesMatchCells /\ DrawingInv => PictureMatchesPanels
    <2> SUFFICES ASSUME TypeOK, StandsOnOwnCell, MovesMatchCells,
                        view \in Terminals, phase = "playing"
                 PROVE
          /\ \A r1, r2 \in VisibleRows : r1 < r2 => ScreenY(r1) < ScreenY(r2)
          /\ \A c1, c2 \in VisibleCols : c1 < c2 => ScreenX(c1) + CELL_WIDTH <= ScreenX(c2)
          /\ Fits => \A p \in Players : Cardinality(ShownAs(p)) = valid_moves[p] + 1
      BY DEF DrawingInv, PictureMatchesPanels
    <2>1. /\ XOffset \in Nat /\ YOffset \in Nat /\ BoardRows \in Nat /\ view.cols \in Nat
          /\ \A row \in 0 .. Height - 1 : ScreenY(row) = YOffset + row
          /\ \A col \in 0 .. Width - 1 : ScreenX(col) = XOffset + 3 * col
          /\ Height <= BoardRows => YOffset + Height <= BoardRows
          /\ 3 * Width <= view.cols => XOffset + 3 * Width <= view.cols
      BY PlacesExact, BoardAssumption
    <2>2. Width \in Nat /\ Height \in Nat /\ Width * CELL_WIDTH = 3 * Width
      BY BoardAssumption DEF CELL_WIDTH
    <2>3. ASSUME NEW r1 \in VisibleRows, NEW r2 \in VisibleRows, r1 < r2
          PROVE  ScreenY(r1) < ScreenY(r2)
      <3>1. ScreenY(r1) = YOffset + r1 /\ ScreenY(r2) = YOffset + r2 /\ r1 \in Nat /\ r2 \in Nat
        BY <2>1, <2>2 DEF VisibleRows
      <3>. QED
        BY <2>1, <2>3, <3>1
    <2>4. ASSUME NEW c1 \in VisibleCols, NEW c2 \in VisibleCols, c1 < c2
          PROVE  ScreenX(c1) + CELL_WIDTH <= ScreenX(c2)
      <3>1. /\ ScreenX(c1) = XOffset + 3 * c1 /\ ScreenX(c2) = XOffset + 3 * c2
            /\ c1 \in Nat /\ c2 \in Nat
        BY <2>1, <2>2 DEF VisibleCols
      <3>. QED
        BY <2>1, <2>4, <3>1 DEF CELL_WIDTH
    <2>5. ASSUME Fits, NEW p \in Players PROVE Cardinality(ShownAs(p)) = valid_moves[p] + 1
      <3>1. YOffset + Height <= BoardRows /\ XOffset + 3 * Width <= view.cols
        BY <2>1, <2>2, <2>5 DEF Fits
      <3>2. VisibleRows = 0 .. Height - 1
        <4>1. ASSUME NEW row \in 0 .. Height - 1 PROVE ScreenY(row) >= 0 /\ ScreenY(row) < BoardRows
          BY <2>1, <2>2, <3>1
        <4>. QED
          BY <4>1 DEF VisibleRows
      <3>3. VisibleCols = 0 .. Width - 1
        <4>1. ASSUME NEW col \in 0 .. Width - 1
              PROVE  ScreenX(col) >= 0 /\ ScreenX(col) + CELL_WIDTH <= view.cols
          BY <2>1, <2>2, <3>1 DEF CELL_WIDTH
        <4>. QED
          BY <4>1 DEF VisibleCols
      <3>4. Cardinality(ShownAs(p)) = Cardinality(Owned(p))
        BY <3>2, <3>3, ShownAsMany
      <3>. QED
        BY <3>4 DEF MovesMatchCells
    <2>. QED
      BY <2>3, <2>4, <2>5
  <1>. QED
    BY <1>1, ShownIsGame, TypeCorrect, OwnCell, MovesMatch, DrawingInvariant, PTL

(* The border of such a board is drawn in finitely many steps: the rings   *)
(* are as many as the margins allow, so their far sides stay on the        *)
(* terminal, or one where there is no margin.                              *)
THEOREM BordersEnd == ASSUME LaidOutExactly PROVE DisplaySpec => []BorderEnds
  <1>1. DrawingInv => BorderEnds
    <2> SUFFICES ASSUME view \in Terminals, NEW ring \in 0 .. Rings - 1
                 PROVE  RingRight(ring) < 32767 /\ RingBottom(ring) < 32767
      BY DEF DrawingInv, BorderEnds
    <2>1. /\ XOffset \in Nat /\ YOffset \in Nat
          /\ BoardRows \in Nat /\ BoardRows < 32768 /\ view.cols \in Nat /\ view.cols < 32768
          /\ IF Height <= BoardRows THEN 2 * YOffset + Height <= BoardRows ELSE YOffset = 0
          /\ IF 3 * Width <= view.cols THEN 2 * XOffset + 3 * Width <= view.cols ELSE XOffset = 0
      BY PlacesExact
    <2>2. /\ Width \in Nat /\ Height \in Nat /\ Height < 32767
          /\ Width * CELL_WIDTH = 3 * Width /\ 3 * Width < 32767
      BY BoardAssumption DEF LaidOutExactly, CELL_WIDTH
    <2> DEFINE h == XOffset \div 3
               v == YOffset \div 2
    <2>3. h \in Nat /\ v \in Nat /\ 3 * h <= XOffset /\ 2 * v <= YOffset
      BY <2>1, SMTT(20)
    <2>4. ring \in Nat /\ (ring = 0 \/ (ring + 1 <= h /\ ring + 1 <= v))
      <3> DEFINE S == {4, h, v}
      <3>1. \E m \in S : \A n \in S : m <= n
        BY <2>3
      <3>2. Min(S) \in S /\ \A n \in S : Min(S) <= n
        BY <3>1 DEF Min
      <3>3. Min(S) \in Int /\ Min(S) <= h /\ Min(S) <= v
        BY <2>3, <3>2
      <3>4. Rings = Max({1, Min(S)})
        BY DEF Rings
      <3> HIDE DEF S, h, v
      <3>5. Rings = IF 1 >= Min(S) THEN 1 ELSE Min(S)
        BY <3>3, <3>4, MaxOfTwo
      <3>. QED
        BY <2>3, <3>3, <3>5
    <2>5. /\ XOffset + 3 * Width + ring * 2 \in Nat /\ XOffset + 3 * Width + ring * 2 < 32767
          /\ YOffset + Height + ring \in Nat /\ YOffset + Height + ring < 32767
      <3> HIDE DEF h, v
      <3>. QED
        BY <2>1, <2>2, <2>3, <2>4
    <2>6. /\ Int16(XOffset + 3 * Width + ring * 2) = XOffset + 3 * Width + ring * 2
          /\ Int16(YOffset + Height + ring) = YOffset + Height + ring
      BY <2>5, Int16Small
    <2>. QED
      BY <2>2, <2>5, <2>6 DEF RingRight, RingBottom
  <1>. QED
    BY <1>1, DrawingInvariant, PTL

(* What the view shows of such a game is the game.                         *)
THEOREM FramesTruthful ==
  ASSUME Roomy, LaidOutExactly PROVE DisplaySpec => []FrameTruthful
  <1>1. PictureMatchesPanels /\ BorderEnds /\ RankedByScore => FrameTruthful
    BY DEF FrameTruthful
  <1>. QED
    BY <1>1, PictureAgrees, BordersEnd, Ranked, PTL
=============================================================================
