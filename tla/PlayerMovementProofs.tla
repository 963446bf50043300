------------------------ MODULE PlayerMovementProofs ------------------------
(* Proofs about the strategies, for any mix of them on boards of every     *)
(* size the program accepts; what needs a bound on the size assumes it.    *)
EXTENDS PlayerMovement, GameAdminProofs, SequenceTheorems

-----------------------------------------------------------------------------
(* A match is a game: every step is one of GameAdmin's or leaves the game  *)
(* alone, so what GameAdminProofs establishes holds in matches too.        *)

MoverBasics ==
  /\ strategy \in [Players -> AllStrategies]
  /\ me \in Players
  /\ move \in Directions \union {NO_VALID_MOVE}

LEMMA BestMovesType ==
  ASSUME MoverBasics
  PROVE  BestMoves \subseteq Directions \union {NO_VALID_MOVE}
  <1>1. FreeDirections(Here) \subseteq Directions /\ Survivors \subseteq Directions
    BY DEF FreeDirections, Survivors
  <1>2. ASSUME NEW S \in SUBSET Directions, NEW v
        PROVE  Best(S, v) \in SUBSET Directions
    BY DEF Best
  <1>3. ASSUME NEW S \in SUBSET Directions
        PROVE  First(S) \subseteq Directions \union {NO_VALID_MOVE}
    BY DEF First
  <1>4. strategy[me] \in AllStrategies
    BY DEF MoverBasics
  <1> DEFINE free == FreeDirections(Here)
  <1>5. First(Best(free, Reward)) \subseteq Directions \union {NO_VALID_MOVE}
    BY <1>1, <1>2, <1>3
  <1>6. First(Best(free, Cost)) \subseteq Directions \union {NO_VALID_MOVE}
    BY <1>1, <1>2, <1>3
  <1>7. First(Best(free, Lookahead)) \subseteq Directions \union {NO_VALID_MOVE}
    BY <1>1, <1>2, <1>3
  <1>8. First(Best(free, floods)) \subseteq Directions \union {NO_VALID_MOVE}
    BY <1>1, <1>2, <1>3
  <1>9. First(Best(Best(Survivors, Reward), floods)) \subseteq Directions \union {NO_VALID_MOVE}
    BY <1>1, <1>2, <1>3
  <1>. QED
    BY <1>1, <1>4, <1>5, <1>6, <1>7, <1>8, <1>9 DEF BestMoves, AllStrategies

LEMMA BasicsInvariant == MatchSpec => []MoverBasics
  <1>1. MatchInit => MoverBasics
    BY BoardAssumption DEF MatchInit, MoverBasics, Players
  <1>2. MoverBasics /\ [MatchNext]_matchVars => MoverBasics'
    <2> SUFFICES ASSUME MoverBasics, [MatchNext]_matchVars PROVE MoverBasics'
      OBVIOUS
    <2>1. CASE Decide
      BY <2>1, BestMovesType DEF Decide, MoverBasics
    <2>2. ASSUME NEW p \in Players, ComputeNextMove(p) PROVE MoverBasics'
      BY <2>2 DEF ComputeNextMove, MoverBasics
    <2>3. CASE UNCHANGED <<strategy, me, move>>
      BY <2>3 DEF MoverBasics
    <2>4. CASE Send
      BY <2>4 DEF Send, MoverBasics
    <2>. QED
      BY <2>1, <2>2, <2>3, <2>4
      DEF MatchNext, matchVars, moverVars, Setup, SkipDirection, FloodFails, FloodStarts, PopCell,
          Spread, PassOver, FloodReturns, GiveUp
  <1>. QED
    BY <1>1, <1>2, PTL DEF MatchSpec

LEMMA MatchStep == MoverBasics /\ [MatchNext]_matchVars => [Next]_vars
  <1> SUFFICES ASSUME MoverBasics, MatchNext PROVE [Next]_vars
    BY DEF matchVars
  <1>1. CASE Setup
    BY <1>1 DEF Setup, Next
  <1>2. CASE Send
    <2>1. ProcessPlayerMove(me, move) /\ me \in Players /\ move \in Wire
      BY <1>2 DEF Send, MoverBasics, Wire, Directions, dir_count
    <2>. QED
      BY <2>1 DEF Next
  <1>3. CASE UNCHANGED vars
    BY <1>3
  <1>. QED
    BY <1>1, <1>2, <1>3
    DEF MatchNext, matchVars, ComputeNextMove, SkipDirection, FloodFails, FloodStarts, PopCell,
        Spread, PassOver, FloodReturns, Decide, GiveUp

(* A match with any strategies is a game as GameAdmin specifies it.        *)
THEOREM MatchIsGame == MatchSpec => Spec
  <1>1. MatchInit => Init
    BY DEF MatchInit
  <1>. QED
    BY <1>1, BasicsInvariant, MatchStep, PTL DEF MatchSpec, Spec

LEMMA BoardTyped == MatchSpec => []TypeOK
  <1>. QED
    BY MatchIsGame, TypeCorrect

-----------------------------------------------------------------------------
(* Types: the cells a player computes with are on the board.               *)

LEMMA NeighborType ==
  ASSUME NEW c, NEW dd, InBounds(Neighbor(c, dd)),
         c[1] + DeltaX(dd) \in Int, c[2] + DeltaY(dd) \in Int
  PROVE  Neighbor(c, dd) \in Cells
  <1>1. Int16(c[1] + DeltaX(dd)) \in Int /\ Int16(c[2] + DeltaY(dd)) \in Int
    BY DEF Int16, Uint16
  <1>. QED
    BY <1>1, BoardAssumption DEF InBounds, Neighbor, Cells

LEMMA DeltaType == \A dd \in Directions : DeltaX(dd) \in -1 .. 1 /\ DeltaY(dd) \in -1 .. 1
  BY DEF DeltaX, DeltaY

(* A free neighbour of the player or of a cell on the board is on the      *)
(* board; of the cell's initial value, too.                                *)
LEMMA FreeOnBoard ==
  /\ \A c \in Cells \union {<<0, 0>>}, dd \in Directions : IsFreeNeighbor(c, dd) => Neighbor(c, dd) \in Cells
  /\ TypeOK /\ me \in Players =>
       \A dd \in Directions : IsFreeNeighbor(Here, dd) => Neighbor(Here, dd) \in Cells
  <1>1. ASSUME NEW c \in Cells \union {<<0, 0>>}, NEW dd \in Directions, IsFreeNeighbor(c, dd)
        PROVE  Neighbor(c, dd) \in Cells
    <2>1. c[1] \in Int /\ c[2] \in Int
      BY <1>1, BoardAssumption DEF Cells
    <2>. QED
      BY <1>1, <2>1, DeltaType, NeighborType DEF IsFreeNeighbor
  <1>2. ASSUME TypeOK, me \in Players, NEW dd \in Directions, IsFreeNeighbor(Here, dd)
        PROVE  Neighbor(Here, dd) \in Cells
    <2>1. x[me] \in Int /\ y[me] \in Int
      BY <1>2, BoardAssumption DEF TypeOK
    <2>2. Here[1] \in Int /\ Here[2] \in Int
      BY <2>1 DEF Here, Int16, Uint16
    <2>. QED
      BY <1>2, <2>2, DeltaType, NeighborType DEF IsFreeNeighbor
  <1>. QED
    BY <1>1, <1>2

(* flood_count is called for a direction, and nobody computes before the   *)
(* players are placed.                                                     *)
FloodCalled ==
  /\ pc = "flood" => dir \in Directions
  /\ pc # "idle" => phase = "playing"

LEMMA MoverTypeStep ==
  ASSUME TypeOK, MoverBasics', MoverTypeOK, FloodCalled, [MatchNext]_matchVars
  PROVE  MoverTypeOK' /\ FloodCalled'
  <1>0. /\ strategy' \in [Players -> AllStrategies] /\ me' \in Players
        /\ move' \in Directions \union {NO_VALID_MOVE}
    BY DEF MoverBasics
  <1>1. me \in Players /\ dir \in 0 .. 8 /\ d \in 0 .. 8 /\ Directions = 0 .. 7 /\ dir_count = 8
    BY DEF MoverTypeOK, dir_count, Directions
  <1>2. ASSUME NEW p \in Players, ComputeNextMove(p) PROVE MoverTypeOK' /\ FloodCalled'
    BY <1>0, <1>1, <1>2 DEF ComputeNextMove, MoverTypeOK, FloodCalled, vars, floodVars
  <1>3. CASE SkipDirection \/ FloodFails
    <2>1. dir' \in 0 .. dir_count
      BY <1>1, <1>3, StrategyAssumption DEF SkipDirection, FloodFails
    <2>. QED
      BY <1>0, <1>3, <2>1 DEF SkipDirection, FloodFails, MoverTypeOK, FloodCalled, vars, floodVars
  <1>4. CASE FloodStarts
    <2>1. dir \in Directions
      BY <1>1, <1>4 DEF FloodStarts
    <2>2. Neighbor(Here, dir) \in Cells
      BY <1>1, <1>4, <2>1, FreeOnBoard DEF FloodStarts
    <2>. QED
      BY <1>0, <1>1, <1>4, <2>2 DEF FloodStarts, MoverTypeOK, FloodCalled, vars, scanVars
  <1>5. CASE PopCell
    <2>1. stack \in Seq(Cells) /\ stack # <<>>
      BY <1>5 DEF PopCell, MoverTypeOK
    <2>2. Last(stack) \in Cells /\ Front(stack) \in Seq(Cells)
      BY <2>1 DEF Last, Front
    <2>. QED
      BY <1>0, <1>1, <1>5, <2>2 DEF PopCell, MoverTypeOK, FloodCalled, vars, scanVars
  <1>6. CASE Spread
    <2>1. d \in Directions /\ d + 1 \in 0 .. 8 /\ cell \in Cells \union {<<0, 0>>} /\ count + 1 \in Nat
      BY <1>1, <1>6 DEF Spread, MoverTypeOK
    <2>2. Neighbor(cell, d) \in Cells
      BY <1>6, <2>1, FreeOnBoard DEF Spread
    <2>3. stack' \in Seq(Cells) /\ visited' \subseteq Cells
      BY <1>6, <2>2 DEF Spread, MoverTypeOK
    <2>. QED
      BY <1>0, <1>1, <1>6, <2>1, <2>3 DEF Spread, MoverTypeOK, FloodCalled, vars, scanVars
  <1>7. CASE PassOver
    <2>1. d + 1 \in 0 .. 8
      BY <1>1, <1>7 DEF PassOver
    <2>. QED
      BY <1>0, <1>1, <1>7, <2>1 DEF PassOver, MoverTypeOK, FloodCalled, vars, scanVars
  <1>8. CASE FloodReturns
    <2>1. floods' \in [Directions -> Nat]
      BY <1>8 DEF FloodReturns, FloodDone, MoverTypeOK
    <2>3. dir' \in 0 .. dir_count
      BY <1>1, <1>8 DEF FloodReturns, FloodDone, FloodCalled
    <2>4. /\ visited' = {} /\ count' = 0 /\ cell' = <<0, 0>> /\ pc' = "scan"
          /\ gone' = gone /\ stack' = stack /\ d' = d
      BY <1>8 DEF FloodReturns
    <2>5. gone \subseteq Players /\ stack \in Seq(Cells) /\ d \in 0 .. dir_count /\ phase' = phase
      BY <1>8 DEF MoverTypeOK, FloodReturns, vars
    <2>6. pc = "flood"
      BY <1>8 DEF FloodReturns, FloodDone
    <2>. QED
      BY <1>0, <2>1, <2>3, <2>4, <2>5, <2>6 DEF MoverTypeOK, FloodCalled
  <1>9. CASE Decide \/ Send \/ GiveUp
    <2>1. gone' \subseteq Players /\ pc' \in {"idle", "decided"}
      BY <1>1, <1>9 DEF Decide, Send, GiveUp, MoverTypeOK
    <2>. QED
      BY <1>0, <1>9, <2>1 DEF Decide, Send, GiveUp, MoverTypeOK, FloodCalled, vars, scanVars, floodVars
  <1>10. CASE UNCHANGED matchVars
    BY <1>10 DEF matchVars, vars, moverVars, scanVars, floodVars, MoverTypeOK, FloodCalled
  <1>11. CASE Setup
    BY <1>11 DEF Setup, RegisterPlayers, PlacePlayers, moverVars, scanVars, floodVars, MoverTypeOK, FloodCalled
  <1>. QED
    BY <1>2, <1>3, <1>4, <1>5, <1>6, <1>7, <1>8, <1>9, <1>10, <1>11
    DEF MatchNext, Setup, matchVars

(* Type correctness of a player's computation.                             *)
THEOREM MoverTypeCorrect == MatchSpec => [](MoverTypeOK /\ FloodCalled)
  <1>1. MatchInit => MoverTypeOK /\ FloodCalled
    <2> SUFFICES ASSUME MatchInit PROVE MoverTypeOK /\ FloodCalled
      OBVIOUS
    <2>1. 0 \in Players
      BY BoardAssumption DEF Players
    <2>. QED
      BY <2>1 DEF MatchInit, MoverTypeOK, FloodCalled, Directions, dir_count
  <1>2. TypeOK /\ MoverBasics' /\ MoverTypeOK /\ FloodCalled /\ [MatchNext]_matchVars =>
          (MoverTypeOK /\ FloodCalled)'
    BY MoverTypeStep
  <1>. QED
    BY <1>1, <1>2, BoardTyped, BasicsInvariant, PTL DEF MatchSpec

-----------------------------------------------------------------------------
(* flood_count.  Its invariant: what is on the stack is visited and has    *)
(* been counted; a visited cell is on the stack, or is being looked at up  *)
(* to direction d, or has only visited cells around it; and no cell is     *)
(* visited that is not forced.                                             *)

FloodCounts ==
  /\ pc # "flood" => stack = <<>>
  /\ pc = "flood" =>
       /\ count + 1 = Cardinality(visited) /\ Len(stack) <= count + 1
       /\ Neighbor(Here, dir) \in visited
       /\ \A i \in 1 .. Len(stack) : stack[i] \in visited
       /\ d < dir_count => cell \in visited

FloodHandled ==
  pc = "flood" =>
    \A c \in visited :
      \/ \E i \in 1 .. Len(stack) : stack[i] = c
      \/ \A e \in Directions : (c = cell => e < d) /\ IsFreeNeighbor(c, e) => Neighbor(c, e) \in visited

FloodForced ==
  pc = "flood" =>
    \A S \in SUBSET Cells : Neighbor(Here, dir) \in S /\ Closed(S) => visited \subseteq S

FloodInv == FloodCounts /\ FloodHandled /\ FloodForced

(* The cells of the board are finitely many.                               *)
LEMMA CellsFinite == IsFiniteSet(Cells) /\ Cardinality(Cells) = Width * Height
  <1>1. ASSUME NEW n \in Nat
        PROVE  IsFiniteSet(0 .. n - 1) /\ Cardinality(0 .. n - 1) = n
    <2>1. 0 \in Int /\ n - 1 \in Int
      OBVIOUS
    <2>2. CASE n = 0
      <3>1. 0 .. n - 1 = {}
        BY <2>2
      <3>. QED
        BY <2>2, <3>1, FS_EmptySet
    <2>3. CASE n # 0
      <3>1. IsFiniteSet(0 .. n - 1) /\ Cardinality(0 .. n - 1) = (n - 1) - 0 + 1
        BY <2>1, <2>3, FS_Interval
      <3>. QED
        BY <3>1
    <2>. QED
      BY <2>2, <2>3
  <1>2. /\ IsFiniteSet(0 .. Width - 1) /\ Cardinality(0 .. Width - 1) = Width
        /\ IsFiniteSet(0 .. Height - 1) /\ Cardinality(0 .. Height - 1) = Height
    BY <1>1, BoardAssumption
  <1>3. ASSUME NEW S, NEW T, IsFiniteSet(S), IsFiniteSet(T)
        PROVE  IsFiniteSet(S \X T) /\ Cardinality(S \X T) = Cardinality(S) * Cardinality(T)
    BY <1>3, FS_Product, Zenon
  <1>4. /\ IsFiniteSet((0 .. Width - 1) \X (0 .. Height - 1))
        /\ Cardinality((0 .. Width - 1) \X (0 .. Height - 1))
             = Cardinality(0 .. Width - 1) * Cardinality(0 .. Height - 1)
    BY <1>2, <1>3, Zenon
  <1>. QED
    BY <1>2, <1>4, Zenon DEF Cells

(* A computation looks at a board that stands still.                       *)
LEMMA Frozen ==
  ASSUME UNCHANGED <<board, x, y, me>>
  PROVE  /\ Here' = Here
         /\ \A c, e : IsFreeNeighbor(c, e)' <=> IsFreeNeighbor(c, e)
         /\ \A S : Closed(S)' <=> Closed(S)
  <1>1. \A c, e : IsFreeNeighbor(c, e)' <=> IsFreeNeighbor(c, e)
    BY DEF IsFreeNeighbor, InBounds, Neighbor, IsFree, BoardAt, Offset
  <1>2. \A c : FreeDirections(c)' = FreeDirections(c)
    BY <1>1 DEF FreeDirections
  <1>3. \A c : FreeAround(c)' = FreeAround(c)
    BY <1>2 DEF FreeAround, Neighbor
  <1>. QED
    BY <1>1, <1>3 DEF Here, Closed

(* What Last and Front leave of a stack.                                   *)
LEMMA Popped ==
  ASSUME NEW S, NEW s \in Seq(S), s # <<>>
  PROVE  /\ Len(s) \in Nat \ {0} /\ Len(Front(s)) = Len(s) - 1
         /\ \A i \in 1 .. Len(Front(s)) : Front(s)[i] = s[i]
         /\ Last(s) = s[Len(s)]
  <1>1. Len(s) \in Nat /\ Len(s) # 0
    BY EmptySeq
  <1>2. Front(s) = SubSeq(s, 1, Len(s) - 1) /\ Last(s) = s[Len(s)]
    BY DEF Front, Last
  <1>3. /\ Len(SubSeq(s, 1, Len(s) - 1)) = Len(s) - 1
        /\ \A i \in 1 .. Len(s) - 1 : SubSeq(s, 1, Len(s) - 1)[i] = s[i]
    <2>1. \A i \in 1 .. Len(s) - 1 : s[i] \in S
      BY <1>1
    <2>2. 1 \in Int /\ Len(s) - 1 \in Int
      BY <1>1
    <2> DEFINE n == Len(s) - 1
    <2> HIDE DEF n
    <2>3. /\ Len(SubSeq(s, 1, n)) = IF 1 <= n THEN n - 1 + 1 ELSE 0
          /\ \A i \in 1 .. n - 1 + 1 : SubSeq(s, 1, n)[i] = s[1 + i - 1]
      <3>1. n \in Int /\ \A i \in 1 .. n : s[i] \in S
        BY <2>1, <2>2 DEF n
      <3>. QED
        BY <3>1, SubSeqProperties
    <2>4. n \in Nat
      BY <1>1 DEF n
    <2>5. Len(SubSeq(s, 1, n)) = n /\ \A i \in 1 .. n : SubSeq(s, 1, n)[i] = s[i]
      BY <2>3, <2>4
    <2>. QED
      BY <2>5 DEF n
  <1>. QED
    BY <1>1, <1>2, <1>3

LEMMA FloodCountsStep ==
  ASSUME MoverTypeOK, MoverTypeOK', FloodCalled, FloodCounts, [MatchNext]_matchVars
  PROVE  FloodCounts'
  <1>0. dir_count = 8 /\ count \in Nat /\ stack \in Seq(Cells) /\ d \in 0 .. 8
    BY DEF MoverTypeOK, dir_count
  <1>1. CASE FloodStarts
    <2>1. Cardinality(visited') = 1 /\ Len(stack') = 1 /\ stack'[1] = Neighbor(Here, dir)
      BY <1>1, FS_Singleton DEF FloodStarts
    <2>2. Here' = Here
      BY <1>1 DEF FloodStarts, vars, Here
    <2>. QED
      BY <1>1, <2>1, <2>2 DEF FloodStarts, FloodCounts, scanVars, dir_count
  <1>2. CASE PopCell
    <2>1. Here' = Here
      BY <1>2 DEF PopCell, vars, Here
    <2>2. /\ Len(stack) \in Nat \ {0} /\ Len(stack') = Len(stack) - 1
          /\ \A i \in 1 .. Len(stack') : stack'[i] = stack[i]
          /\ cell' = stack[Len(stack)]
      BY <1>0, <1>2, Popped DEF PopCell
    <2>. QED
      BY <1>0, <1>2, <2>1, <2>2 DEF PopCell, FloodCounts, scanVars
  <1>3. CASE Spread
    <2>1. Here' = Here
      BY <1>3 DEF Spread, vars, Here
    <2>2. IsFiniteSet(visited)
      BY CellsFinite, FS_Subset DEF MoverTypeOK
    <2>3. Cardinality(visited') = Cardinality(visited) + 1
      BY <1>3, <2>2, FS_AddElement DEF Spread
    <2>4. /\ Len(stack) \in Nat /\ Len(stack') = Len(stack) + 1
          /\ \A i \in 1 .. Len(stack) : stack'[i] = stack[i]
          /\ stack'[Len(stack) + 1] = Neighbor(cell, d)
      BY <1>0, <1>3 DEF Spread
    <2>. QED
      BY <1>0, <1>3, <2>1, <2>3, <2>4 DEF Spread, FloodCounts, scanVars
  <1>4. CASE PassOver
    <2>1. Here' = Here
      BY <1>4 DEF PassOver, vars, Here
    <2>. QED
      BY <1>0, <1>4, <2>1 DEF PassOver, FloodCounts, scanVars
  <1>5. CASE FloodReturns
    BY <1>5 DEF FloodReturns, FloodDone, FloodCounts
  <1>6. CASE pc # "flood" /\ pc' # "flood" /\ UNCHANGED stack
    BY <1>6 DEF FloodCounts
  <1>7. CASE UNCHANGED matchVars
    BY <1>7 DEF matchVars, vars, moverVars, scanVars, floodVars, FloodCounts, Here
  <1>8. CASE Setup
    BY <1>8 DEF Setup, RegisterPlayers, PlacePlayers, moverVars, floodVars, FloodCalled, FloodCounts
  <1>. QED
    BY <1>1, <1>2, <1>3, <1>4, <1>5, <1>6, <1>7, <1>8
    DEF MatchNext, ComputeNextMove, SkipDirection, FloodFails, Decide, Send, GiveUp, floodVars

LEMMA FloodHandledStep ==
  ASSUME MoverTypeOK, FloodCalled, FloodCounts, FloodHandled, [MatchNext]_matchVars
  PROVE  FloodHandled'
  <1>0. dir_count = 8 /\ stack \in Seq(Cells) /\ d \in 0 .. 8 /\ Directions = 0 .. 7
    BY DEF MoverTypeOK, dir_count, Directions
  <1>1. CASE FloodStarts
    <2>1. Len(stack') = 1 /\ stack'[1] = Neighbor(Here, dir) /\ visited' = {Neighbor(Here, dir)}
      BY <1>1 DEF FloodStarts
    <2>. QED
      BY <2>1 DEF FloodHandled
  <1>2. CASE PopCell
    <2>0. pc = "flood" /\ d = 8 /\ visited' = visited /\ d' = 0
      BY <1>0, <1>2 DEF PopCell
    <2>1. \A c, e : IsFreeNeighbor(c, e)' <=> IsFreeNeighbor(c, e)
      BY <1>2, Frozen DEF PopCell, vars
    <2>2. /\ Len(stack) \in Nat \ {0} /\ Len(stack') = Len(stack) - 1
          /\ \A i \in 1 .. Len(stack') : stack'[i] = stack[i]
          /\ cell' = stack[Len(stack)]
      BY <1>0, <1>2, Popped DEF PopCell
    <2>3. SUFFICES ASSUME NEW c \in visited
                   PROVE  \/ \E i \in 1 .. Len(stack') : stack'[i] = c
                          \/ \A e \in Directions : (c = cell' => e < 0) /\ IsFreeNeighbor(c, e) =>
                                                     Neighbor(c, e) \in visited
      BY <2>0, <2>1 DEF FloodHandled, Neighbor
    <2>4. CASE \E i \in 1 .. Len(stack) : stack[i] = c
      <3>1. PICK i \in 1 .. Len(stack) : stack[i] = c
        BY <2>4
      <3>2. CASE i = Len(stack)
        BY <1>0, <2>2, <3>1, <3>2
      <3>3. CASE i # Len(stack)
        BY <2>2, <3>1, <3>3
      <3>. QED
        BY <3>2, <3>3
    <2>5. CASE \A e \in Directions : (c = cell => e < d) /\ IsFreeNeighbor(c, e) => Neighbor(c, e) \in visited
      BY <1>0, <2>0, <2>5
    <2>. QED
      BY <2>0, <2>4, <2>5 DEF FloodHandled
  <1>3. CASE Spread
    <2>0. /\ pc = "flood" /\ d \in 0 .. 7 /\ d' = d + 1 /\ cell' = cell
          /\ visited' = visited \union {Neighbor(cell, d)}
      BY <1>0, <1>3 DEF Spread
    <2>1. \A c, e : IsFreeNeighbor(c, e)' <=> IsFreeNeighbor(c, e)
      BY <1>3, Frozen DEF Spread, vars
    <2>2. /\ Len(stack) \in Nat /\ Len(stack') = Len(stack) + 1
          /\ \A i \in 1 .. Len(stack) : stack'[i] = stack[i]
          /\ stack'[Len(stack) + 1] = Neighbor(cell, d)
      BY <1>0, <1>3 DEF Spread
    <2>3. SUFFICES ASSUME NEW c \in visited'
                   PROVE  \/ \E i \in 1 .. Len(stack') : stack'[i] = c
                          \/ \A e \in Directions : (c = cell => e < d + 1) /\ IsFreeNeighbor(c, e) =>
                                                     Neighbor(c, e) \in visited'
      BY <2>0, <2>1 DEF FloodHandled, Neighbor
    <2>4. CASE c = Neighbor(cell, d)
      BY <2>2, <2>4
    <2>5. CASE c \in visited /\ \E i \in 1 .. Len(stack) : stack[i] = c
      BY <2>2, <2>5
    <2>6. CASE \A e \in Directions : (c = cell => e < d) /\ IsFreeNeighbor(c, e) => Neighbor(c, e) \in visited
      <3>1. ASSUME NEW e \in Directions, c = cell => e < d + 1, IsFreeNeighbor(c, e)
            PROVE  Neighbor(c, e) \in visited'
        <4>1. CASE c = cell /\ e = d
          BY <2>0, <4>1
        <4>2. CASE ~(c = cell /\ e = d)
          <5>1. c = cell => e < d
            BY <1>0, <2>0, <3>1, <4>2
          <5>. QED
            BY <2>0, <2>6, <3>1, <5>1
        <4>. QED
          BY <4>1, <4>2
      <3>. QED
        BY <3>1
    <2>. QED
      BY <2>0, <2>3, <2>4, <2>5, <2>6 DEF FloodHandled
  <1>4. CASE PassOver
    <2>0. /\ pc = "flood" /\ d \in 0 .. 7 /\ d' = d + 1 /\ cell' = cell
          /\ visited' = visited /\ stack' = stack
          /\ IsFreeNeighbor(cell, d) => Neighbor(cell, d) \in visited
      BY <1>0, <1>4 DEF PassOver
    <2>1. \A c, e : IsFreeNeighbor(c, e)' <=> IsFreeNeighbor(c, e)
      BY <1>4, Frozen DEF PassOver, vars
    <2>2. SUFFICES ASSUME NEW c \in visited, ~\E i \in 1 .. Len(stack) : stack[i] = c,
                          NEW e \in Directions, c = cell => e < d + 1, IsFreeNeighbor(c, e)
                   PROVE  Neighbor(c, e) \in visited
      BY <2>0, <2>1 DEF FloodHandled, Neighbor
    <2>3. CASE c = cell /\ e = d
      BY <2>0, <2>2, <2>3
    <2>4. CASE ~(c = cell /\ e = d)
      <3>1. c = cell => e < d
        BY <1>0, <2>0, <2>2, <2>4
      <3>. QED
        BY <2>0, <2>2, <3>1 DEF FloodHandled
    <2>. QED
      BY <2>3, <2>4
  <1>5. CASE pc' # "flood"
    BY <1>5 DEF FloodHandled
  <1>6. CASE UNCHANGED matchVars
    <2>1. \A c, e : IsFreeNeighbor(c, e)' <=> IsFreeNeighbor(c, e)
      BY <1>6, Frozen DEF matchVars, vars, moverVars
    <2>. QED
      BY <1>6, <2>1 DEF matchVars, moverVars, floodVars, FloodHandled, Neighbor
  <1>7. CASE Setup
    BY <1>7 DEF Setup, RegisterPlayers, PlacePlayers, moverVars, FloodCalled, FloodHandled
  <1>. QED
    BY <1>1, <1>2, <1>3, <1>4, <1>5, <1>6, <1>7
    DEF MatchNext, ComputeNextMove, SkipDirection, FloodFails, FloodReturns, Decide, Send, GiveUp

LEMMA FloodForcedStep ==
  ASSUME MoverTypeOK, FloodCalled, FloodCounts, FloodForced, [MatchNext]_matchVars
  PROVE  FloodForced'
  <1>1. CASE FloodStarts
    <2>1. Here' = Here
      BY <1>1 DEF FloodStarts, vars, Here
    <2>. QED
      BY <1>1, <2>1 DEF FloodStarts, FloodForced, scanVars, Neighbor
  <1>2. CASE Spread
    <2>1. Here' = Here /\ dir' = dir /\ \A S : Closed(S)' <=> Closed(S)
      BY <1>2, Frozen DEF Spread, vars, scanVars
    <2>2. SUFFICES ASSUME NEW S \in SUBSET Cells, Neighbor(Here, dir) \in S, Closed(S)
                   PROVE  visited' \subseteq S
      BY <2>1 DEF FloodForced, Neighbor, Cells
    <2>3. visited \subseteq S /\ cell \in S
      BY <1>2, <2>2 DEF Spread, FloodForced, FloodCounts
    <2>4. d \in Directions
      BY <1>2 DEF Spread, MoverTypeOK, Directions, dir_count
    <2>5. Neighbor(cell, d) \in FreeAround(cell)
      BY <1>2, <2>4 DEF Spread, FreeAround, FreeDirections
    <2>6. Neighbor(cell, d) \in S
      BY <2>2, <2>3, <2>5 DEF Closed
    <2>. QED
      BY <1>2, <2>3, <2>6 DEF Spread
  <1>3. CASE UNCHANGED <<board, x, y, me, dir, pc, visited>>
    <2>1. Here' = Here /\ \A S : Closed(S)' <=> Closed(S)
      BY <1>3, Frozen
    <2>. QED
      BY <1>3, <2>1 DEF FloodForced, Neighbor, Cells
  <1>4. CASE pc' # "flood"
    BY <1>4 DEF FloodForced
  <1>5. CASE Setup
    BY <1>5 DEF Setup, RegisterPlayers, PlacePlayers, moverVars, FloodCalled, FloodForced
  <1>. QED
    BY <1>1, <1>2, <1>3, <1>4, <1>5
    DEF MatchNext, ComputeNextMove, SkipDirection, FloodFails, PopCell, PassOver, FloodReturns,
        Decide, Send, GiveUp, matchVars, vars, moverVars, scanVars, floodVars

LEMMA FloodInvariant == MatchSpec => []FloodInv
  <1>1. MatchInit => FloodInv
    BY DEF MatchInit, FloodInv, FloodCounts, FloodHandled, FloodForced
  <1>2. MoverTypeOK /\ MoverTypeOK' /\ FloodCalled /\ FloodInv /\ [MatchNext]_matchVars => FloodInv'
    <2> SUFFICES ASSUME MoverTypeOK, FloodCalled, MoverTypeOK', FloodInv, [MatchNext]_matchVars
                 PROVE  FloodInv'
      OBVIOUS
    <2>1. FloodCounts /\ FloodHandled /\ FloodForced
      BY DEF FloodInv
    <2>2. FloodCounts'
      BY <2>1, FloodCountsStep
    <2>3. FloodHandled'
      BY <2>1, FloodHandledStep
    <2>4. FloodForced'
      BY <2>1, FloodForcedStep
    <2>. QED
      BY <2>2, <2>3, <2>4 DEF FloodInv
  <1>. QED
    BY <1>1, <1>2, MoverTypeCorrect, PTL DEF MatchSpec

(* The number flood_count returns is the number of free cells within       *)
(* reach, on any board it gets memory for.                                 *)
THEOREM FloodCorrect == MatchSpec => []FloodCountsRegion
  <1>1. MoverTypeOK /\ FloodInv => FloodCountsRegion
    <2> SUFFICES ASSUME MoverTypeOK, FloodInv, FloodDone
                 PROVE  /\ count + 1 = Cardinality(visited)
                        /\ Neighbor(Here, dir) \in visited /\ Closed(visited)
                        /\ \A S \in SUBSET visited :
                             Neighbor(Here, dir) \in S /\ Closed(S) => S = visited
      BY DEF FloodCountsRegion
    <2>1. count + 1 = Cardinality(visited) /\ Neighbor(Here, dir) \in visited
      BY DEF FloodInv, FloodCounts, FloodDone
    <2>2. Closed(visited)
      <3>1. ASSUME NEW c \in visited, NEW e \in Directions, IsFreeNeighbor(c, e)
            PROVE  Neighbor(c, e) \in visited
        <4>1. ~\E i \in 1 .. Len(stack) : stack[i] = c
          BY DEF FloodDone
        <4>2. e < d
          BY <3>1 DEF FloodDone, Directions, dir_count
        <4>. QED
          BY <3>1, <4>1, <4>2 DEF FloodInv, FloodHandled, FloodDone
      <3>. QED
        BY <3>1 DEF Closed, FreeAround, FreeDirections
    <2>3. ASSUME NEW S \in SUBSET visited, Neighbor(Here, dir) \in S, Closed(S)
          PROVE  S = visited
      BY <2>3 DEF FloodInv, FloodForced, FloodDone, MoverTypeOK
    <2>. QED
      BY <2>1, <2>2, <2>3
  <1>. QED
    BY <1>1, FloodInvariant, MoverTypeCorrect, PTL

(* The stack of flood_count, if it gets one, is large enough on any board. *)
THEOREM FloodStackFits == MatchSpec => []StackFits
  <1>1. MoverTypeOK /\ FloodInv => StackFits
    <2> SUFFICES ASSUME MoverTypeOK, FloodInv PROVE Len(stack) <= Width * Height
      BY DEF StackFits
    <2>1. Width * Height \in Nat
      BY BoardAssumption
    <2>2. CASE pc # "flood"
      BY <2>1, <2>2 DEF FloodInv, FloodCounts
    <2>3. CASE pc = "flood"
      <3>1. Len(stack) <= Cardinality(visited)
        BY <2>3 DEF FloodInv, FloodCounts
      <3>2. IsFiniteSet(visited) /\ Cardinality(visited) <= Width * Height
        BY CellsFinite, FS_Subset DEF MoverTypeOK
      <3>3. Cardinality(visited) \in Nat /\ Len(stack) \in Nat
        BY <3>2, FS_CardinalityType DEF MoverTypeOK
      <3>. QED
        BY <2>1, <3>1, <3>2, <3>3
    <2>. QED
      BY <2>2, <2>3
  <1>. QED
    BY <1>1, FloodInvariant, MoverTypeCorrect, PTL

(* The loops of flood_count end: what is left to do only shrinks.          *)
THEOREM FloodEnds == MatchSpec => FloodShrinks
  <1>1. /\ MoverTypeOK /\ MoverTypeOK' /\ FloodCalled /\ [MatchNext]_matchVars =>
             [pc = "flood" /\ pc' = "flood" => LeftToDo' < LeftToDo /\ LeftToDo' >= 0]_matchVars
    <2> SUFFICES ASSUME MoverTypeOK, MoverTypeOK', FloodCalled, MatchNext,
                        pc = "flood", pc' = "flood", ~UNCHANGED matchVars
                 PROVE  LeftToDo' < LeftToDo /\ LeftToDo' >= 0
      OBVIOUS
    <2> DEFINE n == Cardinality(visited)
               m == Width * Height
    <2>1. /\ m \in Nat /\ dir_count = 8 /\ d \in 0 .. 8 /\ d' \in 0 .. 8
          /\ stack \in Seq(Cells) /\ Len(stack) \in Nat /\ Len(stack') \in Nat
      BY BoardAssumption DEF MoverTypeOK, dir_count
    <2>2. IsFiniteSet(visited) /\ n \in Nat /\ n <= m /\ n' \in Nat /\ n' <= m
      BY CellsFinite, FS_Subset, FS_CardinalityType DEF MoverTypeOK
    <2>3. LeftToDo = 18 * (m - n) + 9 * Len(stack) + (8 - d)
          /\ LeftToDo' = 18 * (m - n') + 9 * Len(stack') + (8 - d')
      BY <2>1 DEF LeftToDo
    <2>4. PopCell \/ Spread \/ PassOver
      BY DEF MatchNext, MatchOver, Setup, RegisterPlayers, PlacePlayers, FloodCalled, ComputeNextMove,
             SkipDirection, FloodFails, FloodStarts, FloodReturns, Decide, Send, GiveUp
    <2>5. CASE PopCell
      <3>1. n' = n /\ d = 8 /\ d' = 0 /\ Len(stack') = Len(stack) - 1
        BY <2>1, <2>5, Popped DEF PopCell
      <3> HIDE DEF n, m
      <3>. QED
        BY <2>1, <2>2, <2>3, <3>1
    <2>6. CASE Spread
      <3>1. n' = n + 1
        BY <2>2, <2>6, FS_AddElement DEF Spread
      <3>2. d' = d + 1 /\ Len(stack') = Len(stack) + 1
        BY <2>1, <2>6 DEF Spread
      <3> HIDE DEF n, m
      <3>. QED
        BY <2>1, <2>2, <2>3, <3>1, <3>2
    <2>7. CASE PassOver
      <3>1. n' = n /\ d' = d + 1 /\ stack' = stack
        BY <2>7 DEF PassOver
      <3> HIDE DEF n, m
      <3>. QED
        BY <2>1, <2>2, <2>3, <3>1
    <2>. QED
      BY <2>4, <2>5, <2>6, <2>7
  <1>. QED
    BY <1>1, MoverTypeCorrect, PTL DEF MatchSpec, FloodShrinks

-----------------------------------------------------------------------------
(* The choice.  On boards no wider or higher than 32768 the coordinates of *)
(* a player fit int16_t, and its view of its neighbours is the master's.   *)

ShortSides == Width <= 32768 /\ Height <= 32768

(* A coordinate and a displacement, in int16_t.                            *)
LEMMA NeighborExact ==
  ASSUME NEW size \in Nat, size <= 32768, NEW c \in {0} \union 0 .. size - 1, NEW delta \in -1 .. 1
  PROVE  /\ Int16(c) = c
         /\ c + delta \in 0 .. size - 1 => Int16(c + delta) = c + delta
         /\ c + delta \notin 0 .. size - 1 => Int16(c + delta) < 0 \/ Int16(c + delta) >= size
  <1>0. /\ c \in Nat /\ c < 32768 /\ (c < size \/ c = 0) /\ size \in Nat
        /\ delta \in Int /\ -1 <= delta /\ delta <= 1
    OBVIOUS
  <1> DEFINE s == c + delta
  <1>1. s \in Int /\ -1 <= s /\ s <= 32768
    BY <1>0
  <1>2. Uint16(c) = c
    BY <1>0, Uint16Small
  <1>3. Uint16(s) = IF s < 0 THEN s + 65536 ELSE s
    <2> HIDE DEF s
    <2>. QED
      BY <1>1, Uint16Small, Uint16Negative
  <1>4. Int16(c) = c
    BY <1>0, <1>2 DEF Int16
  <1>5. Int16(s) = IF s = 32768 THEN -32768 ELSE s
    <2> HIDE DEF s
    <2>. QED
      BY <1>1, <1>3 DEF Int16
  <1>6. s \in 0 .. size - 1 <=> s >= 0 /\ s < size
    BY <1>0, <1>1
  <1> HIDE DEF s
  <1>7. /\ s \in 0 .. size - 1 => Int16(s) = s
        /\ s \notin 0 .. size - 1 => Int16(s) < 0 \/ Int16(s) >= size
    BY <1>0, <1>1, <1>5, <1>6
  <1>. QED
    BY <1>4, <1>7 DEF s

LEMMA ConversionType == \A n \in Int : Uint16(n) \in Int /\ Int16(n) \in Int
  BY DEF Uint16, Int16

(* A direction looks free to the player exactly when the master would      *)
(* accept it.                                                              *)
LEMMA SameView ==
  ASSUME ShortSides, TypeOK, me \in Players, NEW dd \in Directions
  PROVE  dd \in FreeDirections(Here) <=> Accepted(dd)
  <1> DEFINE a == x[me] + DeltaX(dd)
             b == y[me] + DeltaY(dd)
  <1>0. /\ x[me] \in {0} \union 0 .. Width - 1 /\ y[me] \in {0} \union 0 .. Height - 1
        /\ Width \in Nat /\ Width < 65536 /\ Height \in Nat /\ Height < 65536
        /\ Width <= 32768 /\ Height <= 32768
        /\ DeltaX(dd) \in -1 .. 1 /\ DeltaY(dd) \in -1 .. 1
    BY BoardAssumption, DeltaType DEF TypeOK, ShortSides
  <1>1. /\ a \in Int /\ b \in Int
        /\ a \in 0 .. Width - 1 <=> a >= 0 /\ a < Width
        /\ b \in 0 .. Height - 1 <=> b >= 0 /\ b < Height
    BY <1>0
  <1>2. Neighbor(Here, dd) = <<Int16(a), Int16(b)>>
    BY <1>0, NeighborExact DEF Neighbor, Here
  <1>3. NewX(me, dd) = Displaced(x[me], DeltaX(dd)) /\ NewY(me, dd) = Displaced(y[me], DeltaY(dd))
    BY DEF NewX, NewY
  <1>4. /\ a \in 0 .. Width - 1 => Int16(a) = a /\ NewX(me, dd) = a
        /\ a \notin 0 .. Width - 1 => (Int16(a) < 0 \/ Int16(a) >= Width) /\ NewX(me, dd) >= Width
    <2>1. /\ a \in 0 .. Width - 1 => Int16(a) = a
          /\ a \notin 0 .. Width - 1 => Int16(a) < 0 \/ Int16(a) >= Width
      <3> DEFINE c == x[me]
                 delta == DeltaX(dd)
      <3>1. Width \in Nat /\ Width <= 32768 /\ c \in {0} \union 0 .. Width - 1 /\ delta \in -1 .. 1
        BY <1>0
      <3> HIDE DEF c, delta
      <3>2. /\ c + delta \in 0 .. Width - 1 => Int16(c + delta) = c + delta
            /\ c + delta \notin 0 .. Width - 1 => Int16(c + delta) < 0 \/ Int16(c + delta) >= Width
        BY <3>1, NeighborExact
      <3>. QED
        BY <3>2 DEF c, delta
    <2>2. /\ a \in 0 .. Width - 1 => NewX(me, dd) = a
          /\ a \notin 0 .. Width - 1 => NewX(me, dd) >= Width
      <3> DEFINE c == x[me]
                 delta == DeltaX(dd)
      <3>1. Width \in Nat /\ Width < 65536 /\ c \in {0} \union 0 .. Width - 1 /\ delta \in -1 .. 1
        BY <1>0
      <3> HIDE DEF c, delta
      <3>2. /\ c + delta \in 0 .. Width - 1 => Displaced(c, delta) = c + delta
            /\ c + delta \notin 0 .. Width - 1 => Displaced(c, delta) >= Width
        BY <3>1, DisplacedExact
      <3>. QED
        BY <1>3, <3>2 DEF c, delta
    <2>. QED
      BY <2>1, <2>2
  <1>5. /\ b \in 0 .. Height - 1 => Int16(b) = b /\ NewY(me, dd) = b
        /\ b \notin 0 .. Height - 1 => (Int16(b) < 0 \/ Int16(b) >= Height) /\ NewY(me, dd) >= Height
    <2>1. /\ b \in 0 .. Height - 1 => Int16(b) = b
          /\ b \notin 0 .. Height - 1 => Int16(b) < 0 \/ Int16(b) >= Height
      <3> DEFINE c == y[me]
                 delta == DeltaY(dd)
      <3>1. Height \in Nat /\ Height <= 32768 /\ c \in {0} \union 0 .. Height - 1 /\ delta \in -1 .. 1
        BY <1>0
      <3> HIDE DEF c, delta
      <3>2. /\ c + delta \in 0 .. Height - 1 => Int16(c + delta) = c + delta
            /\ c + delta \notin 0 .. Height - 1 => Int16(c + delta) < 0 \/ Int16(c + delta) >= Height
        BY <3>1, NeighborExact
      <3>. QED
        BY <3>2 DEF c, delta
    <2>2. /\ b \in 0 .. Height - 1 => NewY(me, dd) = b
          /\ b \notin 0 .. Height - 1 => NewY(me, dd) >= Height
      <3> DEFINE c == y[me]
                 delta == DeltaY(dd)
      <3>1. Height \in Nat /\ Height < 65536 /\ c \in {0} \union 0 .. Height - 1 /\ delta \in -1 .. 1
        BY <1>0
      <3> HIDE DEF c, delta
      <3>2. /\ c + delta \in 0 .. Height - 1 => Displaced(c, delta) = c + delta
            /\ c + delta \notin 0 .. Height - 1 => Displaced(c, delta) >= Height
        BY <3>1, DisplacedExact
      <3>. QED
        BY <1>3, <3>2 DEF c, delta
    <2>. QED
      BY <2>1, <2>2
  <1>6. IsValidDirection(dd)
    BY DEF IsValidDirection, Directions, dir_count
  <1>7. CASE a \in 0 .. Width - 1 /\ b \in 0 .. Height - 1
    <2>1. Neighbor(Here, dd) = <<a, b>> /\ NewX(me, dd) = a /\ NewY(me, dd) = b
      BY <1>2, <1>4, <1>5, <1>7
    <2>2. InBounds(Neighbor(Here, dd)) /\ ~IsOutOfBounds(b, a)
      BY <1>0, <1>1, <1>7, <2>1 DEF InBounds, IsOutOfBounds
    <2>3. board[Offset(b, a)] \in -8 .. 9
      BY <1>7, OffsetInRange DEF TypeOK, MAX_PLAYERS, MAX_CELL_REWARD
    <2>. QED
      BY <1>6, <2>1, <2>2, <2>3 DEF FreeDirections, IsFreeNeighbor, IsFree, BoardAt, Accepted, IsMoveAllowed
  <1>8. CASE ~(a \in 0 .. Width - 1 /\ b \in 0 .. Height - 1)
    <2>1. /\ NewX(me, dd) \in Int /\ NewY(me, dd) \in Int /\ Int16(a) \in Int /\ Int16(b) \in Int
      <3>1. ASSUME NEW c \in Int, NEW delta \in Int PROVE Displaced(c, delta) \in Int
        <4>1. Int16(c) + delta \in Int
          BY ConversionType
        <4>2. Int16(Int16(c) + delta) \in Int
          BY <4>1, ConversionType
        <4>. QED
          BY <4>2, ConversionType DEF Displaced
      <3>2. x[me] \in Int /\ y[me] \in Int /\ DeltaX(dd) \in Int /\ DeltaY(dd) \in Int
        BY <1>0
      <3>3. NewX(me, dd) \in Int /\ NewY(me, dd) \in Int
        BY <1>3, <3>1, <3>2
      <3>4. Int16(a) \in Int /\ Int16(b) \in Int
        BY <1>1, ConversionType
      <3>. QED
        BY <3>3, <3>4
    <2>2. ~InBounds(Neighbor(Here, dd))
      BY <1>0, <1>2, <1>4, <1>5, <1>8, <2>1 DEF InBounds
    <2>3. IsOutOfBounds(NewY(me, dd), NewX(me, dd))
      BY <1>0, <1>4, <1>5, <1>8, <2>1 DEF IsOutOfBounds
    <2>. QED
      BY <2>2, <2>3 DEF FreeDirections, IsFreeNeighbor, Accepted, IsMoveAllowed
  <1>. QED
    BY <1>7, <1>8

(* Among directions with integer values there is a best one.               *)
LEMMA BestExists ==
  ASSUME NEW S \in SUBSET Directions, S # {}, NEW v, \A dd \in S : v[dd] \in Int
  PROVE  Best(S, v) # {}
  <1> DEFINE P(k) == \A T \in SUBSET S : (\A e \in T : e < k) /\ T # {} =>
                       \E dd \in T : \A e \in T : v[dd] >= v[e]
  <1>1. ASSUME NEW k \in 0 .. 7, P(k) PROVE P(k + 1)
    <2> SUFFICES ASSUME NEW T \in SUBSET S, \A e \in T : e < k + 1, T # {}
                 PROVE  \E dd \in T : \A e \in T : v[dd] >= v[e]
      OBVIOUS
    <2> DEFINE U == T \ {k}
    <2>0. \A e \in T : e \in 0 .. 7 /\ v[e] \in Int
      BY DEF Directions, dir_count
    <2>1. \A e \in U : e < k
      BY <2>0
    <2>2. CASE U = {}
      <3>1. T = {k}
        BY <2>2
      <3>. QED
        BY <2>0, <3>1
    <2>3. CASE U # {}
      <3>1. PICK dd \in U : \A e \in U : v[dd] >= v[e]
        BY <1>1, <2>1, <2>3
      <3>2. CASE k \in T /\ v[k] > v[dd]
        <4>1. \A e \in T : v[k] >= v[e]
          BY <2>0, <3>1, <3>2
        <4>. QED
          BY <3>2, <4>1
      <3>3. CASE ~(k \in T /\ v[k] > v[dd])
        <4>1. \A e \in T : v[dd] >= v[e]
          BY <2>0, <3>1, <3>3
        <4>. QED
          BY <4>1
      <3>. QED
        BY <3>2, <3>3
    <2>. QED
      BY <2>2, <2>3
  <1>2. P(0)
    <2>1. \A e \in S : ~(e < 0)
      BY DEF Directions, dir_count
    <2>. QED
      BY <2>1
  <1> HIDE DEF P
  <1>3. P(1) /\ P(2)
    BY <1>1, <1>2
  <1>4. P(3) /\ P(4)
    BY <1>1, <1>3
  <1>5. P(5) /\ P(6)
    BY <1>1, <1>4
  <1>6. P(7) /\ P(8)
    BY <1>1, <1>5
  <1>7. \A e \in S : e < 8
    BY DEF Directions, dir_count
  <1>. QED
    BY <1>6, <1>7 DEF P, Best

(* The largest of some integer values of directions and of 0, and of the   *)
(* values around a cell, is what it should be.                             *)
Tops(m, M) == m \in Int /\ m \in M /\ \A k \in M : m >= k

LEMMA MaxTops ==
  ASSUME NEW M \in SUBSET Int, NEW m \in M, \A k \in M : m >= k
  PROVE  Tops(Max(M), M) /\ Max(M) = m
  <1> DEFINE top == Max(M)
  <1>1. top \in M /\ \A k \in M : top >= k
    BY DEF Max
  <1>. HIDE DEF top
  <1>2. top \in Int /\ m \in Int /\ top >= m /\ m >= top
    BY <1>1
  <1>3. top = m
    BY <1>2
  <1>. QED
    BY <1>1, <1>2, <1>3 DEF Tops, top

LEMMA TopDirection ==
  ASSUME NEW S \in SUBSET Directions, NEW v, \A dd \in S : v[dd] \in Int
  PROVE  Tops(Max({0} \union {v[dd] : dd \in S}), {0} \union {v[dd] : dd \in S})
  <1> DEFINE M == {0} \union {v[dd] : dd \in S}
  <1>1. M \in SUBSET Int /\ 0 \in M /\ \A dd \in S : v[dd] \in M
    OBVIOUS
  <1>2. \E m \in M : \A k \in M : m >= k
    <2>1. CASE S = {}
      BY <2>1
    <2>2. CASE S # {}
      <3>1. PICK dd \in S : \A e \in S : v[dd] >= v[e]
        BY <2>2, BestExists DEF Best
      <3>2. CASE v[dd] >= 0
        BY <3>1, <3>2
      <3>3. CASE ~(v[dd] >= 0)
        BY <3>1, <3>3
      <3>. QED
        BY <3>2, <3>3
    <2>. QED
      BY <2>1, <2>2
  <1> HIDE DEF M
  <1>3. PICK m \in M : \A k \in M : m >= k
    BY <1>2
  <1>4. Tops(Max(M), M)
    BY <1>1, <1>3, MaxTops
  <1>. QED
    BY <1>4 DEF M

LEMMA TopAround ==
  ASSUME NEW c, NEW T \in SUBSET FreeAround(c), NEW g, \A n \in T : g[n] \in Int
  PROVE  Tops(Max({0} \union {g[n] : n \in T}), {0} \union {g[n] : n \in T})
  <1> DEFINE S == {dd \in FreeDirections(c) : Neighbor(c, dd) \in T}
             v == [dd \in S |-> g[Neighbor(c, dd)]]
  <1>1. \A n \in T : \E dd \in S : n = Neighbor(c, dd)
    BY DEF FreeAround
  <1>2. S \in SUBSET Directions /\ \A dd \in S : v[dd] \in Int
    BY DEF FreeDirections
  <1>3. {0} \union {v[dd] : dd \in S} = {0} \union {g[n] : n \in T}
    BY <1>1
  <1> HIDE DEF S, v
  <1>4. Tops(Max({0} \union {v[dd] : dd \in S}), {0} \union {v[dd] : dd \in S})
    BY <1>2, TopDirection
  <1>. QED
    BY <1>3, <1>4

LEMMA MaxAround ==
  ASSUME NEW c, NEW T \in SUBSET FreeAround(c), NEW g, \A n \in T : g[n] \in Int
  PROVE  Max({0} \union {g[n] : n \in T}) \in Int
  BY TopAround DEF Tops

LEMMA CellValue == TypeOK => \A c \in Cells : BoardAt(c) \in Int
  <1> SUFFICES ASSUME TypeOK, NEW c \in Cells PROVE BoardAt(c) \in Int
    OBVIOUS
  <1>1. Offset(c[2], c[1]) \in Offsets
    BY OffsetInRange DEF Cells
  <1>2. board[Offset(c[2], c[1])] \in -(MAX_PLAYERS - 1) .. MAX_CELL_REWARD
    BY <1>1 DEF TypeOK
  <1>. QED
    BY <1>2 DEF BoardAt, MAX_PLAYERS, MAX_CELL_REWARD

LEMMA AheadType ==
  ASSUME TypeOK, NEW c \in Cells, NEW path
  PROVE  Ahead1(c, path) \in Int /\ Ahead2(c, path) \in Int
  <1>1. \A b \in Cells : FreeAround(b) \subseteq Cells
    BY FreeOnBoard DEF FreeAround, FreeDirections
  <1>2. ASSUME NEW b \in Cells, NEW q PROVE Ahead1(b, q) \in Int
    <2> DEFINE T == FreeAround(b) \ q
               g == [n \in T |-> BoardAt(n)]
    <2>1. \A n \in T : g[n] \in Int
      BY <1>1, CellValue
    <2>2. {g[n] : n \in T} = {BoardAt(n) : n \in T}
      OBVIOUS
    <2>3. T \in SUBSET FreeAround(b)
      OBVIOUS
    <2>4. Max({0} \union {g[n] : n \in T}) \in Int
      <3> HIDE DEF T, g
      <3>. QED
        BY <2>1, <2>3, MaxAround
    <2>. QED
      BY <2>2, <2>4 DEF Ahead1
  <1>3. Ahead2(c, path) \in Int
    <2> DEFINE T == FreeAround(c) \ path
               g == [n \in T |-> BoardAt(n) + Ahead1(n, path \union {n})]
    <2>1. \A n \in T : g[n] \in Int
      BY <1>1, <1>2, CellValue
    <2>2. {g[n] : n \in T} = {BoardAt(n) + Ahead1(n, path \union {n}) : n \in T}
      OBVIOUS
    <2>3. T \in SUBSET FreeAround(c)
      OBVIOUS
    <2>4. Max({0} \union {g[n] : n \in T}) \in Int
      <3> HIDE DEF T, g
      <3>. QED
        BY <2>1, <2>3, MaxAround
    <2>. QED
      BY <2>2, <2>4 DEF Ahead2
  <1>. QED
    BY <1>2, <1>3

(* What a scan of the directions in F leaves, if it drops none without     *)
(* keeping another.                                                        *)
LEMMA Chosen ==
  ASSUME NEW F \in SUBSET Directions, NEW S \in SUBSET F, F # {} => S # {}, NEW m \in First(S)
  PROVE  IF m = NO_VALID_MOVE THEN F = {} ELSE m \in F
  <1>1. NO_VALID_MOVE \notin F
    BY DEF NO_VALID_MOVE, Directions, dir_count
  <1>. QED
    BY <1>1 DEF First

(* Whatever the strategy, the decision is a free direction, or             *)
(* NO_VALID_MOVE when there is none.                                       *)
LEMMA DecisionSound ==
  ASSUME TypeOK, MoverTypeOK, NEW m \in BestMoves
  PROVE  IF m = NO_VALID_MOVE THEN FreeDirections(Here) = {} ELSE m \in FreeDirections(Here)
  <1> DEFINE free == FreeDirections(Here)
  <1>0. free \in SUBSET Directions /\ me \in Players /\ strategy[me] \in AllStrategies
    BY DEF FreeDirections, MoverTypeOK
  <1>1. \A dd \in free : Neighbor(Here, dd) \in Cells
    BY <1>0, FreeOnBoard DEF FreeDirections
  <1>2. \A dd \in free : Reward[dd] \in Int /\ Cost[dd] \in Int
    <2>1. \A dd \in free : BoardAt(Neighbor(Here, dd)) \in Int
      BY <1>1, CellValue
    <2>. QED
      BY <2>1 DEF Reward, Cost
  <1>3. \A dd \in free : Lookahead[dd] \in Int
    <2>1. \A dd \in free : BoardAt(Neighbor(Here, dd)) \in Int
      BY <1>1, CellValue
    <2>2. \A dd \in free : Ahead2(Neighbor(Here, dd), {Neighbor(Here, dd)}) \in Int
      BY <1>1, AheadType
    <2>. QED
      BY <2>1, <2>2 DEF Lookahead
  <1>4. \A dd \in free : floods[dd] \in Int
    BY <1>0 DEF MoverTypeOK
  <1>5. Survivors \in SUBSET free
    BY DEF Survivors
  <1> HIDE DEF free
  <1>6. ASSUME NEW S \in SUBSET free, NEW v, \A dd \in free : v[dd] \in Int
        PROVE  Best(S, v) \in SUBSET S /\ (S # {} => Best(S, v) # {})
    BY <1>0, <1>6, BestExists DEF Best
  <1> DEFINE Sound == IF m = NO_VALID_MOVE THEN free = {} ELSE m \in free
  <1>7. ASSUME NEW v, \A dd \in free : v[dd] \in Int, m \in First(Best(free, v)) PROVE Sound
    <2>1. Best(free, v) \in SUBSET free /\ (free # {} => Best(free, v) # {})
      BY <1>6, <1>7
    <2>. QED
      BY <1>0, <1>7, <2>1, Chosen
  <1>8. CASE strategy[me] = "NAIVE"
    <2>1. m \in IF free = {} THEN {NO_VALID_MOVE} ELSE free
      BY <1>8 DEF BestMoves, free
    <2>2. NO_VALID_MOVE \notin free
      BY <1>0 DEF NO_VALID_MOVE, Directions, dir_count
    <2>. QED
      BY <2>1, <2>2 DEF free
  <1>9. CASE strategy[me] = "GREEDY"
    <2>1. m \in First(Best(free, Reward))
      BY <1>9 DEF BestMoves, free
    <2>. QED
      BY <1>2, <1>7, <2>1 DEF free
  <1>10. CASE strategy[me] = "GREEDY_LOOKAHEAD"
    <2>1. m \in First(Best(free, Lookahead))
      BY <1>10 DEF BestMoves, free
    <2>. QED
      BY <1>3, <1>7, <2>1 DEF free
  <1>11. CASE strategy[me] = "FLOOD"
    <2>1. m \in First(Best(free, floods))
      BY <1>11 DEF BestMoves, free
    <2>. QED
      BY <1>4, <1>7, <2>1 DEF free
  <1>12. CASE strategy[me] = "MIN_REWARD"
    <2>1. m \in First(Best(free, Cost))
      BY <1>12 DEF BestMoves, free
    <2>. QED
      BY <1>2, <1>7, <2>1 DEF free
  <1>13. CASE strategy[me] = "GREEDY_FLOOD"
    <2>1. m \in IF Survivors # {} THEN First(Best(Best(Survivors, Reward), floods))
                                   ELSE First(Best(free, floods))
      BY <1>13 DEF BestMoves, free
    <2>2. CASE Survivors = {}
      <3>1. m \in First(Best(free, floods))
        BY <2>1, <2>2
      <3>. QED
        BY <1>4, <1>7, <3>1 DEF free
    <2>3. CASE Survivors # {}
      <3> DEFINE A == Best(Survivors, Reward)
                 B == Best(A, floods)
      <3>1. A \in SUBSET free /\ A # {}
        BY <1>2, <1>5, <1>6, <2>3
      <3>2. B \in SUBSET free /\ B # {}
        <4> HIDE DEF A
        <4>. QED
          BY <1>4, <1>6, <3>1
      <3>3. m \in First(B)
        BY <2>1, <2>3
      <3> HIDE DEF A, B
      <3>. QED
        BY <1>0, <3>2, <3>3, Chosen DEF free
    <2>. QED
      BY <2>2, <2>3
  <1>. QED
    BY <1>0, <1>8, <1>9, <1>10, <1>11, <1>12, <1>13 DEF AllStrategies

(* Once a player has decided, its decision stays sound until it acts on it.*)
DecisionInv ==
  pc = "decided" =>
    IF move = NO_VALID_MOVE THEN FreeDirections(Here) = {} ELSE move \in FreeDirections(Here)

LEMMA DecisionStep ==
  ASSUME TypeOK, MoverTypeOK, FloodCalled, DecisionInv, [MatchNext]_matchVars
  PROVE  DecisionInv'
  <1>1. ASSUME UNCHANGED <<vars, me>>
        PROVE  FreeDirections(Here)' = FreeDirections(Here)
    <2>1. Here' = Here /\ \A c, e : IsFreeNeighbor(c, e)' <=> IsFreeNeighbor(c, e)
      BY <1>1, Frozen DEF vars
    <2>. QED
      BY <2>1 DEF FreeDirections
  <1>2. CASE Decide
    <2>1. move' \in BestMoves /\ FreeDirections(Here)' = FreeDirections(Here)
      BY <1>1, <1>2 DEF Decide
    <2>. QED
      BY <2>1, DecisionSound DEF DecisionInv
  <1>3. CASE pc' # "decided"
    BY <1>3 DEF DecisionInv
  <1>4. CASE UNCHANGED matchVars
    <2>1. UNCHANGED <<vars, me>> /\ pc' = pc /\ move' = move
      BY <1>4 DEF matchVars, moverVars
    <2>. QED
      BY <1>1, <2>1 DEF DecisionInv
  <1>5. CASE Setup
    <2>1. pc' # "decided"
      BY <1>5 DEF Setup, RegisterPlayers, PlacePlayers, moverVars, FloodCalled
    <2>. QED
      BY <2>1, <1>3
  <1>. QED
    BY <1>2, <1>3, <1>4, <1>5
    DEF MatchNext, ComputeNextMove, SkipDirection, FloodFails, FloodStarts, PopCell,
        Spread, PassOver, FloodReturns, FloodDone, Send, GiveUp

LEMMA DecisionInvariant == MatchSpec => []DecisionInv
  <1>1. MatchInit => DecisionInv
    BY DEF MatchInit, DecisionInv
  <1>2. TypeOK /\ MoverTypeOK /\ FloodCalled /\ DecisionInv /\ [MatchNext]_matchVars => DecisionInv'
    BY DecisionStep
  <1>. QED
    BY <1>1, <1>2, BoardTyped, MoverTypeCorrect, PTL DEF MatchSpec

(* On boards whose sides fit int16_t, every strategy's choice is a move    *)
(* the master accepts.                                                     *)
THEOREM ChoicesAccepted == ASSUME ShortSides PROVE MatchSpec => []ChoiceAccepted
  <1>1. TypeOK /\ MoverTypeOK /\ DecisionInv => ChoiceAccepted
    BY ShortSides, SameView DEF MoverTypeOK, DecisionInv, ChoiceAccepted
  <1>. QED
    BY <1>1, BoardTyped, MoverTypeCorrect, DecisionInvariant, PTL

(* On such boards a player gives up only when the master would accept      *)
(* nothing from it, whatever its strategy.                                 *)
THEOREM GivesUpWhenShutIn == ASSUME ShortSides PROVE MatchSpec => []GivesUpOnlyWhenShutIn
  <1>1. TypeOK /\ MoverTypeOK /\ DecisionInv => GivesUpOnlyWhenShutIn
    BY ShortSides, SameView DEF MoverTypeOK, DecisionInv, GivesUpOnlyWhenShutIn
  <1>. QED
    BY <1>1, BoardTyped, MoverTypeCorrect, DecisionInvariant, PTL

-----------------------------------------------------------------------------
(* What two of the strategies are for                                      *)

LEMMA DirectionsKept ==
  ASSUME UNCHANGED <<vars, me>>
  PROVE  FreeDirections(Here)' = FreeDirections(Here)
  <1>1. Here' = Here /\ \A c, e : IsFreeNeighbor(c, e)' <=> IsFreeNeighbor(c, e)
    BY Frozen DEF vars
  <1>. QED
    BY <1>1 DEF FreeDirections

(* A decision stands until its player has acted on it.                     *)
LEMMA DecisionKept ==
  ASSUME FloodCalled, [MatchNext]_matchVars, pc' = "decided", ~Decide
  PROVE  pc = "decided" /\ UNCHANGED <<vars, me, strategy, floods, move>>
  BY DEF MatchNext, matchVars, moverVars, scanVars, Setup, RegisterPlayers, PlacePlayers, FloodCalled,
     ComputeNextMove, SkipDirection, FloodFails, FloodStarts, PopCell, Spread, PassOver, FloodReturns,
     FloodDone, Send, GiveUp

(* A flood counts at most the cells of the board.                          *)
FloodsBounded == \A dd \in Directions : floods[dd] <= Width * Height

LEMMA FloodsBoundedInvariant == MatchSpec => []FloodsBounded
  <1>0. Width * Height \in Nat
    BY BoardAssumption
  <1>1. MatchInit => FloodsBounded
    BY <1>0 DEF MatchInit, FloodsBounded
  <1>2. MoverTypeOK /\ FloodInv /\ FloodsBounded /\ [MatchNext]_matchVars => FloodsBounded'
    <2> SUFFICES ASSUME MoverTypeOK, FloodInv, FloodsBounded, [MatchNext]_matchVars,
                        NEW dd \in Directions
                 PROVE  floods'[dd] <= Width * Height
      BY DEF FloodsBounded
    <2>1. CASE FloodReturns
      <3>1. count + 1 = Cardinality(visited) /\ count \in Nat
        BY <2>1 DEF FloodReturns, FloodDone, FloodInv, FloodCounts, MoverTypeOK
      <3>2. Cardinality(visited) <= Width * Height
        BY CellsFinite, FS_Subset DEF MoverTypeOK
      <3>3. count <= Width * Height
        BY <1>0, <3>1, <3>2
      <3>. QED
        BY <2>1, <3>3 DEF FloodReturns, FloodsBounded, MoverTypeOK
    <2>2. CASE floods' = floods
      BY <2>2 DEF FloodsBounded
    <2>3. CASE floods' = [e \in Directions |-> 0]
      BY <1>0, <2>3
    <2>. QED
      BY <2>1, <2>2, <2>3
      DEF MatchNext, matchVars, moverVars, scanVars, Setup, ComputeNextMove, SkipDirection, FloodFails,
          FloodStarts, PopCell, Spread, PassOver, Decide, Send, GiveUp
  <1>. QED
    BY <1>1, <1>2, FloodInvariant, MoverTypeCorrect, PTL DEF MatchSpec

(* The threshold of is_within_survival_threshold is three tenths where the *)
(* product fits an int32_t, and never more than the most space.            *)
LEMMA ThresholdValue ==
  ASSUME NEW most \in Nat
  PROVE  /\ Threshold(most) \in Int /\ Threshold(most) <= most
         /\ most * 3 < Uint32Size \div 2 => Threshold(most) = (most * 3) \div 10
  <1> DEFINE n == most * 3
             u == Uint32(n)
             half == Uint32Size \div 2
             q == n \div Uint32Size
             product == Int32(n)
  <1>0. n \in Nat /\ Uint32Size \in Nat \ {0}
    BY BoardAssumption
  <1>1. half \in Nat /\ half <= Uint32Size
    BY <1>0
  <1>2. q \in Nat /\ u \in 0 .. Uint32Size - 1 /\ n - Uint32Size * q = u
    <2> HIDE DEF n
    <2>. QED
      BY <1>0, Quotient DEF Uint32
  <1>3. product = IF u >= half THEN u - Uint32Size ELSE u
    BY DEF Int32
  <1>4. Threshold(most) = IF product >= 0 THEN product \div 10 ELSE -((-product) \div 10)
    BY DEF Threshold
  <1>5. n = most * 3
    OBVIOUS
  <1> HIDE DEF n, u, half, q, product
  <1>6. Uint32Size * q \in Nat
    BY <1>0, <1>2
  <1>7. product \in Int /\ product <= n
    BY <1>0, <1>2, <1>3, <1>6
  <1>8. n < half => product = n
    <2>1. q # 0 => 0 * Uint32Size + Uint32Size <= q * Uint32Size
      BY <1>0, <1>2, MoreRows
    <2>2. Uint32Size * q = q * Uint32Size /\ 0 * Uint32Size = 0
      BY <1>0, <1>2
    <2>3. n < half => q = 0
      BY <1>0, <1>1, <1>2, <1>6, <2>1, <2>2
    <2>4. n < half => u = n
      BY <1>0, <1>2, <2>3
    <2>. QED
      BY <1>0, <1>1, <1>3, <2>4
  <1>9. Threshold(most) \in Int /\ Threshold(most) <= most
    <2>1. CASE product >= 0
      BY <1>4, <1>5, <1>7, <2>1
    <2>2. CASE product < 0
      <3>1. (-product) \div 10 \in Nat
        BY <1>7, <2>2
      <3>. QED
        BY <1>4, <1>7, <2>2, <3>1
    <2>. QED
      BY <1>7, <2>1, <2>2
  <1>10. n < half => Threshold(most) = n \div 10
    BY <1>0, <1>4, <1>8
  <1>. QED
    BY <1>9, <1>10 DEF n, half

(* The survival threshold of GREEDY_FLOOD is passed by some direction if   *)
(* there is one, wrapped or not; where it is not wrapped, by none that     *)
(* would keep less than it asks for.                                       *)
LEMMA ThresholdPassed ==
  ASSUME MoverTypeOK, FreeDirections(Here) # {}
  PROVE  /\ Survivors # {}
         /\ FloodFits /\ FloodsBounded =>
              \A s \in Survivors : \A dd \in FreeDirections(Here) : floods[s] >= (floods[dd] * 3) \div 10
  <1> DEFINE free == FreeDirections(Here)
             M == {0} \union {floods[dd] : dd \in free}
             most == Max(M)
  <1>1. free \in SUBSET Directions
    BY DEF FreeDirections
  <1>2. \A dd \in free : floods[dd] \in Nat
    BY <1>1 DEF MoverTypeOK
  <1>. HIDE DEF free
  <1>3. Tops(most, M)
    BY <1>1, <1>2, TopDirection
  <1>4. Survivors = {dd \in free : floods[dd] >= Threshold(most)}
    BY DEF Survivors, free
  <1>5. most \in Nat /\ \A dd \in free : floods[dd] <= most
    BY <1>2, <1>3 DEF Tops
  <1>6. most = 0 \/ \E dd \in free : floods[dd] = most
    BY <1>3 DEF Tops
  <1>. HIDE DEF M, most
  <1>7. Threshold(most) \in Int /\ Threshold(most) <= most
    BY <1>5, ThresholdValue
  <1>8. ASSUME NEW m \in Nat, NEW n \in Nat, n <= m PROVE (n * 3) \div 10 <= (m * 3) \div 10
    BY <1>8
  <1>9. Survivors # {}
    <2>1. CASE most = 0
      <3>1. \A dd \in free : floods[dd] >= Threshold(most)
        BY <1>2, <1>7, <2>1
      <3>. QED
        BY <1>4, <3>1 DEF free
    <2>2. CASE \E dd \in free : floods[dd] = most
      BY <1>4, <1>5, <1>7, <2>2
    <2>. QED
      BY <1>6, <2>1, <2>2
  <1>10. ASSUME FloodFits, FloodsBounded, NEW s \in Survivors, NEW dd \in free
         PROVE  floods[s] >= (floods[dd] * 3) \div 10
    <2>0. Threshold(most) = (most * 3) \div 10
      <3> DEFINE cells == Width * Height
                 half == Uint32Size \div 2
      <3>1. cells \in Nat /\ half \in Int /\ 3 * cells < half
        BY <1>10, BoardAssumption DEF FloodFits
      <3>2. most <= cells
        <4>1. \A e \in free : floods[e] <= cells
          BY <1>1, <1>10 DEF FloodsBounded
        <4> HIDE DEF cells
        <4>. QED
          BY <1>6, <3>1, <4>1
      <3>3. most * 3 < half
        <4> HIDE DEF cells, half
        <4>. QED
          BY <1>5, <3>1, <3>2
      <3>. QED
        BY <1>5, <3>3, ThresholdValue
    <2>1. floods[s] >= (most * 3) \div 10 /\ floods[s] \in Nat
      BY <1>2, <1>4, <2>0
    <2>2. (floods[dd] * 3) \div 10 <= (most * 3) \div 10
      BY <1>2, <1>5, <1>8
    <2>3. (floods[dd] * 3) \div 10 \in Int /\ (most * 3) \div 10 \in Int
      BY <1>2, <1>5
    <2>. QED
      BY <2>1, <2>2, <2>3
  <1>. QED
    BY <1>9, <1>10 DEF free

LEMMA SpaceKeptStep ==
  ASSUME FloodFits, TypeOK, MoverTypeOK, FloodCalled, FloodsBounded, SpaceKept, [MatchNext]_matchVars
  PROVE  SpaceKept'
  <1> SUFFICES ASSUME pc' = "decided", move' # NO_VALID_MOVE, strategy'[me'] = "GREEDY_FLOOD"
               PROVE  \A dd \in FreeDirections(Here)' : floods'[move'] >= (floods'[dd] * 3) \div 10
    BY DEF SpaceKept
  <1>1. CASE Decide
    <2>1. UNCHANGED <<vars, me, strategy, floods>> /\ move' \in BestMoves
      BY <1>1 DEF Decide, scanVars
    <2>2. FreeDirections(Here)' = FreeDirections(Here)
      BY <2>1, DirectionsKept
    <2>3. FreeDirections(Here) # {}
      BY <2>1, DecisionSound
    <2>4. move' \in First(Best(Best(Survivors, Reward), floods))
      <3>1. Survivors # {}
        BY <2>3, ThresholdPassed
      <3>2. strategy[me] = "GREEDY_FLOOD"
        BY <2>1
      <3>. QED
        BY <2>1, <3>1, <3>2 DEF BestMoves
    <2>5. move' \in Survivors
      BY <2>4 DEF First, Best
    <2>. QED
      BY <2>1, <2>2, <2>3, <2>5, ThresholdPassed
  <1>2. CASE ~Decide
    <2>1. pc = "decided" /\ UNCHANGED <<vars, me, strategy, floods, move>>
      BY <1>2, DecisionKept
    <2>2. FreeDirections(Here)' = FreeDirections(Here)
      BY <2>1, DirectionsKept
    <2>. QED
      BY <2>1, <2>2 DEF SpaceKept
  <1>. QED
    BY <1>1, <1>2

(* GREEDY_FLOOD never gives up more than seven tenths of the space it      *)
(* could keep, rounding included, on every board with less than 2^31 / 3   *)
(* cells: beyond that its product may wrap.                                *)
THEOREM FloodKeepsSpace == ASSUME FloodFits PROVE MatchSpec => []SpaceKept
  <1>1. MatchInit => SpaceKept
    BY DEF MatchInit, SpaceKept
  <1>2. TypeOK /\ MoverTypeOK /\ FloodCalled /\ FloodsBounded /\ SpaceKept /\ [MatchNext]_matchVars =>
          SpaceKept'
    BY FloodFits, SpaceKeptStep
  <1>. QED
    BY <1>1, <1>2, BoardTyped, MoverTypeCorrect, FloodsBoundedInvariant, PTL DEF MatchSpec

LEMMA ValuesKept ==
  ASSUME UNCHANGED <<vars, me>>
  PROVE  \A dd : PathTotals(dd)' = PathTotals(dd)
  <1>1. UNCHANGED <<board, x, y, me>>
    BY DEF vars
  <1>2. \A c : BoardAt(c)' = BoardAt(c)
    BY <1>1 DEF BoardAt, Offset
  <1>3. \A c : FreeAround(c)' = FreeAround(c)
    BY <1>1, Frozen DEF FreeAround, FreeDirections, Neighbor
  <1>4. \A dd : Neighbor(Here, dd)' = Neighbor(Here, dd)
    BY <1>1, Frozen DEF Neighbor
  <1>. QED
    BY <1>2, <1>3, <1>4 DEF PathTotals

(* Two more cells from a neighbour: lookahead(2) is the best of them.      *)
LEMMA AheadBest ==
  ASSUME TypeOK, NEW a \in Cells, NEW path
  PROVE  Tops(Ahead1(a, path), {0} \union {BoardAt(n) : n \in FreeAround(a) \ path})
         /\ Tops(Ahead2(a, path),
                 {0} \union {BoardAt(n) + Ahead1(n, path \union {n}) : n \in FreeAround(a) \ path})
  <1>1. FreeAround(a) \subseteq Cells
    BY FreeOnBoard DEF FreeAround, FreeDirections
  <1> DEFINE T == FreeAround(a) \ path
  <1>2. T \in SUBSET FreeAround(a) /\ T \subseteq Cells
    BY <1>1
  <1>3. Tops(Ahead1(a, path), {0} \union {BoardAt(n) : n \in T})
    <2> DEFINE g == [n \in T |-> BoardAt(n)]
    <2>1. \A n \in T : g[n] \in Int
      BY <1>2, CellValue
    <2>2. {g[n] : n \in T} = {BoardAt(n) : n \in T}
      OBVIOUS
    <2>3. Tops(Max({0} \union {g[n] : n \in T}), {0} \union {g[n] : n \in T})
      <3> HIDE DEF T, g
      <3>. QED
        BY <1>2, <2>1, TopAround
    <2>. QED
      BY <2>2, <2>3 DEF Ahead1
  <1>4. Tops(Ahead2(a, path), {0} \union {BoardAt(n) + Ahead1(n, path \union {n}) : n \in T})
    <2> DEFINE g == [n \in T |-> BoardAt(n) + Ahead1(n, path \union {n})]
    <2>1. \A n \in T : g[n] \in Int
      BY <1>2, CellValue, AheadType
    <2>2. {g[n] : n \in T} = {BoardAt(n) + Ahead1(n, path \union {n}) : n \in T}
      OBVIOUS
    <2>3. Tops(Max({0} \union {g[n] : n \in T}), {0} \union {g[n] : n \in T})
      <3> HIDE DEF T, g
      <3>. QED
        BY <1>2, <2>1, TopAround
    <2>. QED
      BY <2>2, <2>3 DEF Ahead2
  <1>. QED
    BY <1>3, <1>4

(* The recursion over the neighbours finds the richest path.               *)
LEMMA LookaheadIsRichest ==
  ASSUME TypeOK, me \in Players, NEW dd \in FreeDirections(Here)
  PROVE  Lookahead[dd] \in Int /\ Max(PathTotals(dd)) = Lookahead[dd]
  <1> DEFINE a == Neighbor(Here, dd)
             Second == FreeAround(a) \ {a}
             Third(b) == FreeAround(b) \ {a, b}
             P == PathTotals(dd)
             most == BoardAt(a) + Ahead2(a, {a})
  <1>1. a \in Cells
    BY FreeOnBoard DEF FreeDirections
  <1>2. P = {BoardAt(a)} \union {BoardAt(a) + BoardAt(b) : b \in Second}
              \union UNION {{BoardAt(a) + BoardAt(b) + BoardAt(c) : c \in Third(b)} : b \in Second}
    BY DEF PathTotals
  <1>3. Lookahead[dd] = most
    BY DEF Lookahead
  <1>. HIDE DEF a, P
  <1>4. /\ Second \subseteq Cells /\ \A b \in Second : Third(b) \subseteq Cells
        /\ \A b \in Second : {a} \union {b} = {a, b}
    BY <1>1, FreeOnBoard DEF FreeAround, FreeDirections
  <1>. HIDE DEF Third
  <1>5. Tops(Ahead2(a, {a}), {0} \union {BoardAt(b) + Ahead1(b, {a} \union {b}) : b \in Second})
    BY <1>1, AheadBest
  <1>6. \A b \in Second : Tops(Ahead1(b, {a, b}), {0} \union {BoardAt(c) : c \in Third(b)})
    BY <1>4, AheadBest DEF Third
  <1>. HIDE DEF Second
  <1>7. \A c \in Cells : BoardAt(c) \in Int
    BY CellValue
  <1>8. most \in Int /\ BoardAt(a) \in Int /\ Ahead2(a, {a}) \in Int
    BY <1>1, <1>5, <1>7 DEF Tops
  <1>9. most \in P
    <2>1. CASE Ahead2(a, {a}) = 0
      BY <1>2, <1>8, <2>1
    <2>2. ASSUME NEW b \in Second, Ahead2(a, {a}) = BoardAt(b) + Ahead1(b, {a} \union {b})
          PROVE  most \in P
      <3>1. BoardAt(b) \in Int /\ Ahead2(a, {a}) = BoardAt(b) + Ahead1(b, {a, b})
        BY <1>4, <1>7, <2>2
      <3>2. CASE Ahead1(b, {a, b}) = 0
        <4>1. Ahead2(a, {a}) = BoardAt(b)
          BY <3>1, <3>2
        <4>2. most = BoardAt(a) + BoardAt(b)
          BY <4>1
        <4>. QED
          BY <1>2, <4>2
      <3>3. ASSUME NEW c \in Third(b), Ahead1(b, {a, b}) = BoardAt(c)
            PROVE  most \in P
        <4>1. BoardAt(c) \in Int
          BY <1>4, <1>7
        <4>2. most = BoardAt(a) + BoardAt(b) + BoardAt(c)
          BY <1>8, <3>1, <3>3, <4>1
        <4>. QED
          BY <1>2, <4>2
      <3>. QED
        BY <1>6, <3>2, <3>3 DEF Tops
    <2>. QED
      BY <1>5, <2>1, <2>2 DEF Tops
  <1>10. ASSUME NEW t \in P PROVE t \in Int /\ most >= t
    <2>0. Ahead2(a, {a}) >= 0
      BY <1>5 DEF Tops
    <2>1. CASE t = BoardAt(a)
      BY <1>8, <2>0, <2>1
    <2>2. ASSUME NEW b \in Second PROVE Ahead1(b, {a, b}) \in Nat /\ BoardAt(b) \in Int
                                        /\ Ahead2(a, {a}) >= BoardAt(b) + Ahead1(b, {a, b})
      <3>1. Ahead1(b, {a, b}) \in Int /\ Ahead1(b, {a, b}) >= 0
        BY <1>6 DEF Tops
      <3>2. Ahead2(a, {a}) >= BoardAt(b) + Ahead1(b, {a} \union {b})
        BY <1>5 DEF Tops
      <3>3. Ahead1(b, {a} \union {b}) = Ahead1(b, {a, b})
        BY <1>4
      <3>. QED
        BY <1>4, <1>7, <3>1, <3>2, <3>3
    <2>3. ASSUME NEW b \in Second, t = BoardAt(a) + BoardAt(b) PROVE t \in Int /\ most >= t
      <3> DEFINE e == Ahead1(b, {a, b})
                 f == Ahead2(a, {a})
                 v == BoardAt(b)
      <3>1. e \in Nat /\ f \in Int /\ v \in Int /\ f >= v + e
        BY <1>8, <2>2
      <3> HIDE DEF e, f, v
      <3>2. f >= v
        BY <3>1
      <3>3. Ahead2(a, {a}) >= BoardAt(b) /\ BoardAt(b) \in Int
        BY <3>1, <3>2 DEF f, v
      <3>. QED
        BY <1>8, <2>3, <3>3
    <2>4. ASSUME NEW b \in Second, NEW c \in Third(b), t = BoardAt(a) + BoardAt(b) + BoardAt(c)
          PROVE  t \in Int /\ most >= t
      <3>1. BoardAt(c) \in Int /\ Ahead1(b, {a, b}) >= BoardAt(c)
        BY <1>4, <1>6, <1>7 DEF Tops
      <3>. QED
        BY <1>8, <2>2, <2>4, <3>1
    <2>. QED
      BY <1>2, <2>1, <2>3, <2>4
  <1>. HIDE DEF most
  <1>11. P \in SUBSET Int /\ \A t \in P : most >= t
    BY <1>10
  <1>12. Max(P) = most
    BY <1>9, <1>11, MaxTops
  <1>. QED
    BY <1>3, <1>8, <1>12 DEF P

LEMMA LookaheadStep ==
  ASSUME TypeOK, MoverTypeOK, FloodCalled, LookaheadOptimal, [MatchNext]_matchVars
  PROVE  LookaheadOptimal'
  <1> SUFFICES ASSUME pc' = "decided", move' # NO_VALID_MOVE, strategy'[me'] = "GREEDY_LOOKAHEAD",
                      NEW dd \in FreeDirections(Here)'
               PROVE  Max(PathTotals(dd)') <= Max(PathTotals(move)')
    BY DEF LookaheadOptimal
  <1>1. CASE Decide
    <2>1. UNCHANGED <<vars, me, strategy>> /\ move' \in BestMoves /\ me \in Players
      BY <1>1 DEF Decide, MoverTypeOK
    <2>2. dd \in FreeDirections(Here)
      BY <2>1, DirectionsKept
    <2>3. move' \in Best(FreeDirections(Here), Lookahead)
      <3>1. strategy[me] = "GREEDY_LOOKAHEAD"
        BY <2>1
      <3>2. move' \in First(Best(FreeDirections(Here), Lookahead))
        BY <2>1, <3>1 DEF BestMoves
      <3>. QED
        BY <3>2 DEF First
    <2>4. move' \in FreeDirections(Here) /\ Lookahead[move'] >= Lookahead[dd]
      BY <2>2, <2>3 DEF Best
    <2>5. Max(PathTotals(dd)) = Lookahead[dd] /\ Lookahead[dd] \in Int
      BY <2>1, <2>2, LookaheadIsRichest
    <2>6. PICK m \in FreeDirections(Here) : m = move'
      BY <2>4
    <2>7. Max(PathTotals(m)) = Lookahead[m] /\ Lookahead[m] \in Int
      BY <2>1, LookaheadIsRichest
    <2>8. PathTotals(move)' = PathTotals(m) /\ PathTotals(dd)' = PathTotals(dd)
      <3>1. UNCHANGED <<vars, me>>
        BY <2>1
      <3>2. PathTotals(m)' = PathTotals(m) /\ PathTotals(dd)' = PathTotals(dd)
        BY <3>1, ValuesKept
      <3>3. PathTotals(move)' = PathTotals(m)'
        BY <2>6 DEF PathTotals
      <3>. QED
        BY <3>2, <3>3
    <2>. QED
      BY <2>4, <2>5, <2>6, <2>7, <2>8
  <1>2. CASE ~Decide
    <2>1. pc = "decided" /\ UNCHANGED <<vars, me, strategy, floods, move>>
      BY <1>2, DecisionKept
    <2>2. FreeDirections(Here)' = FreeDirections(Here)
      BY <2>1, DirectionsKept
    <2>3. PathTotals(dd)' = PathTotals(dd) /\ PathTotals(move)' = PathTotals(move)
      <3>1. UNCHANGED <<vars, me>>
        BY <2>1
      <3>2. PICK m : m = move
        OBVIOUS
      <3>3. PathTotals(m)' = PathTotals(m) /\ PathTotals(dd)' = PathTotals(dd)
        BY <3>1, ValuesKept
      <3>4. PathTotals(move)' = PathTotals(m)' /\ PathTotals(move) = PathTotals(m)
        BY <2>1, <3>2 DEF PathTotals
      <3>. QED
        BY <3>3, <3>4
    <2>4. Max(PathTotals(dd)) <= Max(PathTotals(move))
      BY <2>1, <2>2 DEF LookaheadOptimal
    <2>. QED
      BY <2>3, <2>4
  <1>. QED
    BY <1>1, <1>2

(* GREEDY_LOOKAHEAD's recursion over the neighbours that are not on the    *)
(* path starts the richest path of at most three different cells, on any   *)
(* board.                                                                  *)
THEOREM LookaheadFindsRichest == MatchSpec => []LookaheadOptimal
  <1>1. MatchInit => LookaheadOptimal
    BY DEF MatchInit, LookaheadOptimal
  <1>2. TypeOK /\ MoverTypeOK /\ FloodCalled /\ LookaheadOptimal /\ [MatchNext]_matchVars => LookaheadOptimal'
    BY LookaheadStep
  <1>. QED
    BY <1>1, <1>2, BoardTyped, MoverTypeCorrect, PTL DEF MatchSpec

=============================================================================
