--------------------------- MODULE GameLoopProofs ---------------------------
(* Proofs about the running game, for any set of games: any number of      *)
(* players, a view or none, any number of rewards, signals to anybody and  *)
(* players or the view killed at any moment.                               *)
EXTENDS GameLoop, TLAPS

(* The proofs of the lock, about the players and the master.               *)
LockProofs == INSTANCE GameSyncProofs WITH Readers <- Players, Writers <- {Master}

(* Where the processes are inside the lock.  A player between two looks,   *)
(* waiting for its turn or about to leave, holds nothing of the lock, and  *)
(* neither does the master outside of process_player_move's section: no    *)
(* process ever waits for a turn, a frame or a child inside the lock.      *)
LockPlaces ==
  /\ \A p \in Players :
       /\ ppc[p] = "look" =>
            lpc[p] \in {"enter", "turnstile", "count", "counting", "first", "counted"}
       /\ ppc[p] = "compute" => lpc[p] = "reading"
       /\ ppc[p] = "leave" => lpc[p] \in {"leave", "leaving", "last", "left", "idle"}
       /\ ppc[p] \in {"first_turn", "top", "next_turn", "check"} => lpc[p] = "idle"
  /\ mpc = "apply" <=> lpc[Master] # "idle"

(* TurnConservation, and what makes it inductive: a dead player has at     *)
(* most the turn it died with, and a player that thinks about a move has   *)
(* none in its pipe.                                                       *)
OneTurn(p) ==
  /\ ppc[p] # "exited" => p \in Present /\ TurnsOf(p) = 1 + B(EndPosted(p))
  /\ TurnsOf(p) <= 1 + B(EndPosted(p))
  /\ ppc[p] \in {"first_turn", "top", "look", "compute", "leave"} => pipe[p] = 0
Turns == \A p \in Players : OneTurn(p)

(* The move that is under way was chosen around the player's position, and *)
(* the cell of a fresh one is still there.                                 *)
SentNow(p) == pipe[p] > 0 \/ (mpc = "apply" /\ Idx = p /\ lpc[Master] # "release")
ChoiceOK(p) ==
  /\ SentNow(p) => look[p] \in {"fresh", "raced", "early"}
  /\ ppc[p] = "leave" => look[p] # "moved"
  /\ look[p] = "fresh" => free > 0
Choices == \A p \in Players : ChoiceOK(p)

(* Whoever select() reported and the round has not served yet can still be *)
(* read: only the master takes bytes out of a pipe, one player a round.    *)
PlayerAt(j) == (round.start + j) % PlayersCount
Serving == mpc \in {"apply", "grant"}
Readable(p) == pipe[p] > 0 \/ Eof(p)
Unserved(j) == IF Serving THEN j > round.i ELSE j >= round.i
StillReadable(j) == Unserved(j) /\ PlayerAt(j) \in round.fds => Readable(PlayerAt(j))
RoundReadable ==
  mpc \in {"view", "wait_view", "round", "apply", "grant"} =>
    \A j \in Present : StillReadable(j)

(* Which stages of the master, the view and the game go together.          *)
EndTold == {"close_pipes", "wait_players", "wait_view_exit", "done"}
Stages ==
  /\ mpc \in {"view", "wait_view"} => has_view /\ round.i = 0
  /\ Serving => round.i < PlayersCount
  /\ ended <=> mpc \in AfterLoop \ {"game_end"}
  /\ vpc \notin {"absent", "exited"} => has_view
  /\ vpc = "absent" => ~has_view
  /\ vpc = "results" => ended \/ View \in interrupted
  /\ vpc = "shown" => ended

(* The frame the master asked for is in one place: the semaphore that asks *)
(* for it, the view that draws it, or the semaphore that answers.          *)
FramesInStep ==
  view_may_render + view_rendered + B(vpc \in {"frame", "draw"})
    <= B(mpc = "wait_view") + B(mpc \in EndTold)

(* What the screen shows, from the moment it is drawn to the end of the    *)
(* round that follows.                                                     *)
MoveApplied == mpc = "grant" \/ (mpc = "apply" /\ lpc[Master] = "release")
ScreenFollows ==
  /\ vpc = "draw" => screen = free
  /\ vpc = "wait" /\ mpc = "wait_view" /\ view_rendered > 0 => screen = free
  /\ vpc = "wait" /\ mpc \in {"round", "apply", "grant"} =>
       free <= screen /\ screen <= free + round.i + B(MoveApplied)

IInv ==
  /\ TypeOK /\ LockProofs!IInv /\ LockPlaces
  /\ Turns /\ Choices /\ RoundReadable
  /\ Stages /\ FramesInStep /\ ScreenFollows

-----------------------------------------------------------------------------
(* The players and the rounds                                              *)

(* A game that was started has players, all of them known, numbered from 0. *)
LEMMA GameFacts ==
  ASSUME game \in Games
  PROVE  /\ PlayersCount \in Nat /\ PlayersCount > 0
         /\ Present \subseteq Players /\ 0 \in Present
         /\ game.view \in BOOLEAN /\ game.cells \in Nat
         /\ game.signalled \subseteq Players \union {Master, View}
  <1>1. game \in [players : Nat \ {0}, view : BOOLEAN, cells : Nat,
                  signalled : SUBSET (Players \union {Master, View}),
                  killable : SUBSET (Players \union {View})]
    BY GameAssumption
  <1>2. Present \subseteq Players
    BY Zenon DEF Players, Present, PlayersCount
  <1>. QED
    BY <1>1, <1>2 DEF PlayersCount, Present

(* Two numbers below n add up to less than 2 * n: one subtraction at most. *)
LEMMA ModSum ==
  ASSUME NEW n \in Nat, n > 0, NEW a \in 0 .. n - 1, NEW b \in 0 .. n - 1
  PROVE  (a + b) % n = IF a + b < n THEN a + b ELSE a + b - n
  OBVIOUS

LEMMA ModRange ==
  ASSUME NEW n \in Nat, n > 0, NEW a \in Nat
  PROVE  a % n \in 0 .. n - 1
  OBVIOUS

(* A round passes by every player: different steps of it are about         *)
(* different players.                                                      *)
LEMMA PlayersOfRound ==
  ASSUME TypeOK, NEW j \in Present, NEW k \in Present
  PROVE  /\ PlayerAt(j) \in Present
         /\ PlayerAt(j) = PlayerAt(k) => j = k
  <1>. DEFINE n == PlayersCount
  <1>1. n \in Nat /\ n > 0 /\ Present = 0 .. n - 1 /\ round.start \in 0 .. n - 1
    BY GameFacts DEF TypeOK, Present
  <1>. HIDE DEF n
  <1>2. PlayerAt(j) = (round.start + j) % n /\ PlayerAt(k) = (round.start + k) % n
    BY DEF PlayerAt, n
  <1>3. (round.start + j) % n = IF round.start + j < n THEN round.start + j ELSE round.start + j - n
    BY <1>1, ModSum
  <1>4. (round.start + k) % n = IF round.start + k < n THEN round.start + k ELSE round.start + k - n
    BY <1>1, ModSum
  <1>5. PlayerAt(j) \in Present
    <2>1. round.start + j \in Nat
      BY <1>1
    <2>2. (round.start + j) % n \in 0 .. n - 1
      BY <1>1, <2>1, ModRange
    <2>. QED
      BY <1>1, <1>2, <2>2, Zenon
  <1>. DEFINE a == PlayerAt(j)
              b == PlayerAt(k)
  <1>6. /\ a = IF round.start + j < n THEN round.start + j ELSE round.start + j - n
        /\ b = IF round.start + k < n THEN round.start + k ELSE round.start + k - n
    BY <1>2, <1>3, <1>4
  <1>. HIDE DEF a, b
  <1>7. a = b => j = k
    BY <1>1, <1>6
  <1>. QED
    BY <1>5, <1>7 DEF a, b

(* The player a round is at.                                               *)
LEMMA IdxPresent ==
  ASSUME TypeOK
  PROVE  /\ Idx = PlayerAt(round.i)
         /\ Idx \in Present /\ Idx \in Players
  <1>1. PlayersCount \in Nat /\ PlayersCount > 0 /\ round.start + round.i \in Nat
    BY GameFacts DEF TypeOK, Present
  <1>2. Idx \in 0 .. PlayersCount - 1
    BY <1>1, ModRange DEF Idx
  <1>. QED
    BY <1>2, GameFacts DEF TypeOK, Idx, PlayerAt, Present

-----------------------------------------------------------------------------
(* What the steps leave alone                                              *)

LEMMA PlayerLeaves ==
  ASSUME NEW p \in Players, PlayerStep(p)
  PROVE  UNCHANGED <<frameVars, stateVars, masterVars, viewVars, envVars>>
  BY DEF PlayerStep, PlayerOnly, FirstTurn, LeaveOnSignal, StartLooking, EnterLock, Look, LeaveLock,
     GiveUp, Send, SendToNobody, NextTurn, CheckEnded

LEMMA ViewLeaves ==
  ASSUME ViewStep \/ KeyPressed \/ KillView
  PROVE  UNCHANGED <<lockVars, turnVars, stateVars, playerVars, masterVars, envVars>>
  BY DEF ViewStep, ViewOnly, WaitFrame, StartDrawing, FrameDone, LastFrame, SkipResults, ShowResults,
     KeyPressed, KillView

LEMMA MasterLeaves ==
  ASSUME MasterStep
  PROVE  UNCHANGED <<ppc, viewVars, game, interrupted>>
  BY DEF MasterStep, viewVars, playerVars, envVars, PlacePlayer, LoopTest, Select, SyncView, WaitViewDone, SkipPlayer,
     Recv, Disconnect, TakeLock, ApplyMove, ReleaseLock, GrantTurn, EndRound, GameEnd, PostTurn,
     NotifyEnd, ClosePipes, WaitPlayers, WaitViewExit

(* Every step is a step of the master, of the view, of one player, or of   *)
(* the environment.                                                        *)
LEMMA StepCases ==
  ASSUME [Next]_vars
  PROVE  \/ MasterStep
         \/ ViewStep \/ KeyPressed \/ KillView
         \/ \E p \in Players : PlayerStep(p)
         \/ \E p \in game.killable \ {View} : KillPlayer(p)
         \/ TimePasses
         \/ \E q \in game.signalled : Signal(q)
         \/ UNCHANGED vars
  BY Zenon DEF Next, Environment, Done

(* The lock's steps of a player are not steps of the others in it.         *)
LEMMA PlayerInLock ==
  ASSUME TypeOK, NEW p \in Players,
         \/ Lock!ReaderCall(p) \/ Lock!ReaderEnter(p) \/ Lock!StopReading(p) \/ Lock!ReaderExit(p)
  PROVE  /\ lpc'[Master] = lpc[Master]
         /\ \A q \in Players \ {p} : lpc'[q] = lpc[q]
  <1>1. lpc \in [Players \union {Master} -> Lock!ReaderPC \union Lock!WriterPC] /\ p # Master
    BY GameAssumption DEF TypeOK, Lock!TypeOK
  <1>2. \E pc : lpc' = [lpc EXCEPT ![p] = pc]
    BY DEF Lock!ReaderCall, Lock!ReaderEnter, Lock!StopReading, Lock!ReaderExit,
       Lock!PassTurnstile, Lock!ReopenTurnstile, Lock!LockCount, Lock!CountIn, Lock!FirstReaderLocks,
       Lock!StartReading, Lock!LockCountToLeave, Lock!CountOut, Lock!LastReaderUnlocks,
       Lock!ReaderReturn, Lock!Goto
  <1>. QED
    BY <1>1, <1>2

LEMMA MasterInLock ==
  ASSUME TypeOK,
         \/ Lock!WriterCall(Master) \/ Lock!WriterEnter(Master) \/ Lock!StopWriting(Master)
         \/ Lock!WriterReturn(Master)
  PROVE  \A q \in Players : lpc'[q] = lpc[q]
  <1>1. lpc \in [Players \union {Master} -> Lock!ReaderPC \union Lock!WriterPC] /\ Master \notin Players
    BY GameAssumption DEF TypeOK, Lock!TypeOK
  <1>2. \E pc : lpc' = [lpc EXCEPT ![Master] = pc]
    BY DEF Lock!WriterCall, Lock!WriterEnter, Lock!StopWriting, Lock!WriterReturn,
       Lock!CloseTurnstile, Lock!StartWriting, Lock!Goto
  <1>. QED
    BY <1>1, <1>2

-----------------------------------------------------------------------------
(* The lock                                                                *)

(* The players are finitely many and the master is none of them.           *)
LEMMA Processes == LockProofs!IsFiniteSet(Players) /\ Players \intersect {Master} = {}
  BY GameAssumption DEF IsFiniteSet, LockProofs!IsFiniteSet

(* A step of the game is a step of the lock, or none.                      *)
LEMMA LockStep == [Next]_vars => [Lock!Next]_Lock!syncVars
  <1> SUFFICES ASSUME [Next]_vars, ~ UNCHANGED Lock!syncVars PROVE Lock!Next
    OBVIOUS
  <1>1. ASSUME NEW p \in Players, PlayerStep(p) PROVE Lock!Next
    <2>1. Lock!ReaderCall(p) \/ Lock!ReaderEnter(p) \/ Lock!StopReading(p) \/ Lock!ReaderExit(p)
      BY <1>1 DEF PlayerStep, FirstTurn, LeaveOnSignal, StartLooking, EnterLock, Look, LeaveLock, GiveUp,
         Send, SendToNobody, NextTurn, CheckEnded, lockVars, Lock!syncVars
    <2>. QED
      BY <2>1, Zenon DEF Lock!Next, Lock!ReaderStep
  <1>2. CASE MasterStep
    <2>1. \/ Lock!WriterCall(Master) \/ Lock!WriterEnter(Master) \/ Lock!StopWriting(Master)
          \/ Lock!WriterReturn(Master)
      BY <1>2 DEF MasterStep, PlacePlayer, LoopTest, Select, SyncView, WaitViewDone, SkipPlayer, Recv, Disconnect,
         TakeLock, ApplyMove, ReleaseLock, GrantTurn, EndRound, GameEnd, PostTurn, NotifyEnd,
         ClosePipes, WaitPlayers, WaitViewExit, lockVars, Lock!syncVars
    <2>. QED
      BY <2>1, Zenon DEF Lock!Next, Lock!WriterStep, Lock!WriterExit
  <1>3. ~ (ViewStep \/ KeyPressed \/ KillView)
    BY ViewLeaves DEF lockVars, Lock!syncVars
  <1>4. ~ (TimePasses \/ UNCHANGED vars)
    BY DEF TimePasses, vars, lockVars, Lock!syncVars
  <1>5. ~ (\E q \in game.signalled : Signal(q)) /\ ~ (\E p \in game.killable \ {View} : KillPlayer(p))
    BY DEF Signal, KillPlayer, lockVars, Lock!syncVars
  <1>. QED
    BY <1>1, <1>2, <1>3, <1>4, <1>5, StepCases

(* The lock inside the game and the lock of module GameSyncProofs are one. *)
LEMMA SameLock == [Lock!Next]_Lock!syncVars => [LockProofs!Next]_LockProofs!syncVars
  <1> USE DEF Lock!Goto, LockProofs!Goto, Lock!SemWait, LockProofs!SemWait, Lock!SemPost, LockProofs!SemPost
  <1>1. ASSUME NEW r \in Players, Lock!ReaderCall(r) PROVE LockProofs!Next
    BY <1>1 DEF Lock!ReaderCall, LockProofs!ReaderCall, LockProofs!Next
  <1>2. ASSUME NEW r \in Players, Lock!ReaderEnter(r) PROVE LockProofs!Next
    <2>1. LockProofs!ReaderEnter(r)
      BY <1>2, Zenon DEF Lock!ReaderEnter, LockProofs!ReaderEnter,
         Lock!PassTurnstile, LockProofs!PassTurnstile, Lock!ReopenTurnstile, LockProofs!ReopenTurnstile,
         Lock!LockCount, LockProofs!LockCount, Lock!CountIn, LockProofs!CountIn,
         Lock!FirstReaderLocks, LockProofs!FirstReaderLocks, Lock!StartReading, LockProofs!StartReading
    <2>. QED
      BY <2>1 DEF LockProofs!Next, LockProofs!ReaderStep
  <1>3. ASSUME NEW r \in Players, Lock!StopReading(r) PROVE LockProofs!Next
    BY <1>3 DEF Lock!StopReading, LockProofs!StopReading, LockProofs!Next, LockProofs!ReaderStep
  <1>4. ASSUME NEW r \in Players, Lock!ReaderExit(r) PROVE LockProofs!Next
    <2>1. LockProofs!ReaderExit(r)
      BY <1>4, Zenon DEF Lock!ReaderExit, LockProofs!ReaderExit,
         Lock!LockCountToLeave, LockProofs!LockCountToLeave, Lock!CountOut, LockProofs!CountOut,
         Lock!LastReaderUnlocks, LockProofs!LastReaderUnlocks, Lock!ReaderReturn, LockProofs!ReaderReturn
    <2>. QED
      BY <2>1 DEF LockProofs!Next, LockProofs!ReaderStep
  <1>5. ASSUME NEW w \in {Master}, Lock!WriterCall(w) PROVE LockProofs!Next
    BY <1>5 DEF Lock!WriterCall, LockProofs!WriterCall, LockProofs!Next
  <1>6. ASSUME NEW w \in {Master}, Lock!WriterStep(w) PROVE LockProofs!Next
    <2>1. LockProofs!WriterStep(w)
      BY <1>6, Zenon DEF Lock!WriterStep, LockProofs!WriterStep, Lock!WriterEnter, LockProofs!WriterEnter,
         Lock!WriterExit, LockProofs!WriterExit, Lock!CloseTurnstile, LockProofs!CloseTurnstile,
         Lock!StartWriting, LockProofs!StartWriting, Lock!StopWriting, LockProofs!StopWriting,
         Lock!WriterReturn, LockProofs!WriterReturn
    <2>. QED
      BY <2>1 DEF LockProofs!Next
  <1>7. UNCHANGED Lock!syncVars => UNCHANGED LockProofs!syncVars
    BY DEF Lock!syncVars, LockProofs!syncVars
  <1>. QED
    BY <1>1, <1>2, <1>3, <1>4, <1>5, <1>6, <1>7 DEF Lock!Next, Lock!ReaderStep

(* The lock's own invariant, with the types it gives the lock's variables. *)
LEMMA LockInit == Init => LockProofs!IInv
  <1>1. Lock!Init => LockProofs!Init
    BY DEF Lock!Init, LockProofs!Init
  <1>. QED
    BY <1>1, LockProofs!InitIInv, Processes DEF Init

LEMMA LockInvStep == LockProofs!IInv /\ [Next]_vars => LockProofs!IInv'
  BY LockStep, SameLock, LockProofs!NextIInv, Processes

LEMMA LockTypes == LockProofs!IInv => Lock!TypeOK
  BY DEF LockProofs!IInv, LockProofs!TypeOK, Lock!TypeOK, LockProofs!ReaderPC, LockProofs!WriterPC,
     Lock!ReaderPC, Lock!WriterPC

-----------------------------------------------------------------------------
(* The invariant                                                           *)

(* The state in which master_run begins satisfies the invariant.           *)
THEOREM InitIInv == Init => IInv
  <1> SUFFICES ASSUME Init PROVE IInv
    OBVIOUS
  <1> USE GameFacts DEF Init
  <1>1. LockProofs!IInv /\ Lock!TypeOK
    BY LockInit, LockTypes
  <1>2. TypeOK
    <2>1. NoRound \in [start : Present, i : 0 .. PlayersCount, last : Present,
                      fds : SUBSET Present, valid : BOOLEAN]
      BY DEF NoRound
    <2>2. free \in 0 .. game.cells /\ screen \in 0 .. NoFrame
      BY DEF NoFrame
    <2>3. ppc \in [Players -> PlayerPC] /\ look \in [Players -> LookKinds]
      BY DEF PlayerPC, LookKinds
    <2>4. token \in [Players -> 0 .. 2] /\ pipe \in [Players -> 0 .. 1]
      OBVIOUS
    <2>5. mpc \in MasterPC /\ vpc \in ViewPC /\ has_view \in BOOLEAN
      BY DEF MasterPC, ViewPC
    <2>6. view_may_render \in 0 .. 2 /\ view_rendered \in 0 .. 1
      OBVIOUS
    <2>. QED
      BY <1>1, <2>1, <2>2, <2>3, <2>4, <2>5, <2>6 DEF TypeOK
  <1>3. LockPlaces
    BY DEF LockPlaces, Lock!Init
  <1>4. Turns
    BY DEF Turns, OneTurn, TurnsOf, EndPosted, AfterLoop, B
  <1>5. Choices
    BY DEF Choices, ChoiceOK, SentNow
  <1>6. RoundReadable /\ Stages
    BY DEF RoundReadable, Stages, Serving, AfterLoop
  <1>7. FramesInStep /\ ScreenFollows
    BY DEF FramesInStep, ScreenFollows, EndTold, B
  <1>. QED
    BY <1>1, <1>2, <1>3, <1>4, <1>5, <1>6, <1>7 DEF IInv

(* Every step keeps the types.  A turn is posted only for a player that    *)
(* has none but, at the end, the one the master just posted; a reward is   *)
(* taken only when there is one.                                           *)
LEMMA TurnTypes ==
  ASSUME IInv, [Next]_vars
  PROVE  token' \in [Players -> 0 .. 2] /\ pipe' \in [Players -> 0 .. 1]
  <1> USE DEF IInv, TypeOK, Turns, OneTurn, TurnsOf, EndPosted, B
  <1>1. ASSUME NEW p \in Players, PlayerStep(p)
        PROVE  token' \in [Players -> 0 .. 2] /\ pipe' \in [Players -> 0 .. 1]
    <2>1. CASE FirstTurn(p) \/ NextTurn(p)
      BY <2>1 DEF FirstTurn, NextTurn, TokenWait
    <2>2. CASE Send(p)
      BY <2>2 DEF Send, PlayerGoes
    <2>3. CASE UNCHANGED turnVars
      BY <2>3 DEF turnVars
    <2>. QED
      BY <1>1, <2>1, <2>2, <2>3 DEF PlayerStep, LeaveOnSignal, StartLooking, EnterLock, Look, LeaveLock,
         GiveUp, SendToNobody, CheckEnded, turnVars
  <1>2. CASE MasterStep
    <2>1. CASE Recv
      BY <2>1, IdxPresent DEF Recv
    <2>2. CASE GrantTurn
      <3>1. token[Idx] = 0
        BY <2>2, IdxPresent DEF GrantTurn, MasterGoes, AfterLoop
      <3>. QED
        BY <2>2, <3>1, IdxPresent DEF GrantTurn, TokenPost
    <2>3. CASE PostTurn
      <3>1. round.i \in Players /\ token[round.i] <= 1
        BY <2>3, GameFacts DEF PostTurn, Present, AfterLoop
      <3>. QED
        BY <2>3, <3>1 DEF PostTurn, TokenPost
    <2>4. CASE UNCHANGED turnVars
      BY <2>4 DEF turnVars
    <2>. QED
      BY <1>2, <2>1, <2>2, <2>3, <2>4 DEF MasterStep, PlacePlayer, LoopTest, Select, SyncView, WaitViewDone, SkipPlayer,
         Disconnect, TakeLock, ApplyMove, ReleaseLock, EndRound, GameEnd, NotifyEnd, ClosePipes,
         WaitPlayers, WaitViewExit
  <1>3. CASE UNCHANGED turnVars
    BY <1>3 DEF turnVars
  <1>. QED
    BY <1>1, <1>2, <1>3, StepCases, ViewLeaves DEF KillPlayer, TimePasses, Signal, vars

LEMMA RoundTypes ==
  ASSUME IInv, [Next]_vars
  PROVE  /\ game' = game /\ PlayersCount' = PlayersCount /\ Present' = Present
         /\ round' \in [start : Present, i : 0 .. PlayersCount, last : Present,
                        fds : SUBSET Present, valid : BOOLEAN]
  <1> DEFINE Rounds == [start : Present, i : 0 .. PlayersCount, last : Present,
                        fds : SUBSET Present, valid : BOOLEAN]
  <1>1. round \in Rounds /\ 0 \in Present /\ PlayersCount \in Nat /\ PlayersCount > 0
        /\ Idx \in Present /\ NoRound \in Rounds
    BY GameFacts, IdxPresent DEF IInv, TypeOK, NoRound
  <1>2. game' = game
    BY StepCases, MasterLeaves, ViewLeaves, PlayerLeaves DEF envVars, KillPlayer, TimePasses, Signal, vars
  <1>3. PlayersCount' = PlayersCount /\ Present' = Present
    BY <1>2 DEF PlayersCount, Present
  <1>4. ASSUME MasterStep PROVE round' \in Rounds
    <2>1. CASE Select
      <3>1. Ready \in SUBSET Present /\ round.start \in Present
        BY <1>1 DEF Ready
      <3>2. round' = round \/ round' = [start |-> round.start, i |-> 0, last |-> round.start,
                                      fds |-> Ready, valid |-> FALSE]
        BY <2>1, <1>1 DEF Select
      <3>3. 0 \in 0 .. PlayersCount /\ FALSE \in BOOLEAN
        BY <1>1
      <3>4. [start |-> round.start, i |-> 0, last |-> round.start, fds |-> Ready, valid |-> FALSE] \in Rounds
        BY <3>1, <3>3, Zenon
      <3>. QED
        BY <3>2, <3>4, <1>1, Zenon
    <2>2. CASE SkipPlayer \/ Disconnect
      BY <2>2, <1>1 DEF SkipPlayer, Disconnect, InRound, NextPlayer
    <2>3. CASE ApplyMove
      BY <2>3, <1>1 DEF ApplyMove
    <2>4. CASE GrantTurn
      <3>1. round.i + 1 \in 0 .. PlayersCount
        BY <2>4, <1>1 DEF GrantTurn, MasterGoes, IInv, Stages, Serving
      <3>. QED
        BY <2>4, <3>1, <1>1 DEF GrantTurn, NextPlayer
    <2>5. CASE EndRound
      <3>1. (round.last + 1) % PlayersCount \in Present
        BY <1>1, ModRange DEF Present
      <3>. QED
        BY <2>5, <3>1, <1>1 DEF EndRound, NoRound
    <2>6. CASE GameEnd
      BY <2>6, <1>1 DEF GameEnd
    <2>7. CASE PostTurn
      BY <2>7, <1>1 DEF PostTurn, NextPlayer
    <2>8. CASE PlacePlayer
      BY <2>8, <1>1 DEF PlacePlayer, NextPlayer
    <2>. QED
      BY <1>4, <1>1, <2>1, <2>2, <2>3, <2>4, <2>5, <2>6, <2>7, <2>8 DEF MasterStep, masterVars, LoopTest, SyncView,
         WaitViewDone, Recv, TakeLock, ReleaseLock, NotifyEnd, ClosePipes, WaitPlayers, WaitViewExit
  <1>. QED
    BY <1>1, <1>2, <1>3, <1>4, StepCases, PlayerLeaves, ViewLeaves DEF masterVars, KillPlayer, TimePasses, Signal, vars

LEMMA StateTypes ==
  ASSUME IInv, [Next]_vars
  PROVE  /\ is_blocked' \in [Players -> BOOLEAN] /\ ended' \in BOOLEAN /\ free' \in 0 .. game.cells
         /\ look' \in [Players -> LookKinds]
  <1> USE DEF IInv, TypeOK
  <1>1. CASE MasterStep
    <2>1. CASE Disconnect
      BY <2>1, IdxPresent DEF Disconnect, playerVars
    <2>2. CASE ApplyMove
      <3>1. free' = free \/ (free' = free - 1 /\ free > 0)
        BY <2>2, IdxPresent DEF ApplyMove, Verdicts, Choices, ChoiceOK
      <3>2. look' \in [Players -> LookKinds]
        BY <2>2, IdxPresent DEF ApplyMove, LookKinds
      <3>. QED
        BY <2>2, <3>1, <3>2, GameFacts DEF ApplyMove
    <2>3. CASE GameEnd
      BY <2>3 DEF GameEnd, playerVars
    <2>4. CASE UNCHANGED <<stateVars, look>>
      BY <2>4 DEF stateVars
    <2>5. CASE PlacePlayer
      <3>1. free' \in 0 .. game.cells
        BY <2>5, GameFacts DEF PlacePlayer
      <3>2. look' \in [Players -> LookKinds]
        BY <2>5 DEF PlacePlayer, LookKinds
      <3>. QED
        BY <2>5, <3>1, <3>2 DEF PlacePlayer
    <2>. QED
      BY <1>1, <2>1, <2>2, <2>3, <2>4, <2>5 DEF MasterStep, playerVars, LoopTest, Select, SyncView, WaitViewDone,
         SkipPlayer, Recv, TakeLock, ReleaseLock, GrantTurn, EndRound, PostTurn, NotifyEnd, ClosePipes,
         WaitPlayers, WaitViewExit
  <1>2. ASSUME NEW p \in Players, PlayerStep(p) PROVE look' \in [Players -> LookKinds]
    BY <1>2 DEF PlayerStep, LookKinds, playerVars, FirstTurn, LeaveOnSignal, StartLooking, EnterLock, Look,
       LeaveLock, GiveUp, Send, SendToNobody, NextTurn, CheckEnded
  <1>3. ASSUME NEW p \in Players, PlayerStep(p) PROVE UNCHANGED stateVars
    BY <1>3, PlayerLeaves
  <1>. QED
    BY <1>1, <1>2, <1>3, StepCases, ViewLeaves DEF stateVars, playerVars, KillPlayer, TimePasses, Signal, vars

LEMMA PlaceTypes ==
  ASSUME IInv, [Next]_vars
  PROVE  /\ ppc' \in [Players -> PlayerPC] /\ mpc' \in MasterPC /\ vpc' \in ViewPC
         /\ has_view' \in BOOLEAN /\ screen' \in 0 .. NoFrame
         /\ expired' \in BOOLEAN /\ interrupted' \subseteq Players \union {Master, View}
  <1> USE DEF IInv, TypeOK
  <1>1. ppc' \in [Players -> PlayerPC]
    <2>1. ASSUME NEW p \in Players, PlayerStep(p) PROVE ppc' \in [Players -> PlayerPC]
      BY <2>1 DEF PlayerStep, PlayerPC, PlayerGoes, playerVars, FirstTurn, LeaveOnSignal, StartLooking,
         EnterLock, Look, LeaveLock, GiveUp, Send, SendToNobody, NextTurn, CheckEnded
    <2>2. ASSUME NEW p, KillPlayer(p) PROVE ppc' \in [Players -> PlayerPC]
      BY <2>2 DEF KillPlayer, PlayerPC
    <2>. QED
      BY <2>1, <2>2, StepCases, MasterLeaves, ViewLeaves DEF playerVars, TimePasses, Signal, vars
  <1>2. mpc' \in MasterPC /\ has_view' \in BOOLEAN
    <2>1. CASE MasterStep
      BY <2>1 DEF MasterStep, MasterPC, MasterGoes, masterVars, PlacePlayer, LoopTest, Select, SyncView, WaitViewDone,
         SkipPlayer, Recv, Disconnect, TakeLock, ApplyMove, ReleaseLock, GrantTurn, EndRound, GameEnd,
         PostTurn, NotifyEnd, ClosePipes, WaitPlayers, WaitViewExit
    <2>. QED
      BY <2>1, StepCases, PlayerLeaves, ViewLeaves DEF masterVars, KillPlayer, TimePasses, Signal, vars
  <1>3. vpc' \in ViewPC /\ screen' \in 0 .. NoFrame
    <2>1. free \in 0 .. NoFrame
      BY GameFacts DEF NoFrame
    <2>2. CASE ViewStep \/ KeyPressed \/ KillView
      BY <2>1, <2>2 DEF ViewStep, ViewPC, WaitFrame, StartDrawing, FrameDone, LastFrame, SkipResults,
         ShowResults, KeyPressed, KillView
    <2>. QED
      BY <2>2, StepCases, PlayerLeaves, MasterLeaves DEF viewVars, KillPlayer, TimePasses, Signal, vars
  <1>4. expired' \in BOOLEAN
    <2>1. CASE MasterStep
      BY <2>1 DEF MasterStep, envVars, PlacePlayer, LoopTest, Select, SyncView, WaitViewDone,
         SkipPlayer, Recv, Disconnect, TakeLock, ApplyMove, ReleaseLock, GrantTurn, EndRound, GameEnd,
         PostTurn, NotifyEnd, ClosePipes, WaitPlayers, WaitViewExit
    <2>. QED
      BY <2>1, StepCases, PlayerLeaves, ViewLeaves DEF envVars, KillPlayer, TimePasses, Signal, vars
  <1>5. interrupted' \subseteq Players \union {Master, View}
    <2>1. ASSUME NEW q \in game.signalled, Signal(q)
          PROVE  interrupted' \subseteq Players \union {Master, View}
      BY <2>1, GameFacts DEF Signal
    <2>. QED
      BY <2>1, StepCases, MasterLeaves, PlayerLeaves, ViewLeaves DEF envVars, KillPlayer, TimePasses, vars
  <1>. QED
    BY <1>1, <1>2, <1>3, <1>4, <1>5

LEMMA TypeStep ==
  ASSUME IInv, [Next]_vars
  PROVE  TypeOK'
  <1>1. Lock!TypeOK'
    <2>1. LockProofs!IInv'
      BY LockInvStep DEF IInv
    <2>. QED
      BY <2>1, LockTypes, PTL
  <1>2. /\ view_may_render' \in 0 .. 2 /\ view_rendered' \in 0 .. 1
    <2>1. CASE MasterStep
      BY <2>1 DEF MasterStep, frameVars, IInv, TypeOK, FramesInStep, B, EndTold, MasterGoes, Lock!SemWait, Lock!SemPost, SemWait, SemPost,
         PlacePlayer, LoopTest, Select, SyncView, WaitViewDone,
         SkipPlayer, Recv, Disconnect, TakeLock, ApplyMove, ReleaseLock, GrantTurn, EndRound, GameEnd,
         PostTurn, NotifyEnd, ClosePipes, WaitPlayers, WaitViewExit
    <2>2. CASE ViewStep \/ KeyPressed \/ KillView
      BY <2>2 DEF ViewStep, frameVars, IInv, TypeOK, FramesInStep, B, EndTold, Lock!SemWait, Lock!SemPost, SemWait, SemPost,
         WaitFrame, StartDrawing, FrameDone, LastFrame, SkipResults, ShowResults, KeyPressed, KillView
    <2>. QED
      BY <2>1, <2>2, StepCases, PlayerLeaves DEF IInv, TypeOK, frameVars, KillPlayer, TimePasses, Signal, vars
  <1>3. game' \in Games /\ NoFrame' = NoFrame
    BY RoundTypes DEF IInv, TypeOK, NoFrame
  <1>. QED
    BY <1>1, <1>2, <1>3, TurnTypes, RoundTypes, StateTypes, PlaceTypes DEF TypeOK

(* Every step keeps the places in the lock: the four steps of a player     *)
(* that touch the lock are the ones around compute_next_move, and the      *)
(* master's are those of process_player_move.                              *)
LEMMA PlacesStep ==
  ASSUME IInv, [Next]_vars
  PROVE  LockPlaces'
  <1> USE DEF IInv, LockPlaces
  <1>1. ASSUME NEW p \in Players, PlayerStep(p) PROVE LockPlaces'
    <2> DEFINE Place(q) ==
          /\ ppc[q] = "look" =>
               lpc[q] \in {"enter", "turnstile", "count", "counting", "first", "counted"}
          /\ ppc[q] = "compute" => lpc[q] = "reading"
          /\ ppc[q] = "leave" => lpc[q] \in {"leave", "leaving", "last", "left", "idle"}
          /\ ppc[q] \in {"first_turn", "top", "next_turn", "check"} => lpc[q] = "idle"
    <2>0. /\ ppc \in [Players -> PlayerPC] /\ mpc' = mpc
          /\ lpc \in [Players \union {Master} -> Lock!ReaderPC \union Lock!WriterPC]
      BY <1>1, PlayerLeaves DEF masterVars, TypeOK, Lock!TypeOK
    <2>1. CASE \/ FirstTurn(p) \/ LeaveOnSignal(p) \/ GiveUp(p) \/ Send(p) \/ SendToNobody(p)
               \/ NextTurn(p) \/ CheckEnded(p)
      BY <2>0, <2>1 DEF lockVars, PlayerGoes, FirstTurn, LeaveOnSignal, GiveUp, Send, SendToNobody,
         NextTurn, CheckEnded
    <2>2. CASE StartLooking(p) \/ EnterLock(p) \/ Look(p) \/ LeaveLock(p)
      <3>1. lpc'[Master] = lpc[Master] /\ \A q \in Players \ {p} : lpc'[q] = lpc[q]
        BY <2>2, PlayerInLock DEF StartLooking, EnterLock, Look, LeaveLock
      <3>2. \A q \in Players \ {p} : ppc'[q] = ppc[q]
        BY <2>2, <2>0 DEF PlayerGoes, playerVars, StartLooking, EnterLock, Look, LeaveLock
      <3>3. Place(p)'
        <4>1. CASE StartLooking(p)
          BY <4>1, <2>0 DEF StartLooking, PlayerGoes, Lock!ReaderCall, Lock!Goto
        <4>2. CASE EnterLock(p)
          BY <4>2, <2>0 DEF EnterLock, Lock!ReaderEnter, Lock!PassTurnstile,
             Lock!ReopenTurnstile, Lock!LockCount, Lock!CountIn, Lock!FirstReaderLocks,
             Lock!StartReading, Lock!Goto
        <4>3. CASE Look(p)
          BY <4>3, <2>0 DEF Look, PlayerGoes, Lock!StopReading, Lock!Goto
        <4>4. CASE LeaveLock(p)
          BY <4>4, <2>0 DEF LeaveLock, playerVars, Lock!ReaderExit, Lock!LockCountToLeave,
             Lock!CountOut, Lock!LastReaderUnlocks, Lock!ReaderReturn, Lock!Goto
        <4>. QED
          BY <2>2, <4>1, <4>2, <4>3, <4>4
      <3>. QED
        BY <2>0, <3>1, <3>2, <3>3
    <2>. QED
      BY <1>1, <2>1, <2>2 DEF PlayerStep
  <1>2. CASE MasterStep
    <2>0. /\ ppc' = ppc
          /\ lpc \in [Players \union {Master} -> Lock!ReaderPC \union Lock!WriterPC]
      BY <1>2, MasterLeaves DEF TypeOK, Lock!TypeOK
    <2>1. CASE UNCHANGED lockVars
      BY <1>2, <2>0, <2>1 DEF lockVars, masterVars, MasterStep, MasterGoes, PlacePlayer, LoopTest, Select, SyncView, WaitViewDone,
         SkipPlayer, Recv, Disconnect, TakeLock, ApplyMove, ReleaseLock, GrantTurn, EndRound, GameEnd, InRound,
         PostTurn, NotifyEnd, ClosePipes, WaitPlayers, WaitViewExit,
         Lock!WriterCall, Lock!WriterReturn, Lock!Goto
    <2>2. CASE Recv \/ TakeLock \/ ApplyMove \/ ReleaseLock
      <3>1. \A q \in Players : lpc'[q] = lpc[q]
        BY <2>2, MasterInLock DEF Recv, TakeLock, ApplyMove, ReleaseLock
      <3>2. mpc' = "apply" <=> lpc'[Master] # "idle"
        BY <2>2, <2>0 DEF Recv, TakeLock, ApplyMove, ReleaseLock, MasterGoes, masterVars, Lock!WriterCall,
           Lock!WriterEnter, Lock!CloseTurnstile, Lock!StartWriting, Lock!StopWriting,
           Lock!WriterReturn, Lock!Goto
      <3>. QED
        BY <2>0, <3>1, <3>2
    <2>. QED
      BY <1>2, <2>1, <2>2 DEF MasterStep, PlacePlayer, LoopTest, Select, SyncView, WaitViewDone, SkipPlayer, Disconnect,
         GrantTurn, EndRound, GameEnd, PostTurn, NotifyEnd, ClosePipes, WaitPlayers, WaitViewExit
  <1>3. ASSUME NEW p, KillPlayer(p) PROVE LockPlaces'
    BY <1>3 DEF KillPlayer, TypeOK, lockVars, masterVars
  <1>4. CASE UNCHANGED <<lockVars, ppc, mpc>>
    BY <1>4 DEF lockVars
  <1>. QED
    BY <1>1, <1>2, <1>3, <1>4, StepCases, ViewLeaves DEF playerVars, masterVars, TimePasses, Signal, vars

(* Turns: what a step must do to a player's turn to keep it one.           *)
Held(p) == mpc \in {"apply", "grant"} /\ Idx = p

LEMMA SameTurns ==
  ASSUME NEW p \in Players, Present' = Present, OneTurn(p),
         token'[p] = token[p], pipe'[p] = pipe[p], ppc'[p] = ppc[p],
         Held(p)' = Held(p), EndPosted(p)' = EndPosted(p)
  PROVE  OneTurn(p)'
  BY DEF OneTurn, TurnsOf, Held

(* Every step of a player moves its own turn on.  A token is taken by      *)
(* leaving the place where it was waited for; a byte is sent by leaving    *)
(* the place where the move was made.                                      *)
LEMMA PlayerTurns ==
  ASSUME IInv, [Next]_vars, NEW p \in Players, PlayerStep(p)
  PROVE  Turns'
  <1>1. /\ Turns /\ ppc \in [Players -> PlayerPC]
        /\ token \in [Players -> 0 .. 2] /\ pipe \in [Players -> 0 .. 1]
    BY DEF IInv, TypeOK
  <1>2. /\ mpc' = mpc /\ round' = round /\ ended' = ended /\ Idx' = Idx
        /\ Present' = Present
    BY PlayerLeaves, RoundTypes DEF masterVars, stateVars, Idx
  <1>3. \A q \in Players : Held(q)' = Held(q) /\ EndPosted(q)' = EndPosted(q)
    BY <1>2 DEF Held, EndPosted
  <1>4. ASSUME NEW q \in Players \ {p} PROVE OneTurn(q)'
    <2>1. token'[q] = token[q] /\ pipe'[q] = pipe[q] /\ ppc'[q] = ppc[q]
      BY <1>1 DEF turnVars, playerVars, PlayerStep, PlayerGoes, TokenWait, FirstTurn, LeaveOnSignal,
         StartLooking, EnterLock, Look, LeaveLock, GiveUp, Send, SendToNobody, NextTurn, CheckEnded
    <2>. QED
      BY <1>1, <1>2, <1>3, <2>1, SameTurns DEF Turns
  <1>5. OneTurn(p)'
    <2> USE <1>1, <1>2, <1>3 DEF Turns, OneTurn, TurnsOf, Held, B, PlayerGoes
    <2>1. CASE FirstTurn(p)
      BY <2>1 DEF FirstTurn, TokenWait
    <2>2. CASE NextTurn(p)
      BY <2>2 DEF NextTurn, TokenWait
    <2>3. CASE Send(p)
      BY <2>3 DEF Send
    <2>4. CASE CheckEnded(p)
      BY <2>4 DEF CheckEnded, turnVars, EndPosted, IInv, Stages, AfterLoop
    <2>5. CASE LeaveOnSignal(p) \/ GiveUp(p) \/ SendToNobody(p)
      BY <2>5 DEF LeaveOnSignal, GiveUp, SendToNobody, turnVars
    <2>6. CASE StartLooking(p) \/ EnterLock(p) \/ Look(p) \/ LeaveLock(p)
      BY <2>6 DEF StartLooking, EnterLock, Look, LeaveLock, turnVars, playerVars
    <2>. QED
      BY <2>1, <2>2, <2>3, <2>4, <2>5, <2>6 DEF PlayerStep
  <1>. QED
    BY <1>4, <1>5 DEF Turns

(* Every step of the master hands turns over: from the pipe to its hands,  *)
(* from its hands to the next token; and at the end it gives everybody one *)
(* more.                                                                   *)
LEMMA MasterTurns ==
  ASSUME IInv, [Next]_vars, MasterStep
  PROVE  Turns'
  <1>1. /\ Turns /\ ppc \in [Players -> PlayerPC] /\ ppc' = ppc
        /\ token \in [Players -> 0 .. 2] /\ pipe \in [Players -> 0 .. 1]
        /\ Idx \in Players
    BY MasterLeaves, IdxPresent DEF IInv, TypeOK
  <1>2. /\ Present' = Present /\ PlayersCount' = PlayersCount
        /\ round.start \in Nat /\ round.i \in Nat /\ PlayersCount \in Nat
        /\ Present = 0 .. PlayersCount - 1 /\ Present \subseteq Players
        /\ round \in [start : Present, i : 0 .. PlayersCount, last : Present,
                      fds : SUBSET Present, valid : BOOLEAN]
    BY RoundTypes, GameFacts DEF IInv, TypeOK, Present
  <1>3. CASE UNCHANGED <<token, pipe>> /\ \A q \in Players : Held(q)' = Held(q) /\ EndPosted(q)' = EndPosted(q)
    BY <1>1, <1>2, <1>3, SameTurns DEF Turns
  <1> USE DEF MasterGoes, turnVars
  <1>4. CASE \/ PlacePlayer \/ LoopTest \/ Select \/ SyncView \/ WaitViewDone \/ SkipPlayer \/ Disconnect \/ EndRound
             \/ ClosePipes \/ WaitPlayers \/ WaitViewExit
    <2>1. mpc \notin {"apply", "grant"} /\ mpc' \notin {"apply", "grant"}
      BY <1>4 DEF PlacePlayer, LoopTest, Select, SyncView, WaitViewDone, SkipPlayer, Disconnect, EndRound, InRound,
         ClosePipes, WaitPlayers, WaitViewExit
    <2>2. \A q \in Players : EndPosted(q)' = EndPosted(q)
      BY <1>4 DEF EndPosted, AfterLoop, PlacePlayer, LoopTest, Select, SyncView, WaitViewDone, SkipPlayer, Disconnect,
         EndRound, InRound, ClosePipes, WaitPlayers, WaitViewExit
    <2>3. UNCHANGED <<token, pipe>>
      BY <1>4 DEF PlacePlayer, LoopTest, Select, SyncView, WaitViewDone, SkipPlayer, Disconnect, EndRound,
         ClosePipes, WaitPlayers, WaitViewExit
    <2>. QED
      BY <1>3, <2>1, <2>2, <2>3 DEF Held
  <1>5. CASE TakeLock \/ ApplyMove \/ ReleaseLock
    <2>1. /\ mpc = "apply" /\ mpc' \in {"apply", "grant"} /\ UNCHANGED <<token, pipe>>
          /\ round'.start = round.start /\ round'.i = round.i
      BY <1>2, <1>5 DEF TakeLock, ApplyMove, ReleaseLock, masterVars
    <2>2. Idx' = Idx
      BY <1>2, <2>1 DEF Idx
    <2>. QED
      BY <1>3, <2>1, <2>2 DEF Held, EndPosted, AfterLoop
  <1>6. CASE Recv
    <2>1. /\ mpc = "round" /\ mpc' = "apply" /\ Idx' = Idx /\ token' = token
          /\ pipe[Idx] > 0 /\ pipe' = [pipe EXCEPT ![Idx] = @ - 1]
      BY <1>2, <1>6 DEF Recv, InRound, Idx
    <2>2. ASSUME NEW q \in Players \ {Idx} PROVE OneTurn(q)'
      BY <1>1, <1>2, <2>1, SameTurns DEF Turns, Held, EndPosted, AfterLoop
    <2>3. OneTurn(Idx)'
      BY <1>1, <1>2, <2>1 DEF Turns, OneTurn, TurnsOf, EndPosted, AfterLoop, B
    <2>. QED
      BY <2>1, <2>2, <2>3 DEF Turns
  <1>7. CASE GrantTurn
    <2>1. /\ mpc = "grant" /\ mpc' = "round" /\ pipe' = pipe
          /\ token' = [token EXCEPT ![Idx] = @ + 1]
      BY <1>2, <1>7 DEF GrantTurn, TokenPost
    <2>2. ASSUME NEW q \in Players \ {Idx} PROVE OneTurn(q)'
      BY <1>1, <1>2, <2>1, SameTurns DEF Turns, Held, EndPosted, AfterLoop
    <2>3. ASSUME NEW q \in Players, q = Idx PROVE OneTurn(q)'
      BY <1>1, <1>2, <2>1, <2>3 DEF Turns, OneTurn, TurnsOf, EndPosted, AfterLoop, B
    <2>. QED
      BY <2>2, <2>3 DEF Turns
  <1>8. CASE GameEnd
    <2>1. mpc = "game_end" /\ mpc' = "post_turns" /\ round'.i = 0 /\ UNCHANGED <<token, pipe>>
      BY <1>8 DEF GameEnd, NoRound
    <2>2. \A q \in Players : ~ EndPosted(q) /\ (q \in Present => ~ EndPosted(q)')
      BY <1>2, <2>1 DEF EndPosted, AfterLoop
    <2>3. ASSUME NEW q \in Players PROVE OneTurn(q)'
      BY <1>1, <1>2, <2>1, <2>2 DEF Turns, OneTurn, TurnsOf, B
    <2>. QED
      BY <2>3 DEF Turns
  <1>9. CASE PostTurn
    <2>1. /\ mpc = "post_turns" /\ mpc' = mpc /\ pipe' = pipe /\ round.i \in Present
          /\ token' = [token EXCEPT ![round.i] = @ + 1] /\ round'.i = round.i + 1
      BY <1>2, <1>9 DEF PostTurn, TokenPost, NextPlayer
    <2>2. ASSUME NEW q \in Players PROVE OneTurn(q)'
      BY <1>1, <1>2, <2>1 DEF Turns, OneTurn, TurnsOf, EndPosted, AfterLoop, B
    <2>. QED
      BY <2>2 DEF Turns
  <1>10. CASE NotifyEnd
    <2>1. /\ mpc = "post_turns" /\ mpc' = "close_pipes" /\ UNCHANGED <<token, pipe>> /\ round' = round
          /\ round.i = PlayersCount
      BY <1>10 DEF NotifyEnd
    <2>2. ASSUME NEW q \in Players PROVE OneTurn(q)'
      BY <1>1, <1>2, <2>1 DEF Turns, OneTurn, TurnsOf, EndPosted, AfterLoop, B
    <2>. QED
      BY <2>2 DEF Turns
  <1>. QED
    BY <1>4, <1>5, <1>6, <1>7, <1>8, <1>9, <1>10 DEF MasterStep

LEMMA TurnsStep ==
  ASSUME IInv, [Next]_vars
  PROVE  Turns'
  <1>1. CASE UNCHANGED <<turnVars, ppc, masterVars>>
    <2>1. Present' = Present /\ Idx' = Idx
      BY <1>1, RoundTypes DEF masterVars, Idx
    <2>. QED
      BY <1>1, <2>1, SameTurns DEF IInv, Turns, Held, EndPosted, masterVars, turnVars
  <1>2. ASSUME NEW p, KillPlayer(p) PROVE Turns'
    <2>1. Present' = Present /\ Idx' = Idx /\ mpc' = mpc /\ round' = round /\ token' = token /\ pipe' = pipe
      BY <1>2, RoundTypes DEF KillPlayer, masterVars, turnVars, Idx
    <2>2. ppc \in [Players -> PlayerPC] /\ token \in [Players -> 0 .. 2] /\ pipe \in [Players -> 0 .. 1]
      BY DEF IInv, TypeOK
    <2>3. ASSUME NEW q \in Players PROVE OneTurn(q)'
      BY <1>2, <2>1, <2>2 DEF KillPlayer, IInv, Turns, OneTurn, TurnsOf, EndPosted, B
    <2>. QED
      BY <2>3 DEF Turns
  <1>. QED
    BY <1>1, <1>2, StepCases, PlayerTurns, MasterTurns, ViewLeaves
       DEF playerVars, TimePasses, Signal, vars

(* Every step keeps the choices.  A player chooses while nothing of its is *)
(* under way, a valid move leaves no choice fresh, and what it does to the *)
(* player that made it is not the choice of a move under way any more.     *)
LEMMA ChoicesStep ==
  ASSUME IInv, [Next]_vars
  PROVE  Choices'
  <1>1. /\ Choices /\ Turns /\ Idx \in Players /\ look \in [Players -> LookKinds]
        /\ ppc \in [Players -> PlayerPC] /\ pipe \in [Players -> 0 .. 1] /\ token \in [Players -> 0 .. 2]
        /\ lpc \in [Players \union {Master} -> Lock!ReaderPC \union Lock!WriterPC]
        /\ free \in Nat
    BY IdxPresent, GameFacts DEF IInv, TypeOK, Lock!TypeOK
  <1>2. PlayersCount' = PlayersCount /\ round.start \in Nat /\ round.i \in Nat
    BY RoundTypes, GameFacts DEF IInv, TypeOK, Present
  <1>3. ASSUME NEW p \in Players, PlayerStep(p) PROVE Choices'
    <2>1. mpc' = mpc /\ Idx' = Idx /\ free' = free
      BY <1>3, <1>2, PlayerLeaves DEF masterVars, stateVars, Idx
    <2>2. lpc'[Master] = lpc[Master]
      BY <1>3, PlayerInLock DEF IInv, PlayerStep, FirstTurn, LeaveOnSignal, StartLooking, EnterLock, Look, LeaveLock,
         GiveUp, Send, SendToNobody, NextTurn, CheckEnded, lockVars
    <2>3. ASSUME NEW q \in Players \ {p} PROVE ChoiceOK(q)'
      <3>1. look'[q] = look[q] /\ pipe'[q] = pipe[q] /\ ppc'[q] = ppc[q]
        BY <1>1, <1>3 DEF turnVars, playerVars, PlayerStep, PlayerGoes, FirstTurn, LeaveOnSignal,
           StartLooking, EnterLock, Look, LeaveLock, GiveUp, Send, SendToNobody, NextTurn, CheckEnded
      <3>. QED
        BY <1>1, <2>1, <2>2, <3>1 DEF Choices, ChoiceOK, SentNow
    <2>4. ChoiceOK(p)'
      <3>1. CASE Look(p)
        <4>1. ~ SentNow(p)
          BY <1>1, <3>1 DEF Look, PlayerGoes, SentNow, Turns, OneTurn, TurnsOf, EndPosted, AfterLoop, B
        <4>. QED
          BY <1>1, <2>1, <2>2, <3>1, <4>1 DEF Look, PlayerGoes, Choices, ChoiceOK, SentNow, turnVars, LookKinds
      <3>2. CASE Send(p)
        BY <1>1, <2>1, <2>2, <3>2 DEF Send, PlayerGoes, Choices, ChoiceOK, SentNow, LookKinds
      <3>3. CASE \/ FirstTurn(p) \/ LeaveOnSignal(p) \/ StartLooking(p) \/ EnterLock(p) \/ LeaveLock(p)
                 \/ GiveUp(p) \/ SendToNobody(p) \/ NextTurn(p) \/ CheckEnded(p)
        BY <1>1, <2>1, <2>2, <3>3 DEF Choices, ChoiceOK, SentNow, turnVars, playerVars, PlayerGoes, FirstTurn,
           LeaveOnSignal, StartLooking, EnterLock, LeaveLock, GiveUp, SendToNobody, NextTurn, CheckEnded
      <3>. QED
        BY <1>3, <3>1, <3>2, <3>3 DEF PlayerStep
    <2>. QED
      BY <2>3, <2>4 DEF Choices
  <1>4. CASE MasterStep
    <2>0. ppc' = ppc
      BY <1>4, MasterLeaves
    <2>1. CASE Recv
      <3>1. /\ mpc' = "apply" /\ Idx' = Idx /\ pipe[Idx] > 0 /\ pipe' = [pipe EXCEPT ![Idx] = @ - 1]
            /\ look' = look /\ free' = free
        BY <1>2, <2>1 DEF Recv, Idx, playerVars, stateVars
      <3>2. ASSUME NEW q \in Players PROVE ChoiceOK(q)'
        BY <1>1, <2>0, <3>1 DEF Choices, ChoiceOK, SentNow
      <3>. QED
        BY <3>2 DEF Choices
    <2>2. CASE TakeLock
      <3>1. /\ mpc = "apply" /\ Idx' = Idx /\ pipe' = pipe /\ look' = look /\ free' = free
            /\ lpc[Master] # "release"
        BY <1>2, <2>2 DEF TakeLock, Idx, playerVars, stateVars, turnVars, masterVars, Lock!WriterEnter,
           Lock!CloseTurnstile, Lock!StartWriting, Lock!Goto
      <3>2. ASSUME NEW q \in Players PROVE ChoiceOK(q)'
        BY <1>1, <2>0, <2>2, <3>1 DEF TakeLock, masterVars, Choices, ChoiceOK, SentNow
      <3>. QED
        BY <3>2 DEF Choices
    <2>3. CASE ApplyMove
      <3>1. /\ mpc = "apply" /\ lpc[Master] # "release" /\ lpc'[Master] = "release" /\ pipe' = pipe
        BY <1>1, <2>3 DEF ApplyMove, turnVars, Lock!StopWriting, Lock!Goto
      <3>2. pipe[Idx] = 0 /\ ppc[Idx] # "leave"
        BY <1>1, <3>1 DEF Turns, OneTurn, TurnsOf, EndPosted, AfterLoop, B
      <3>3. CASE look' = [look EXCEPT ![Idx] = IF @ = "early" THEN "moved" ELSE @] /\ free' = free
        <4>1. ASSUME NEW q \in Players PROVE ChoiceOK(q)'
          BY <1>1, <2>0, <3>1, <3>2, <3>3 DEF Choices, ChoiceOK, SentNow
        <4>. QED
          BY <4>1 DEF Choices
      <3>4. CASE look' = [p \in Players |->
                            IF p = Idx THEN "moved" ELSE IF look[p] = "fresh" THEN "raced" ELSE look[p]]
        <4>1. ASSUME NEW q \in Players PROVE ChoiceOK(q)'
          BY <1>1, <2>0, <3>1, <3>2, <3>4 DEF Choices, ChoiceOK, SentNow
        <4>. QED
          BY <4>1 DEF Choices
      <3>. QED
        BY <2>3, <3>3, <3>4 DEF ApplyMove
    <2>5. CASE PlacePlayer
      <3>1. /\ mpc' # "apply" /\ pipe' = pipe
            /\ look' = [p \in Players |-> IF look[p] = "fresh" THEN "raced" ELSE look[p]]
        BY <2>5 DEF PlacePlayer, turnVars
      <3>2. ASSUME NEW q \in Players PROVE ChoiceOK(q)'
        BY <1>1, <2>0, <3>1 DEF Choices, ChoiceOK, SentNow
      <3>. QED
        BY <3>2 DEF Choices
    <2>4. CASE /\ UNCHANGED <<pipe, look, free>>
               /\ mpc' # "apply"
      <3>1. ASSUME NEW q \in Players PROVE ChoiceOK(q)'
        BY <1>1, <2>0, <2>4 DEF Choices, ChoiceOK, SentNow
      <3>. QED
        BY <3>1 DEF Choices
    <2>. QED
      BY <1>4, <2>1, <2>2, <2>3, <2>4, <2>5 DEF MasterStep, turnVars, stateVars, playerVars, MasterGoes, LoopTest, Select,
         SyncView, WaitViewDone, SkipPlayer, InRound, Disconnect, ReleaseLock, GrantTurn, EndRound, GameEnd,
         PostTurn, NotifyEnd, ClosePipes, WaitPlayers, WaitViewExit
  <1>5. ASSUME NEW p, KillPlayer(p) PROVE Choices'
    <2>1. UNCHANGED <<pipe, look, free, mpc, lpc>> /\ Idx' = Idx
      BY <1>2, <1>5 DEF KillPlayer, turnVars, stateVars, masterVars, lockVars, Idx
    <2>2. \A q \in Players : ppc'[q] = "leave" => ppc[q] = "leave"
      BY <1>1, <1>5 DEF KillPlayer
    <2>. QED
      BY <1>1, <2>1, <2>2 DEF Choices, ChoiceOK, SentNow
  <1>6. CASE UNCHANGED <<lockVars, turnVars, stateVars, playerVars, masterVars>>
    <2>1. Idx' = Idx
      BY <1>2, <1>6 DEF masterVars, Idx
    <2>. QED
      BY <1>1, <1>6, <2>1 DEF Choices, ChoiceOK, SentNow, lockVars, turnVars, stateVars, playerVars, masterVars
  <1>. QED
    BY <1>3, <1>4, <1>5, <1>6, StepCases, ViewLeaves DEF TimePasses, Signal, vars

(* A pipe with something to read stays so until the master reads it: the   *)
(* bytes of a player that died stay in it, and end of file is for good.    *)
LEMMA ReadableKept ==
  ASSUME IInv, [Next]_vars, ~ Recv, NEW p \in Players, Readable(p)
  PROVE  Readable(p)'
  <1>1. pipe \in [Players -> 0 .. 1] /\ ppc \in [Players -> PlayerPC]
    BY DEF IInv, TypeOK
  <1>2. ASSUME NEW q \in Players, PlayerStep(q) PROVE Readable(p)'
    <2>1. vpc' = vpc
      BY <1>2, PlayerLeaves DEF viewVars
    <2>2. pipe'[p] = pipe[p] \/ pipe'[p] = pipe[p] + 1
      BY <1>1, <1>2 DEF turnVars, PlayerStep, FirstTurn, LeaveOnSignal, StartLooking, EnterLock, Look, LeaveLock,
         GiveUp, Send, SendToNobody, NextTurn, CheckEnded
    <2>3. ppc[p] = "exited" => ppc'[p] = "exited"
      BY <1>1, <1>2 DEF playerVars, PlayerGoes, PlayerStep, FirstTurn, LeaveOnSignal, StartLooking, EnterLock, Look,
         LeaveLock, GiveUp, Send, SendToNobody, NextTurn, CheckEnded
    <2>4. pipe[p] > 0 => pipe'[p] > 0
      BY <1>1, <2>2
    <2>. QED
      BY <2>1, <2>3, <2>4 DEF Readable, Eof
  <1>3. CASE MasterStep
    <2>1. ppc' = ppc /\ vpc' = vpc
      BY <1>3, MasterLeaves DEF viewVars
    <2>2. pipe' = pipe
      BY <1>3 DEF turnVars, MasterStep, PlacePlayer, LoopTest, Select, SyncView, WaitViewDone, SkipPlayer, Disconnect,
         TakeLock, ApplyMove, ReleaseLock, GrantTurn, EndRound, GameEnd, PostTurn, NotifyEnd, ClosePipes,
         WaitPlayers, WaitViewExit
    <2>. QED
      BY <2>1, <2>2 DEF Readable, Eof
  <1>4. CASE ViewStep \/ KeyPressed \/ KillView
    <2>1. ppc' = ppc /\ pipe' = pipe
      BY <1>4, ViewLeaves DEF turnVars, playerVars
    <2>2. vpc \in {"absent", "exited"} => vpc' = vpc
      BY <1>4 DEF ViewStep, WaitFrame, StartDrawing, FrameDone, LastFrame, SkipResults, ShowResults, KeyPressed,
         KillView
    <2>. QED
      BY <2>1, <2>2 DEF Readable, Eof
  <1>5. ASSUME NEW q, KillPlayer(q) PROVE Readable(p)'
    BY <1>1, <1>5 DEF KillPlayer, Readable, Eof, turnVars, viewVars
  <1>. QED
    BY <1>2, <1>3, <1>4, <1>5, StepCases DEF TimePasses, Signal, vars, Readable, Eof, turnVars, playerVars, viewVars

(* Every step keeps the players of the round readable: nobody but the      *)
(* master reads, and it reads the one it serves.                           *)
LEMMA ReadableStep ==
  ASSUME IInv, [Next]_vars
  PROVE  RoundReadable'
  <1>1. /\ Present' = Present /\ PlayersCount' = PlayersCount
        /\ Present \subseteq Players /\ Present \subseteq Nat
        /\ round \in [start : Present, i : 0 .. PlayersCount, last : Present,
                      fds : SUBSET Present, valid : BOOLEAN]
        /\ round.i \in Nat /\ PlayersCount \in Nat
        /\ \A j \in Present : PlayerAt(j) \in Present
    <2>1. \A j \in Present : PlayerAt(j) \in Present
      BY PlayersOfRound DEF IInv
    <2>2. /\ round \in [start : Present, i : 0 .. PlayersCount, last : Present,
                         fds : SUBSET Present, valid : BOOLEAN]
          /\ game \in Games
      BY DEF IInv, TypeOK
    <2>3. Present \subseteq Nat /\ PlayersCount \in Nat /\ Present \subseteq Players
      BY <2>2, GameFacts DEF Present
    <2>. QED
      BY <2>1, <2>2, <2>3, RoundTypes
  <1>2. CASE /\ ~ Recv
             /\ mpc' \in {"view", "wait_view", "round", "apply", "grant"} =>
                  mpc \in {"view", "wait_view", "round", "apply", "grant"}
             /\ round'.start = round.start /\ round'.fds = round.fds
             /\ \A j \in Present : Unserved(j)' => Unserved(j)
    <2>1. \A j \in Present : PlayerAt(j)' = PlayerAt(j)
      BY <1>1, <1>2 DEF PlayerAt
    <2>2. SUFFICES ASSUME NEW j \in Present, mpc' \in {"view", "wait_view", "round", "apply", "grant"}
                   PROVE  StillReadable(j)'
      BY <1>1 DEF RoundReadable
    <2>3. StillReadable(j)
      BY <1>2, <2>2 DEF IInv, RoundReadable
    <2>4. Readable(PlayerAt(j)) => Readable(PlayerAt(j))'
      <3>1. \A p \in Players : Readable(p) => Readable(p)'
        BY <1>2, ReadableKept
      <3>2. PlayerAt(j) \in Players /\ PlayerAt(j)' = PlayerAt(j)
        BY <1>1, <2>1
      <3>. QED
        BY <3>1, <3>2 DEF Readable, Eof
    <2>. QED
      BY <1>2, <2>1, <2>3, <2>4 DEF StillReadable
  <1>3. CASE UNCHANGED masterVars
    <2>1. ~ Recv
      BY <1>3 DEF masterVars, Recv, InRound
    <2>. QED
      BY <1>2, <1>3, <2>1 DEF masterVars, Unserved, Serving
  <1>4. CASE MasterStep
    <2> USE DEF MasterGoes
    <2>1. CASE Select
      <3>1. CASE Ready = {}
        BY <2>1, <3>1 DEF Select, RoundReadable
      <3>2. CASE Ready # {}
        <4>1. round'.fds = Ready /\ UNCHANGED <<pipe, ppc, vpc>>
          BY <1>1, <2>1, <3>2 DEF Select, turnVars, playerVars, viewVars
        <4>2. \A p \in Ready : Readable(p)
          BY DEF Ready, Readable
        <4>3. \A p \in round'.fds : Readable(p)'
          BY <4>1, <4>2 DEF Readable, Eof
        <4>. QED
          BY <4>3 DEF RoundReadable, StillReadable
      <3>. QED
        BY <3>1, <3>2
    <2>2. CASE SyncView \/ WaitViewDone
      <3>1. ~ Recv /\ round' = round /\ mpc \in {"view", "wait_view"} /\ mpc' \in {"wait_view", "round"}
        BY <2>2 DEF SyncView, WaitViewDone, Recv, InRound
      <3>. QED
        BY <1>2, <3>1 DEF Unserved, Serving
    <2>3. CASE SkipPlayer \/ Disconnect
      <3>1. ~ Recv /\ mpc = "round" /\ mpc' = "round"
        BY <2>3 DEF SkipPlayer, Disconnect, Recv, InRound
      <3>2. round'.start = round.start /\ round'.fds = round.fds /\ round'.i = round.i + 1
        BY <1>1, <2>3 DEF SkipPlayer, Disconnect, NextPlayer
      <3>3. ~ Serving /\ ~ Serving'
        BY <3>1 DEF Serving
      <3>4. ASSUME NEW j \in Present, Unserved(j)'
            PROVE  Unserved(j)
        <4>1. j >= round'.i
          BY <3>3, <3>4 DEF Unserved
        <4>2. j >= round.i
          BY <1>1, <3>2, <3>4, <4>1
        <4>. QED
          BY <3>3, <4>2 DEF Unserved
      <3>. QED
        BY <1>2, <3>1, <3>2, <3>4
    <2>4. CASE Recv
      <3>1. /\ mpc = "round" /\ mpc' = "apply" /\ round' = round /\ ppc' = ppc /\ vpc' = vpc
            /\ pipe' = [pipe EXCEPT ![Idx] = @ - 1] /\ round.i < PlayersCount
        BY <2>4 DEF Recv, InRound, playerVars, viewVars
      <3>2. SUFFICES ASSUME NEW j \in Present, Unserved(j)', PlayerAt(j)' \in round'.fds
                     PROVE  Readable(PlayerAt(j))'
        BY <1>1 DEF RoundReadable, StillReadable
      <3>3. PlayerAt(j)' = PlayerAt(j) /\ j > round.i
        BY <1>1, <3>1, <3>2 DEF PlayerAt, Unserved, Serving
      <3>4. Readable(PlayerAt(j))
        BY <1>1, <3>1, <3>2, <3>3 DEF IInv, RoundReadable, StillReadable, Unserved, Serving
      <3>5. PlayerAt(j) # Idx /\ PlayerAt(j) \in Players
        <4>1. round.i \in Present
          BY <1>1, <3>1 DEF Present
        <4>2. PlayerAt(j) # PlayerAt(round.i)
          BY <1>1, <3>3, <4>1, PlayersOfRound DEF IInv
        <4>. QED
          BY <1>1, <4>2, IdxPresent DEF IInv
      <3>6. pipe'[PlayerAt(j)] = pipe[PlayerAt(j)]
        BY <3>1, <3>5 DEF IInv, TypeOK
      <3>. QED
        BY <3>1, <3>3, <3>4, <3>6 DEF Readable, Eof
    <2>5. CASE TakeLock \/ ApplyMove \/ ReleaseLock
      <3>1. ~ Recv /\ mpc = "apply" /\ mpc' \in {"apply", "grant"}
        BY <2>5 DEF TakeLock, ApplyMove, ReleaseLock, masterVars, Recv, InRound
      <3>2. round'.start = round.start /\ round'.fds = round.fds /\ round'.i = round.i
        BY <1>1, <2>5 DEF TakeLock, ApplyMove, ReleaseLock, masterVars
      <3>. QED
        BY <1>2, <3>1, <3>2 DEF Unserved, Serving
    <2>6. CASE GrantTurn
      <3>1. ~ Recv /\ mpc = "grant" /\ mpc' = "round"
        BY <2>6 DEF GrantTurn, Recv, InRound
      <3>2. round'.start = round.start /\ round'.fds = round.fds /\ round'.i = round.i + 1
        BY <1>1, <2>6 DEF GrantTurn, NextPlayer
      <3>3. Serving /\ ~ Serving'
        BY <3>1 DEF Serving
      <3>4. ASSUME NEW j \in Present, Unserved(j)'
            PROVE  Unserved(j)
        <4>1. j >= round'.i
          BY <3>3, <3>4 DEF Unserved
        <4>2. j > round.i
          BY <1>1, <3>2, <3>4, <4>1
        <4>. QED
          BY <3>3, <4>2 DEF Unserved
      <3>. QED
        BY <1>2, <3>1, <3>2, <3>4
    <2>7. CASE mpc' \notin {"view", "wait_view", "round", "apply", "grant"}
      BY <2>7 DEF RoundReadable
    <2>. QED
      BY <1>4, <2>1, <2>2, <2>3, <2>4, <2>5, <2>6, <2>7 DEF MasterStep, PlacePlayer, LoopTest, EndRound, GameEnd, PostTurn,
         NotifyEnd, ClosePipes, WaitPlayers, WaitViewExit
  <1>. QED
    BY <1>3, <1>4, StepCases, PlayerLeaves, ViewLeaves DEF KillPlayer, TimePasses, Signal, vars

(* Every step keeps the stages.                                            *)
LEMMA StagesStep ==
  ASSUME IInv, [Next]_vars
  PROVE  Stages'
  <1> USE DEF IInv, Stages, Serving, AfterLoop
  <1>1. CASE MasterStep
    <2>0. vpc' = vpc /\ interrupted' = interrupted
          /\ PlayersCount' = PlayersCount /\ PlayersCount \in Nat /\ PlayersCount > 0
      BY <1>1, MasterLeaves, RoundTypes, GameFacts DEF viewVars, TypeOK
    <2> USE <2>0 DEF MasterGoes
    <2>1. CASE PlacePlayer \/ LoopTest \/ WaitViewDone \/ ReleaseLock \/ NotifyEnd \/ ClosePipes \/ WaitPlayers \/ WaitViewExit
      BY <2>1 DEF PlacePlayer, LoopTest, WaitViewDone, ReleaseLock, NotifyEnd, ClosePipes, WaitPlayers, WaitViewExit, stateVars
    <2>2. CASE Select
      BY <2>2 DEF Select, stateVars, TypeOK
    <2>3. CASE SyncView
      BY <2>3 DEF SyncView, stateVars
    <2>4. CASE SkipPlayer \/ Disconnect \/ PostTurn \/ EndRound
      BY <2>4 DEF SkipPlayer, Disconnect, PostTurn, EndRound, InRound, stateVars
    <2>5. CASE Recv
      BY <2>5 DEF Recv, InRound, stateVars
    <2>6. CASE TakeLock
      BY <2>6 DEF TakeLock, stateVars, masterVars
    <2>7. CASE ApplyMove
      <3>1. round'.i = round.i
        BY <2>7 DEF ApplyMove, TypeOK
      <3>. QED
        BY <2>7, <3>1 DEF ApplyMove
    <2>8. CASE GrantTurn
      BY <2>8 DEF GrantTurn, stateVars
    <2>9. CASE GameEnd
      BY <2>9 DEF GameEnd
    <2>. QED
      BY <1>1, <2>1, <2>2, <2>3, <2>4, <2>5, <2>6, <2>7, <2>8, <2>9 DEF MasterStep
  <1>2. CASE ViewStep \/ KeyPressed \/ KillView
    <2>1. /\ ended' = ended /\ mpc' = mpc /\ round' = round /\ has_view' = has_view
          /\ interrupted' = interrupted
      BY <1>2, ViewLeaves DEF stateVars, masterVars, envVars
    <2>2. PlayersCount' = PlayersCount
      BY RoundTypes
    <2>. QED
      BY <1>2, <2>1, <2>2 DEF ViewStep, WaitFrame, StartDrawing, FrameDone, LastFrame, SkipResults, ShowResults,
         KeyPressed, KillView
  <1>3. CASE UNCHANGED <<stateVars, masterVars, viewVars>> /\ interrupted \subseteq interrupted'
    BY <1>3, RoundTypes DEF stateVars, masterVars, viewVars
  <1>. QED
    BY <1>1, <1>2, <1>3, StepCases, PlayerLeaves DEF envVars, KillPlayer, TimePasses, Signal, vars

(* Every step keeps the frame in one place.                                *)
LEMMA FramesStep ==
  ASSUME IInv, [Next]_vars
  PROVE  FramesInStep'
  <1> USE DEF IInv, FramesInStep, EndTold, B, SemWait, SemPost, Lock!SemWait, Lock!SemPost
  <1>0. view_may_render \in Nat /\ view_rendered \in Nat
    BY DEF TypeOK
  <1>1. CASE MasterStep
    <2>0. vpc' = vpc
      BY <1>1, MasterLeaves DEF viewVars
    <2> USE <1>0, <2>0 DEF MasterGoes
    <2>1. CASE WaitViewDone
      BY <2>1 DEF WaitViewDone
    <2>3. CASE SyncView
      BY <2>3 DEF SyncView, frameVars
    <2>4. CASE NotifyEnd
      BY <2>4 DEF NotifyEnd
    <2>2. CASE \/ PlacePlayer \/ LoopTest \/ Select \/ SkipPlayer \/ Recv \/ Disconnect \/ TakeLock \/ ApplyMove \/ ReleaseLock
               \/ GrantTurn \/ EndRound \/ GameEnd \/ PostTurn \/ ClosePipes \/ WaitPlayers \/ WaitViewExit
      BY <2>2 DEF frameVars, masterVars, PlacePlayer, LoopTest, Select, SkipPlayer, Recv, Disconnect, TakeLock, ApplyMove, ReleaseLock,
         GrantTurn, EndRound, GameEnd, PostTurn, ClosePipes, WaitPlayers, WaitViewExit, InRound
    <2>. QED
      BY <1>1, <2>1, <2>2, <2>3, <2>4 DEF MasterStep
  <1>2. CASE ViewStep \/ KeyPressed \/ KillView
    <2>1. mpc' = mpc
      BY <1>2, ViewLeaves DEF masterVars
    <2>. QED
      BY <1>0, <1>2, <2>1 DEF frameVars, ViewStep, WaitFrame, StartDrawing, FrameDone, LastFrame, SkipResults,
         ShowResults, KeyPressed, KillView
  <1>3. CASE UNCHANGED <<frameVars, masterVars, viewVars>>
    BY <1>3 DEF frameVars, masterVars, viewVars
  <1>. QED
    BY <1>1, <1>2, <1>3, StepCases, PlayerLeaves DEF KillPlayer, TimePasses, Signal, vars

(* Every step keeps the screen: a frame is drawn while the master waits    *)
(* for it, and only the moves of the round that follows are missing in it. *)
LEMMA ScreenStep ==
  ASSUME IInv, [Next]_vars
  PROVE  ScreenFollows'
  <1> USE DEF IInv, ScreenFollows
  <1>0. /\ view_may_render \in Nat /\ view_rendered \in Nat /\ screen \in Nat /\ free \in Nat
        /\ round.i \in Nat
        /\ round \in [start : Present, i : 0 .. PlayersCount, last : Present,
                      fds : SUBSET Present, valid : BOOLEAN]
        /\ lpc \in [Players \union {Master} -> Lock!ReaderPC \union Lock!WriterPC]
    <2>1. game \in Games /\ free \in 0 .. game.cells /\ screen \in 0 .. NoFrame /\ round.i \in 0 .. PlayersCount
      BY DEF TypeOK
    <2>2. free \in Nat /\ screen \in Nat /\ round.i \in Nat
      BY <2>1, GameFacts DEF NoFrame
    <2>. QED
      BY <2>2 DEF TypeOK, Lock!TypeOK
  <1>1. CASE MasterStep
    <2>0. vpc' = vpc /\ screen' = screen
      BY <1>1, MasterLeaves DEF viewVars
    <2> USE <1>0, <2>0 DEF MasterGoes
    <2>1. CASE WaitViewDone
      <3>1. mpc = "wait_view" /\ mpc' = "round" /\ round' = round /\ free' = free /\ view_rendered > 0
        BY <2>1 DEF WaitViewDone, SemWait, Lock!SemWait, stateVars
      <3>. QED
        BY <3>1 DEF MoveApplied, B
    <2>2. CASE Select \/ SyncView
      <3>1. /\ free' = free
            /\ mpc' = "wait_view" => view_rendered' = 0
            /\ mpc' \in {"round", "apply", "grant"} => vpc \in {"absent", "exited"}
        BY <2>2 DEF Select, SyncView, Stages, FramesInStep, EndTold, B, frameVars, stateVars
      <3>. QED
        BY <3>1
    <2>3. CASE SkipPlayer \/ Disconnect
      <3>1. mpc = "round" /\ mpc' = "round" /\ round'.i = round.i + 1 /\ free' = free
        BY <2>3 DEF SkipPlayer, Disconnect, InRound, NextPlayer, stateVars
      <3>. QED
        BY <3>1 DEF MoveApplied, B
    <2>4. CASE Recv
      <3>1. mpc = "round" /\ mpc' = "apply" /\ round' = round /\ free' = free
        BY <2>4 DEF Recv, InRound, stateVars
      <3>. QED
        BY <3>1 DEF MoveApplied, B
    <2>5. CASE TakeLock
      <3>1. mpc = "apply" /\ mpc' = "apply" /\ round' = round /\ free' = free /\ lpc[Master] # "release"
        BY <2>5 DEF TakeLock, masterVars, stateVars, Lock!WriterEnter, Lock!CloseTurnstile, Lock!StartWriting,
           Lock!Goto
      <3>. QED
        BY <3>1 DEF MoveApplied, B
    <2>6. CASE ApplyMove
      <3>1. /\ mpc = "apply" /\ mpc' = "apply" /\ round'.i = round.i
            /\ lpc[Master] # "release" /\ lpc'[Master] = "release"
        BY <2>6 DEF ApplyMove, Lock!StopWriting, Lock!Goto
      <3>2. free' = free \/ free' = free - 1
        BY <2>6 DEF ApplyMove
      <3>. QED
        BY <3>1, <3>2 DEF MoveApplied, B, Stages, FramesInStep, EndTold
    <2>7. CASE ReleaseLock
      <3>1. mpc = "apply" /\ mpc' = "grant" /\ round' = round /\ free' = free /\ lpc[Master] = "release"
        BY <2>7 DEF ReleaseLock, stateVars, Lock!WriterReturn, Lock!Goto
      <3>. QED
        BY <3>1 DEF MoveApplied, B
    <2>8. CASE GrantTurn
      <3>1. mpc = "grant" /\ mpc' = "round" /\ round'.i = round.i + 1 /\ free' = free
        BY <2>8 DEF GrantTurn, NextPlayer, stateVars
      <3>. QED
        BY <3>1 DEF MoveApplied, B
    <2>10. CASE PlacePlayer
      <3>1. vpc # "draw" /\ mpc' \notin {"wait_view", "round", "apply", "grant"}
        BY <2>10 DEF PlacePlayer, FramesInStep, EndTold, B
      <3>. QED
        BY <3>1
    <2>9. CASE LoopTest \/ EndRound \/ GameEnd \/ PostTurn \/ NotifyEnd \/ ClosePipes \/ WaitPlayers \/ WaitViewExit
      <3>1. free' = free /\ mpc' \notin {"wait_view", "round", "apply", "grant"}
        BY <2>9 DEF LoopTest, EndRound, GameEnd, PostTurn, NotifyEnd, ClosePipes, WaitPlayers, WaitViewExit, stateVars
      <3>. QED
        BY <3>1
    <2>. QED
      BY <1>1, <2>1, <2>2, <2>3, <2>4, <2>5, <2>6, <2>7, <2>8, <2>9, <2>10 DEF MasterStep
  <1>2. CASE ViewStep \/ KeyPressed \/ KillView
    <2>1. /\ mpc' = mpc /\ round' = round /\ free' = free /\ lpc' = lpc
          /\ vpc \in {"frame", "draw"} => mpc \notin {"round", "apply", "grant"}
      BY <1>0, <1>2, ViewLeaves DEF masterVars, stateVars, lockVars, FramesInStep, EndTold, B
    <2>2. MoveApplied' = MoveApplied
      BY <2>1 DEF MoveApplied
    <2>3. CASE FrameDone
      BY <2>1, <2>3 DEF FrameDone
    <2>4. CASE StartDrawing
      BY <2>4 DEF StartDrawing, ViewOnly, stateVars
    <2>5. CASE WaitFrame \/ LastFrame \/ SkipResults \/ ShowResults \/ KeyPressed \/ KillView
      BY <2>5 DEF WaitFrame, LastFrame, SkipResults, ShowResults, KeyPressed, KillView
    <2>. QED
      BY <1>2, <2>3, <2>4, <2>5 DEF ViewStep
  <1>3. CASE UNCHANGED <<frameVars, stateVars, masterVars, viewVars>> /\ lpc'[Master] = lpc[Master]
    BY <1>3 DEF frameVars, stateVars, masterVars, viewVars, MoveApplied, B
  <1>4. ASSUME NEW p \in Players, PlayerStep(p) PROVE lpc'[Master] = lpc[Master]
    BY <1>4, PlayerInLock DEF PlayerStep, FirstTurn, LeaveOnSignal, StartLooking, EnterLock, Look, LeaveLock,
       GiveUp, Send, SendToNobody, NextTurn, CheckEnded, lockVars
  <1>. QED
    BY <1>1, <1>2, <1>3, <1>4, StepCases, PlayerLeaves DEF KillPlayer, TimePasses, Signal, vars, lockVars

(* The invariant is inductive.                                             *)
THEOREM NextIInv == IInv /\ [Next]_vars => IInv'
  <1> SUFFICES ASSUME IInv, [Next]_vars PROVE IInv'
    OBVIOUS
  <1>1. LockProofs!IInv'
    BY LockInvStep DEF IInv
  <1>. QED
    BY <1>1, TypeStep, PlacesStep, TurnsStep, ChoicesStep, ReadableStep, StagesStep, FramesStep, ScreenStep DEF IInv

(* The invariant holds in every state a game can reach.                    *)
THEOREM Invariance == Spec => []IInv
  BY InitIInv, NextIInv, PTL DEF Spec

-----------------------------------------------------------------------------
(* What follows from it                                                    *)

(* The variables keep their types: a player never has more than two tokens *)
(* nor more than one unread byte, and no semaphore of the view exceeds 2.  *)
THEOREM TypeCorrect == Spec => []TypeOK
  BY Invariance, PTL DEF IInv

(* A player that is still there has exactly one turn, and one more when    *)
(* game_end has posted it: none is lost, none is granted twice.            *)
THEOREM TurnsConserved == Spec => []TurnConservation
  <1>1. IInv => TurnConservation
    BY DEF IInv, Turns, OneTurn, TurnConservation
  <1>. QED
    BY <1>1, Invariance, PTL

(* The master never applies a move chosen around a position its player has *)
(* left since, nor a second one chosen before the players were placed.     *)
THEOREM MovesCurrent == Spec => []MoveFromCurrentPosition
  <1>1. IInv => MoveFromCurrentPosition
    BY DEF IInv, Choices, ChoiceOK, SentNow, MoveFromCurrentPosition
  <1>. QED
    BY <1>1, Invariance, PTL

LEMMA NeverBlocks == IInv => RecvNeverBlocks
  <1>1. ASSUME IInv, InRound, Served PROVE pipe[Idx] > 0 \/ Eof(Idx)
    <2>1. mpc = "round" /\ round.i \in Present
      BY <1>1, GameFacts DEF InRound, IInv, TypeOK, Present
    <2>2. Unserved(round.i) /\ PlayerAt(round.i) \in round.fds
      BY <1>1, <2>1, IdxPresent DEF IInv, TypeOK, Unserved, Serving, Served
    <2>3. Readable(PlayerAt(round.i))
      BY <1>1, <2>1, <2>2 DEF IInv, RoundReadable, StillReadable
    <2>. QED
      BY <1>1, <2>3, IdxPresent DEF IInv, Readable
  <1>. QED
    BY <1>1 DEF RecvNeverBlocks

(* recv_direction never blocks the master, whatever happened between       *)
(* select() and its turn in the round.                                     *)
THEOREM ReadsNeverBlock == Spec => []RecvNeverBlocks
  BY NeverBlocks, Invariance, PTL

(* The screen misses the moves of the round that is being served and no    *)
(* others.                                                                 *)
THEOREM ScreenBehind == Spec => []ScreenOneRoundBehind
  <1>1. ASSUME IInv, vpc = "wait", mpc \in {"round", "apply", "grant"}
        PROVE  screen - free \in 0 .. round.i + B(mpc # "round")
    <2>1. game \in Games /\ free \in 0 .. game.cells /\ screen \in 0 .. NoFrame /\ round.i \in 0 .. PlayersCount
      BY <1>1 DEF IInv, TypeOK
    <2>2. free \in Nat /\ screen \in Nat /\ round.i \in Nat
      BY <2>1, GameFacts DEF NoFrame
    <2>3. free <= screen /\ screen <= free + round.i + B(MoveApplied)
      BY <1>1 DEF IInv, ScreenFollows
    <2>. QED
      BY <1>1, <2>2, <2>3 DEF MoveApplied, B
  <1>. QED
    BY <1>1, Invariance, PTL DEF ScreenOneRoundBehind

(* While the view draws, a frame or the results, nobody changes the state  *)
(* it reads: the handshake is all the lock it needs.                       *)
THEOREM ViewReadsAlone == Spec => ViewUndisturbed
  <1>1. IInv /\ [Next]_vars => [(vpc \in {"draw", "shown"}) => UNCHANGED stateVars]_vars
    <2> SUFFICES ASSUME IInv, Next, vpc \in {"draw", "shown"} PROVE UNCHANGED stateVars
      OBVIOUS
    <2>1. mpc \notin {"place", "round", "apply", "game_end"}
      BY DEF IInv, TypeOK, FramesInStep, Stages, EndTold, AfterLoop, B
    <2>2. MasterStep => UNCHANGED stateVars
      BY <2>1 DEF MasterStep, MasterGoes, stateVars, PlacePlayer, LoopTest, Select, SyncView, WaitViewDone, SkipPlayer, Recv,
         Disconnect, InRound, TakeLock, ApplyMove, ReleaseLock, GrantTurn, EndRound, GameEnd, PostTurn,
         NotifyEnd, ClosePipes, WaitPlayers, WaitViewExit
    <2>. QED
      BY <2>2, StepCases, PlayerLeaves, ViewLeaves DEF KillPlayer, TimePasses, Signal, vars
  <1>. QED
    BY <1>1, Invariance, PTL DEF Spec, ViewUndisturbed

(* The lock's variables change as its specification has them change, so    *)
(* that what is proved of the lock alone holds in the game.                *)
LEMMA LockUsed == Spec => Lock!Spec
  <1>1. Init => Lock!Init
    BY DEF Init
  <1>. QED
    BY <1>1, LockStep, PTL DEF Spec, Lock!Spec

(* Seen from outside, the players and the master of a game share the       *)
(* readers-writer lock that game_sync.h promises, and no player starts to  *)
(* read once the master is waiting to write.                               *)
THEOREM GameImplementsRWLock ==
  Spec => LockProofs!ImplementsRWLock /\ LockProofs!WriterPreference
  <1>1. Lock!Init => LockProofs!Init
    BY DEF Lock!Init, LockProofs!Init
  <1>2. Spec => LockProofs!Spec
    BY <1>1, LockUsed, SameLock, PTL DEF Lock!Spec, LockProofs!Spec
  <1>3. LockProofs!Spec => LockProofs!ImplementsRWLock
    BY LockProofs!Refinement, Processes
  <1>4. LockProofs!Spec => LockProofs!WriterPreference
    BY LockProofs!WriterGoesFirst, Processes
  <1>. QED
    BY <1>2, <1>3, <1>4

(* In the game too, the master never applies a move while a player reads,  *)
(* nor does anybody find the lock's semaphores or its counter wrong, even  *)
(* after players were killed inside it.                                    *)
THEOREM LockExcludes ==
  Spec => []LockProofs!MutualExclusion /\ []LockProofs!SemaphoresConserved /\ []LockProofs!CountExact
  <1>1. IInv => LockProofs!MutualExclusion /\ LockProofs!SemaphoresConserved /\ LockProofs!CountExact
    BY DEF IInv, LockProofs!IInv
  <1>. QED
    BY <1>1, Invariance, PTL

(* The board a player computes its move on does not change under it: a     *)
(* player is in compute_next_move only as a reader, and the master writes  *)
(* only as the writer, but for placing the players.                        *)
THEOREM PlayersReadAlone == Spec => BoardUndisturbed
  <1>1. IInv /\ [Next]_vars =>
          [mpc # "place" /\ (\E p \in Players : ppc[p] = "compute") => UNCHANGED free]_vars
    <2> SUFFICES ASSUME IInv, Next, mpc # "place", NEW p \in Players, ppc[p] = "compute"
                 PROVE  UNCHANGED free
      OBVIOUS
    <2>1. lpc[Master] # "writing"
      <3>1. lpc[p] = "reading"
        BY DEF IInv, LockPlaces
      <3>2. p \in LockProofs!ReaderGroup
        BY <3>1 DEF LockProofs!ReaderGroup
      <3>. QED
        BY <3>2 DEF IInv, LockProofs!IInv, LockProofs!MutualExclusion, LockProofs!WritersInside
    <2>2. MasterStep => UNCHANGED free
      BY <2>1 DEF MasterStep, stateVars, PlacePlayer, LoopTest, Select, SyncView, WaitViewDone, SkipPlayer, Recv,
         Disconnect, TakeLock, ApplyMove, ReleaseLock, GrantTurn, EndRound, GameEnd, PostTurn,
         NotifyEnd, ClosePipes, WaitPlayers, WaitViewExit, Lock!StopWriting, Lock!Goto
    <2>. QED
      BY <2>2, StepCases, PlayerLeaves, ViewLeaves DEF stateVars, KillPlayer, TimePasses, Signal, vars
  <1>. QED
    BY <1>1, Invariance, PTL DEF Spec, BoardUndisturbed

(* Nobody waits inside the lock for anything but the lock: not a player    *)
(* for its turn, nor the master for a frame, a byte or a child.            *)
THEOREM WaitsOutsideLock == Spec => []LockPlaces
  BY Invariance, PTL DEF IInv

-----------------------------------------------------------------------------
(* Nobody waits for ever                                                   *)

(* Who is blocked: a player on its turn or in the lock; the view on a      *)
(* frame, or on the key of its last screen; the master in the lock, on a   *)
(* frame, on a child or, though it tries again every second, on a select   *)
(* that finds nothing.                                                     *)
PlayerWaits(p) ==
  \/ ppc[p] \in {"first_turn", "next_turn"} /\ token[p] = 0
  \/ ppc[p] \in {"look", "leave"} /\ LockProofs!Waits(p)
ViewWaits == (vpc = "wait" /\ view_may_render = 0) \/ vpc = "shown"
MasterWaits ==
  \/ mpc = "select" /\ Ready = {}
  \/ mpc = "wait_view" /\ view_rendered = 0
  \/ InRound /\ Served /\ pipe[Idx] = 0 /\ ~Eof(Idx)
  \/ mpc = "apply" /\ LockProofs!Waits(Master)
  \/ mpc = "wait_players" /\ \E p \in Present : ppc[p] # "exited"
  \/ mpc = "wait_view_exit" /\ has_view /\ vpc # "exited"

(* As long as no player is killed, a master that waits waits for somebody  *)
(* that runs, with three exceptions: all players have left and the view    *)
(* keeps their pipes open (the timeout ends that), the view has been lost  *)
(* during the handshake (nothing does), and the last screen waits for a    *)
(* key.                                                                    *)
NoDeadlock ==
  game.killable \subseteq {View} /\ MasterWaits =>
    \/ \E p \in Present : ppc[p] # "exited" /\ ~PlayerWaits(p)
    \/ vpc \notin {"absent", "exited"} /\ ~ViewWaits
    \/ mpc = "select" /\ \A p \in Present : ppc[p] = "exited"
    \/ mpc = "wait_view" /\ View \in game.killable \union interrupted
    \/ mpc = "wait_view_exit" /\ vpc = "shown"

(* What it rests on besides the invariant: the master gives up only        *)
(* players that have left, players that were not killed leave nothing of   *)
(* the lock behind, and a view that still waits for frames is owed every   *)
(* one the master is waiting for, and the last.                            *)
BlockedGone == \A p \in Players : is_blocked[p] => ppc[p] = "exited"
LockFree == game.killable \subseteq {View} => \A p \in Players : ppc[p] = "exited" => lpc[p] = "idle"
FrameDue ==
  vpc \in {"wait", "frame", "draw"} =>
    /\ mpc = "wait_view" => view_may_render + view_rendered + B(vpc \in {"frame", "draw"}) = 1
    /\ mpc \in EndTold => view_may_render + B(vpc = "frame") = 1
ViewLeft == vpc = "exited" => ended \/ View \in game.killable \union interrupted
Progress == BlockedGone /\ LockFree /\ FrameDue /\ ViewLeft

LEMMA BlockedGoneStep ==
  ASSUME IInv, BlockedGone, [Next]_vars
  PROVE  BlockedGone'
  <1>1. \A p \in Players : ppc[p] = "exited" => ppc'[p] = "exited"
    <2>1. CASE \E p \in Players : PlayerStep(p)
      BY <2>1 DEF IInv, TypeOK, PlayerStep, PlayerGoes, FirstTurn, LeaveOnSignal, StartLooking, EnterLock, Look, LeaveLock,
         GiveUp, Send, SendToNobody, NextTurn, CheckEnded, playerVars
    <2>2. CASE \E p \in game.killable \ {View} : KillPlayer(p)
      BY <2>2 DEF IInv, TypeOK, KillPlayer
    <2>. QED
      BY <2>1, <2>2, StepCases, MasterLeaves, ViewLeaves DEF playerVars, TimePasses, Signal, vars
  <1>2. \/ Disconnect
        \/ is_blocked' = is_blocked
    <2>1. MasterStep => Disconnect \/ is_blocked' = is_blocked
      BY DEF MasterStep, stateVars, PlacePlayer, LoopTest, Select, SyncView, WaitViewDone, SkipPlayer,
         Recv, TakeLock, ApplyMove, ReleaseLock, GrantTurn, EndRound, GameEnd, PostTurn,
         NotifyEnd, ClosePipes, WaitPlayers, WaitViewExit
    <2>. QED
      BY <2>1, StepCases, PlayerLeaves, ViewLeaves DEF stateVars, KillPlayer, TimePasses, Signal, vars
  <1>3. CASE Disconnect
    <2>1. Idx \in Players /\ ppc[Idx] = "exited" /\ is_blocked' = [is_blocked EXCEPT ![Idx] = TRUE]
      BY <1>3, IdxPresent DEF IInv, Disconnect, Eof
    <2>2. \A p \in Players : is_blocked'[p] => is_blocked[p] \/ p = Idx
      BY <2>1 DEF IInv, TypeOK
    <2>. QED
      BY <1>1, <2>1, <2>2 DEF BlockedGone
  <1>. QED
    BY <1>1, <1>2, <1>3 DEF BlockedGone

LEMMA LockFreeStep ==
  ASSUME IInv, LockFree, [Next]_vars
  PROVE  LockFree'
  <1> SUFFICES ASSUME game'.killable \subseteq {View}, NEW p \in Players, ppc'[p] = "exited"
               PROVE  lpc'[p] = "idle"
    BY DEF LockFree
  <1>1. game' = game
    BY StepCases, MasterLeaves, PlayerLeaves, ViewLeaves DEF envVars, KillPlayer, TimePasses, Signal, vars
  <1>2. ppc[p] = "exited" => lpc[p] = "idle"
    BY <1>1 DEF LockFree
  <1>3. CASE MasterStep
    <2>1. ppc' = ppc
      BY <1>3, MasterLeaves
    <2>2. lpc'[p] = lpc[p]
      BY <1>3, MasterInLock DEF IInv, MasterStep, lockVars, PlacePlayer, LoopTest, Select, SyncView, WaitViewDone, SkipPlayer,
         Recv, Disconnect, TakeLock, ApplyMove, ReleaseLock, GrantTurn, EndRound, GameEnd, PostTurn,
         NotifyEnd, ClosePipes, WaitPlayers, WaitViewExit
    <2>. QED
      BY <1>2, <2>1, <2>2
  <1>4. ASSUME NEW q \in Players, PlayerStep(q)
        PROVE  lpc'[p] = "idle"
    <2>1. CASE q = p
      <3>1. ppc[p] # "exited"
        BY <1>4, <2>1 DEF PlayerStep, PlayerGoes, FirstTurn, LeaveOnSignal, StartLooking, EnterLock, Look, LeaveLock,
           GiveUp, Send, SendToNobody, NextTurn, CheckEnded
      <3>2. lpc' = lpc /\ lpc[p] = "idle"
        BY <1>4, <2>1, <3>1 DEF IInv, TypeOK, LockPlaces, PlayerStep, PlayerGoes, FirstTurn, LeaveOnSignal,
           StartLooking, EnterLock, Look, LeaveLock, GiveUp, Send, SendToNobody, NextTurn, CheckEnded,
           playerVars, lockVars
      <3>. QED
        BY <3>2
    <2>2. CASE q # p
      <3>1. ppc'[p] = ppc[p]
        BY <1>4, <2>2 DEF IInv, TypeOK, PlayerStep, PlayerGoes, FirstTurn, LeaveOnSignal, StartLooking, EnterLock,
           Look, LeaveLock, GiveUp, Send, SendToNobody, NextTurn, CheckEnded, playerVars
      <3>2. lpc'[p] = lpc[p]
        BY <1>4, <2>2, PlayerInLock DEF IInv, PlayerStep, lockVars, FirstTurn, LeaveOnSignal, StartLooking, EnterLock,
           Look, LeaveLock, GiveUp, Send, SendToNobody, NextTurn, CheckEnded
      <3>. QED
        BY <1>2, <3>1, <3>2
    <2>. QED
      BY <2>1, <2>2
  <1>5. ~ \E q \in game.killable \ {View} : KillPlayer(q)
    BY <1>1
  <1>6. CASE UNCHANGED <<lpc, ppc>>
    BY <1>2, <1>6
  <1>. QED
    BY <1>3, <1>4, <1>5, <1>6, StepCases, ViewLeaves DEF lockVars, playerVars, TimePasses, Signal, vars

LEMMA FrameDueStep ==
  ASSUME IInv, FrameDue, [Next]_vars
  PROVE  FrameDue'
  <1> USE DEF IInv, FrameDue, FramesInStep, Stages, EndTold, B, SemWait, SemPost, Lock!SemWait, Lock!SemPost
  <1>0. view_may_render \in Nat /\ view_rendered \in Nat
    BY DEF TypeOK
  <1>1. CASE MasterStep
    <2>0. vpc' = vpc
      BY <1>1, MasterLeaves DEF viewVars
    <2> USE <1>0, <2>0 DEF MasterGoes
    <2>1. CASE WaitViewDone
      BY <2>1 DEF WaitViewDone
    <2>2. CASE SyncView
      <3>1. CASE vpc = "exited"
        BY <2>0, <3>1
      <3>2. CASE vpc # "exited"
        <4>1. mpc = "view" /\ mpc' = "wait_view" /\ view_may_render' = view_may_render + 1
              /\ view_rendered' = view_rendered
          BY <2>2, <3>2 DEF SyncView
        <4>2. view_may_render = 0 /\ view_rendered = 0 /\ vpc \notin {"frame", "draw"}
          BY <1>0, <4>1
        <4>. QED
          BY <2>0, <4>1, <4>2
      <3>. QED
        BY <3>1, <3>2
    <2>3. CASE NotifyEnd
      BY <2>3 DEF NotifyEnd
    <2>4. CASE \/ PlacePlayer \/ LoopTest \/ Select \/ SkipPlayer \/ Recv \/ Disconnect \/ TakeLock \/ ApplyMove \/ ReleaseLock
               \/ GrantTurn \/ EndRound \/ GameEnd \/ PostTurn \/ ClosePipes \/ WaitPlayers \/ WaitViewExit
      BY <2>4 DEF frameVars, masterVars, PlacePlayer, LoopTest, Select, SkipPlayer, Recv, Disconnect, TakeLock, ApplyMove, ReleaseLock,
         GrantTurn, EndRound, GameEnd, PostTurn, ClosePipes, WaitPlayers, WaitViewExit, InRound
    <2>. QED
      BY <1>1, <2>1, <2>2, <2>3, <2>4 DEF MasterStep
  <1>2. CASE ViewStep \/ KeyPressed \/ KillView
    <2>1. mpc' = mpc /\ ended' = ended
      BY <1>2, ViewLeaves DEF masterVars, stateVars
    <2>2. mpc \in EndTold => ended
      BY DEF AfterLoop, TypeOK
    <2>. QED
      BY <1>0, <1>2, <2>1, <2>2 DEF frameVars, ViewStep, WaitFrame, StartDrawing, FrameDone, LastFrame, SkipResults,
         ShowResults, KeyPressed, KillView
  <1>3. CASE UNCHANGED <<frameVars, masterVars, viewVars>>
    BY <1>3 DEF frameVars, masterVars, viewVars
  <1>. QED
    BY <1>1, <1>2, <1>3, StepCases, PlayerLeaves DEF KillPlayer, TimePasses, Signal, vars

LEMMA ViewLeftStep ==
  ASSUME IInv, ViewLeft, [Next]_vars
  PROVE  ViewLeft'
  <1> USE DEF ViewLeft
  <1>1. CASE MasterStep
    <2>1. vpc' = vpc /\ game' = game /\ interrupted' = interrupted
      BY <1>1, MasterLeaves DEF viewVars
    <2>2. ended => ended'
      BY <1>1 DEF MasterStep, stateVars, PlacePlayer, LoopTest, Select, SyncView, WaitViewDone, SkipPlayer,
         Recv, Disconnect, TakeLock, ApplyMove, ReleaseLock, GrantTurn, EndRound, GameEnd, PostTurn,
         NotifyEnd, ClosePipes, WaitPlayers, WaitViewExit
    <2>. QED
      BY <2>1, <2>2
  <1>2. CASE ViewStep \/ KeyPressed
    <2>1. game' = game /\ interrupted' = interrupted /\ ended' = ended
      BY <1>2, ViewLeaves DEF envVars, stateVars
    <2>2. vpc' = "exited" => ended \/ View \in interrupted
      BY <1>2 DEF ViewStep, WaitFrame, StartDrawing, FrameDone, LastFrame, SkipResults, ShowResults, KeyPressed,
         IInv, Stages
    <2>. QED
      BY <2>1, <2>2
  <1>3. CASE View \in game.killable /\ KillView
    BY <1>3, ViewLeaves DEF envVars
  <1>4. ASSUME NEW q \in game.signalled, Signal(q) PROVE ViewLeft'
    BY <1>4 DEF Signal, stateVars, viewVars
  <1>5. CASE UNCHANGED <<vpc, ended, game, interrupted>>
    BY <1>5
  <1>6. \/ MasterStep \/ ViewStep \/ KeyPressed \/ (View \in game.killable /\ KillView)
        \/ \E p \in Players : PlayerStep(p)
        \/ \E p \in game.killable \ {View} : KillPlayer(p)
        \/ TimePasses
        \/ \E q \in game.signalled : Signal(q)
        \/ UNCHANGED vars
    BY Zenon DEF Next, Environment, Done
  <1>. QED
    BY <1>1, <1>2, <1>3, <1>4, <1>5, <1>6, PlayerLeaves
       DEF KillPlayer, TimePasses, vars, viewVars, stateVars, envVars

LEMMA ProgressInvariant == Spec => []Progress
  <1>1. Init => Progress
    <2> SUFFICES ASSUME Init PROVE Progress
      OBVIOUS
    <2>1. BlockedGone /\ LockFree /\ FrameDue /\ ViewLeft
      BY DEF Init, Lock!Init, BlockedGone, LockFree, FrameDue, ViewLeft, EndTold
    <2>. QED
      BY <2>1 DEF Progress
  <1>2. IInv /\ Progress /\ [Next]_vars => Progress'
    BY BlockedGoneStep, LockFreeStep, FrameDueStep, ViewLeftStep DEF Progress
  <1>. QED
    BY <1>1, <1>2, Invariance, PTL DEF Spec

(* If anybody is in the lock, a player that is there runs or the master.   *)
LEMMA LockRuns ==
  ASSUME IInv, LockFree, game.killable \subseteq {View}, NEW p \in Players \union {Master},
         lpc[p] # "idle", mpc = "apply" => LockProofs!Waits(Master)
  PROVE  \E q \in Present : ppc[q] # "exited" /\ ~PlayerWaits(q)
  <1>1. PICK q \in Players \union {Master} : lpc[q] # "idle" /\ ~LockProofs!Waits(q)
    BY LockProofs!RunsInside, Processes DEF IInv, LockProofs!SomebodyRuns
  <1>2. q # Master
    BY <1>1 DEF IInv, LockPlaces
  <1>3. q \in Players /\ ppc[q] \in {"look", "compute", "leave"}
    <2>1. q \in Players /\ ppc[q] # "exited"
      BY <1>1, <1>2 DEF LockFree
    <2>. QED
      BY <1>1, <2>1 DEF IInv, LockPlaces, TypeOK, PlayerPC
  <1>4. q \in Present
    BY <1>3 DEF IInv, Turns, OneTurn
  <1>. QED
    BY <1>1, <1>3, <1>4 DEF PlayerWaits

(* A player that waits for its turn has it on the way: as a move that the  *)
(* master has not read or is serving.                                      *)
LEMMA TurnOnItsWay ==
  ASSUME IInv, NEW p \in Players, ppc[p] \in {"first_turn", "next_turn"}, token[p] = 0,
         mpc \notin {"apply", "grant"}
  PROVE  pipe[p] = 1 /\ ~EndPosted(p)
  <1>1. TurnsOf(p) = 1 + B(EndPosted(p))
    BY DEF IInv, Turns, OneTurn
  <1>2. pipe[p] \in 0 .. 1
    BY DEF IInv, TypeOK
  <1>3. TurnsOf(p) = pipe[p]
    BY <1>2 DEF TurnsOf, B
  <1>. QED
    BY <1>1, <1>2, <1>3 DEF B

(* The players never all wait while the master has nothing to do.          *)
LEMMA PlayersRun ==
  ASSUME IInv, Progress, game.killable \subseteq {View}, NEW p \in Present, ppc[p] # "exited",
         \/ mpc = "select" /\ Ready = {}
         \/ mpc = "wait_players"
  PROVE  \E q \in Present : ppc[q] # "exited" /\ ~PlayerWaits(q)
  <1>1. p \in Players
    BY GameFacts DEF IInv, TypeOK
  <1>2. CASE ppc[p] \in {"first_turn", "next_turn"} /\ token[p] = 0
    <2>1. pipe[p] = 1 /\ ~EndPosted(p)
      BY <1>1, <1>2, TurnOnItsWay
    <2>2. mpc = "select" /\ Ready = {}
      BY <2>1 DEF EndPosted, AfterLoop
    <2>3. is_blocked[p]
      BY <2>1, <2>2 DEF Ready
    <2>. QED
      BY <1>1, <2>3 DEF Progress, BlockedGone
  <1>3. CASE ppc[p] \in {"look", "leave"} /\ LockProofs!Waits(p)
    <2>1. lpc[p] # "idle"
      BY <1>3 DEF LockProofs!Waits
    <2>. QED
      BY <1>1, <2>1, LockRuns DEF Progress
  <1>4. CASE ~PlayerWaits(p)
    BY <1>4
  <1>. QED
    BY <1>2, <1>3, <1>4 DEF PlayerWaits

(* However many players there are: as long as none is killed, they, the    *)
(* view and the master do not all wait for each other.                     *)
THEOREM NobodyWaitsForEver == Spec => []NoDeadlock
  <1>1. ASSUME IInv, Progress, game.killable \subseteq {View}, MasterWaits
        PROVE  \/ \E p \in Present : ppc[p] # "exited" /\ ~PlayerWaits(p)
               \/ vpc \notin {"absent", "exited"} /\ ~ViewWaits
               \/ mpc = "select" /\ \A p \in Present : ppc[p] = "exited"
               \/ mpc = "wait_view" /\ View \in game.killable \union interrupted
               \/ mpc = "wait_view_exit" /\ vpc = "shown"
    <2> DEFINE SomePlayer == \E p \in Present : ppc[p] # "exited" /\ ~PlayerWaits(p)
    <2> HIDE DEF SomePlayer
    <2>1. CASE mpc = "select" /\ Ready = {}
      BY <1>1, <2>1, PlayersRun DEF SomePlayer
    <2>2. CASE mpc = "wait_view" /\ view_rendered = 0
      <3>1. has_view /\ ~ended
        BY <1>1, <2>2 DEF IInv, Stages, AfterLoop
      <3>2. vpc \notin {"absent", "shown"}
        BY <1>1, <3>1 DEF IInv, Stages
      <3>3. vpc \in {"exited", "results"} => View \in game.killable \union interrupted
        BY <1>1, <3>1 DEF IInv, Stages, Progress, ViewLeft
      <3>4. vpc = "wait" => view_may_render = 1
        BY <1>1, <2>2 DEF IInv, TypeOK, Progress, FrameDue, B
      <3>. QED
        BY <2>2, <3>2, <3>3, <3>4 DEF ViewWaits
    <2>3. CASE InRound /\ Served /\ pipe[Idx] = 0 /\ ~Eof(Idx)
      <3>1. RecvNeverBlocks
        BY <1>1, NeverBlocks
      <3>2. Idx \in Players
        BY <1>1, IdxPresent DEF IInv
      <3>. QED
        BY <2>3, <3>1, <3>2 DEF RecvNeverBlocks
    <2>4. CASE mpc = "apply" /\ LockProofs!Waits(Master)
      <3>1. lpc[Master] # "idle"
        BY <2>4 DEF LockProofs!Waits
      <3>. QED
        BY <1>1, <2>4, <3>1, LockRuns DEF Progress
    <2>5. CASE mpc = "wait_players" /\ \E p \in Present : ppc[p] # "exited"
      BY <1>1, <2>5, PlayersRun
    <2>6. CASE mpc = "wait_view_exit" /\ has_view /\ vpc # "exited"
      <3>1. vpc # "absent"
        BY <1>1, <2>6 DEF IInv, Stages
      <3>2. vpc = "wait" => view_may_render = 1
        BY <1>1, <2>6 DEF IInv, TypeOK, Progress, FrameDue, EndTold, B
      <3>. QED
        BY <2>6, <3>1, <3>2 DEF ViewWaits
    <2>. QED
      BY <1>1, <2>1, <2>2, <2>3, <2>4, <2>5, <2>6 DEF MasterWaits
  <1>2. IInv /\ Progress => NoDeadlock
    BY <1>1 DEF NoDeadlock
  <1>. QED
    BY <1>2, Invariance, ProgressInvariant, PTL
=============================================================================
