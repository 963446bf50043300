------------------------------ MODULE GameLoop ------------------------------
(***************************************************************************)
(* A game as its processes run it: the master's select() loop and its      *)
(* shutdown (master_loop.c, game_admin.c, main.c), the players             *)
(* (player_loop.c), the view (view.c), the turn semaphores, the pipes, the *)
(* view handshake and the readers-writer lock of module GameSync.          *)
(*                                                                         *)
(* The board is abstracted to what the protocol can tell apart: how many   *)
(* rewards are left, and whether the cell a player chose under the reader  *)
(* lock can have changed since.  Module GameAdmin has the board itself.    *)
(***************************************************************************)
EXTENDS Naturals, FiniteSets

CONSTANTS Master, View,   \* the two processes that are not players
          Games           \* the games that may be started, each a record of
                          \*   players    params.players_count
                          \*   view       whether the master was given a view (-v)
                          \*   cells      rewards on the new board
                          \*   signalled  processes that SIGINT or SIGTERM may reach
                          \*   killable   players, or the view, that may be killed

Players == UNION {0 .. g.players - 1 : g \in Games}

ASSUME GameAssumption ==
  /\ Games # {}
  /\ Games \subseteq [players : Nat \ {0}, view : BOOLEAN, cells : Nat,
                      signalled : SUBSET (Players \union {Master, View}),
                      killable : SUBSET (Players \union {View})]
  /\ Master # View /\ Master \notin Players /\ View \notin Players
  /\ IsFiniteSet(Players)

VARIABLES
  \* the lock of game_sync_t, and how far each process is inside it
  master_writing, gamestate_mutex, readers_count_mutex, readers_count, lpc,
  \* turns: player_may_send_movement[p], and the unread bytes of p's pipe
  token, pipe,
  \* the view's semaphores
  view_may_render, view_rendered,
  \* game_state_t: who is out, whether the game is over, the rewards left
  is_blocked, ended, free,
  \* the processes
  ppc, look, mpc, round, has_view, vpc,
  \* the rewards left on the board that the screen shows
  screen,
  \* the game that was started; the timeout has run out since
  \* last_valid_move; who got SIGINT or SIGTERM
  game, expired, interrupted

lockVars   == <<master_writing, gamestate_mutex, readers_count_mutex, readers_count, lpc>>
turnVars   == <<token, pipe>>
frameVars  == <<view_may_render, view_rendered>>
stateVars  == <<is_blocked, ended, free>>
playerVars == <<ppc, look>>
masterVars == <<mpc, round, has_view>>
viewVars   == <<vpc, screen>>
envVars    == <<game, expired, interrupted>>
vars == <<lockVars, turnVars, frameVars, stateVars, playerVars, masterVars, viewVars, envVars>>

(* The players of this game; Players are those of any.                     *)
PlayersCount == game.players
Present == 0 .. PlayersCount - 1

Lock == INSTANCE GameSync WITH Readers <- Players, Writers <- {Master}

PlayerPC == {"first_turn", "top", "look", "compute", "leave", "next_turn", "check", "exited"}
MasterPC == {"place", "top", "select", "view", "wait_view", "round", "apply", "grant",
             "game_end", "post_turns", "close_pipes", "wait_players", "wait_view_exit", "done"}
ViewPC   == {"absent", "wait", "frame", "draw", "results", "shown", "exited"}

AfterLoop == {"game_end", "post_turns", "close_pipes", "wait_players", "wait_view_exit", "done"}
PipesClosed == {"wait_players", "wait_view_exit", "done"}

(* What a player saw when it chose a move: "none" is NO_VALID_MOVE, "fresh" *)
(* is a free cell of a board that has not changed since, "raced" one of a  *)
(* board that has changed since, "early" one around (0, 0), where a player *)
(* finds itself before it is placed, and "moved" one around a position     *)
(* that it has left, or chosen early and applied, since.                   *)
LookKinds == {"none", "fresh", "raced", "early", "moved"}

NoRound == [start |-> 0, i |-> 0, last |-> 0, fds |-> {}, valid |-> FALSE]

(* Nothing drawn yet: more rewards than any board has.                     *)
NoFrame == game.cells + 1

(* The children are forked and registered, and the master is about to      *)
(* place the players.  game_sync_init gave every player one turn and the   *)
(* view none, so the players already run.                                  *)
Init ==
  /\ game \in Games
  /\ Lock!Init
  /\ token = [p \in Players |-> 1]
  /\ pipe = [p \in Players |-> 0]
  /\ view_may_render = 0 /\ view_rendered = 0
  /\ is_blocked = [p \in Players |-> FALSE]
  /\ ended = FALSE
  /\ free = game.cells
  /\ ppc = [p \in Players |-> IF p \in Present THEN "first_turn" ELSE "exited"]
  /\ look = [p \in Players |-> "none"]
  /\ mpc = "place" /\ round = NoRound /\ has_view = game.view
  /\ vpc = IF game.view THEN "wait" ELSE "absent"
  /\ screen = NoFrame
  /\ expired = FALSE /\ interrupted = {}

SemWait(sem) == Lock!SemWait(sem)
SemPost(sem) == Lock!SemPost(sem)
TokenWait(p) == token[p] > 0 /\ token' = [token EXCEPT ![p] = @ - 1]
TokenPost(p) == token' = [token EXCEPT ![p] = @ + 1]

-----------------------------------------------------------------------------
(* Players: player_run                                                     *)

PlayerGoes(p, from, to) == ppc[p] = from /\ ppc' = [ppc EXCEPT ![p] = to]
PlayerOnly == UNCHANGED <<frameVars, stateVars, masterVars, viewVars, envVars>>

FirstTurn(p) ==
  /\ PlayerGoes(p, "first_turn", "top")
  /\ TokenWait(p)
  /\ UNCHANGED <<lockVars, pipe, look>> /\ PlayerOnly

(* while (!was_interrupted())                                              *)
LeaveOnSignal(p) ==
  /\ p \in interrupted
  /\ PlayerGoes(p, "top", "exited")
  /\ UNCHANGED <<lockVars, turnVars, look>> /\ PlayerOnly

StartLooking(p) ==
  /\ p \notin interrupted
  /\ PlayerGoes(p, "top", "look")
  /\ Lock!ReaderCall(p)
  /\ UNCHANGED <<turnVars, look>> /\ PlayerOnly

EnterLock(p) ==
  /\ ppc[p] = "look"
  /\ Lock!ReaderEnter(p)
  /\ ppc' = [ppc EXCEPT ![p] = IF lpc'[p] = "reading" THEN "compute" ELSE "look"]
  /\ UNCHANGED <<turnVars, look>> /\ PlayerOnly

(* The master has given p its cell on the board.                           *)
Placed(p) == mpc # "place" \/ p < round.i

(* Mutant: the player computes its move after reader_exit.                 *)
LookAfterExit(p) ==
  /\ ppc[p] = "compute"
  /\ \/ /\ Lock!StopReading(p) \/ Lock!ReaderExit(p)
        /\ UNCHANGED playerVars
     \/ /\ lpc[p] = "idle" /\ PlayerGoes(p, "compute", "leave")
        /\ look' \in {[look EXCEPT ![p] = seen] : seen \in {"none", "fresh"}}
        /\ UNCHANGED lockVars
  /\ UNCHANGED turnVars /\ PlayerOnly

(* compute_next_move, under the reader lock: a free neighbour, or none.    *)
Look(p) ==
  /\ PlayerGoes(p, "compute", "leave")
  /\ Lock!StopReading(p)
  /\ \E seen \in {"none"} \union {IF Placed(p) THEN "fresh" ELSE "early"} :
       /\ seen # "none" => free > 0
       /\ look' = [look EXCEPT ![p] = seen]
  /\ UNCHANGED turnVars /\ PlayerOnly

LeaveLock(p) ==
  /\ ppc[p] = "leave"
  /\ Lock!ReaderExit(p)
  /\ UNCHANGED <<turnVars, playerVars>> /\ PlayerOnly

GiveUp(p) ==
  /\ lpc[p] = "idle" /\ look[p] = "none"
  /\ PlayerGoes(p, "leave", "exited")
  /\ UNCHANGED <<lockVars, turnVars, look>> /\ PlayerOnly

(* A player closes every read end it inherits, and the master its own; the *)
(* view, forked after create_pipes, keeps one of each until it exits.      *)
NobodyReads(p) == (is_blocked[p] \/ mpc \in PipesClosed) /\ vpc \in {"absent", "exited"}

Send(p) ==
  /\ lpc[p] = "idle" /\ look[p] # "none" /\ ~NobodyReads(p)
  /\ PlayerGoes(p, "leave", "next_turn")
  /\ pipe' = [pipe EXCEPT ![p] = @ + 1]
  /\ UNCHANGED <<lockVars, token, look>> /\ PlayerOnly

(* Writing to a pipe nobody reads: SIGPIPE, which no process handles.      *)
SendToNobody(p) ==
  /\ lpc[p] = "idle" /\ look[p] # "none" /\ NobodyReads(p)
  /\ PlayerGoes(p, "leave", "exited")
  /\ UNCHANGED <<lockVars, turnVars, look>> /\ PlayerOnly

NextTurn(p) ==
  /\ PlayerGoes(p, "next_turn", "check")
  /\ TokenWait(p)
  /\ UNCHANGED <<lockVars, pipe, look>> /\ PlayerOnly

(* Mutant: the player sends its first choice over and over.                *)
CheckEndedReusing(p) ==
  /\ PlayerGoes(p, "check", IF ended THEN "exited" ELSE "leave")
  /\ UNCHANGED <<lockVars, turnVars, look>> /\ PlayerOnly

CheckEnded(p) ==
  /\ PlayerGoes(p, "check", IF ended THEN "exited" ELSE "top")
  /\ UNCHANGED <<lockVars, turnVars, look>> /\ PlayerOnly

PlayerStep(p) ==
  \/ FirstTurn(p) \/ LeaveOnSignal(p) \/ StartLooking(p) \/ EnterLock(p) \/ Look(p)
  \/ LeaveLock(p) \/ GiveUp(p) \/ Send(p) \/ SendToNobody(p) \/ NextTurn(p) \/ CheckEnded(p)

-----------------------------------------------------------------------------
(* The view: view_run, then view_show_results                              *)

ViewOnly == UNCHANGED <<lockVars, turnVars, stateVars, playerVars, masterVars, envVars>>

WaitFrame ==
  /\ vpc = "wait" /\ vpc' = "frame"
  /\ SemWait(view_may_render)
  /\ UNCHANGED <<view_rendered, screen>> /\ ViewOnly

StartDrawing ==
  /\ vpc = "frame" /\ View \notin interrupted /\ ~ended
  /\ vpc' = "draw"
  /\ screen' = free
  /\ UNCHANGED frameVars /\ ViewOnly

FrameDone ==
  /\ vpc = "draw" /\ vpc' = "wait"
  /\ SemPost(view_rendered)
  /\ UNCHANGED <<view_may_render, screen>> /\ ViewOnly

LastFrame ==
  /\ vpc = "frame" /\ (View \in interrupted \/ ended)
  /\ vpc' = "results"
  /\ SemPost(view_rendered)
  /\ UNCHANGED <<view_may_render, screen>> /\ ViewOnly

(* view_show_results: an interrupted view does not show them.              *)
SkipResults ==
  /\ vpc = "results" /\ View \in interrupted
  /\ vpc' = "exited"
  /\ UNCHANGED <<frameVars, screen>> /\ ViewOnly

ShowResults ==
  /\ vpc = "results" /\ View \notin interrupted
  /\ vpc' = "shown"
  /\ screen' = free
  /\ UNCHANGED frameVars /\ ViewOnly

(* getch() blocks until somebody presses a key.                            *)
KeyPressed ==
  /\ vpc = "shown" /\ vpc' = "exited"
  /\ UNCHANGED <<frameVars, screen>> /\ ViewOnly

ViewStep == WaitFrame \/ StartDrawing \/ FrameDone \/ LastFrame \/ SkipResults \/ ShowResults

-----------------------------------------------------------------------------
(* The master before its loop: place_players_on_board, without the lock.   *)

MasterGoes(from, to) == mpc = from /\ mpc' = to
NextPlayer == [round EXCEPT !.i = @ + 1]

(* A player's start cell takes a reward off the board, unless an earlier   *)
(* player has marked it (two on one cell of a small board).                *)
PlacePlayer ==
  /\ mpc = "place"
  /\ IF round.i + 1 < PlayersCount
       THEN mpc' = mpc /\ round' = NextPlayer
       ELSE mpc' = "top" /\ round' = NoRound
  /\ free' \in (IF round.i = 0 /\ free > 0 THEN {free - 1} ELSE {free, free - 1} \intersect Nat)
  /\ look' = [p \in Players |-> IF look[p] = "fresh" THEN "raced" ELSE look[p]]
  /\ UNCHANGED <<lockVars, turnVars, frameVars, is_blocked, ended, ppc, has_view, viewVars, envVars>>

-----------------------------------------------------------------------------
(* The master's loop: master_run, process_round, handle_player_turn        *)

AllBlocked == \A p \in Present : is_blocked[p]

(* The loop condition and the two timeout checks that follow it.           *)
(* Mutants: the loop ignores the timeout; it ignores the signals.          *)
LoopTestNoTimeout ==
  /\ MasterGoes("top", IF Master \in interrupted \/ AllBlocked THEN "game_end" ELSE "select")
  /\ UNCHANGED <<lockVars, turnVars, frameVars, stateVars, playerVars, round, has_view, viewVars, envVars>>
LoopTestNoSignal ==
  /\ MasterGoes("top", IF AllBlocked \/ expired THEN "game_end" ELSE "select")
  /\ UNCHANGED <<lockVars, turnVars, frameVars, stateVars, playerVars, round, has_view, viewVars, envVars>>

LoopTest ==
  /\ MasterGoes("top", IF Master \in interrupted \/ AllBlocked \/ expired
                       THEN "game_end" ELSE "select")
  /\ UNCHANGED <<lockVars, turnVars, frameVars, stateVars, playerVars, round, has_view, viewVars, envVars>>

(* read() reports end of file when no process has the write end.  A player *)
(* has its own; the view, forked after create_pipes, has all of them.      *)
Eof(p) == ppc[p] = "exited" /\ vpc \in {"absent", "exited"}
(* Mutant: select() is given one descriptor too few.                       *)
ReadyTooFew == {p \in Present : p < PlayersCount - 1 /\ ~is_blocked[p] /\ (pipe[p] > 0 \/ Eof(p))}
Ready == {p \in Present : ~is_blocked[p] /\ (pipe[p] > 0 \/ Eof(p))}

(* select() waits at most a second; with nothing to read, or interrupted,  *)
(* the loop starts over.                                                   *)
Select ==
  /\ mpc = "select"
  /\ \/ /\ Ready = {}
        /\ mpc' = "top"
        /\ UNCHANGED round
     \/ /\ Ready # {}
        /\ mpc' = IF has_view THEN "view" ELSE "round"
        /\ round' = [round EXCEPT !.i = 0, !.last = round.start, !.fds = Ready, !.valid = FALSE]
  /\ UNCHANGED <<lockVars, turnVars, frameVars, stateVars, playerVars, has_view, viewVars, envVars>>

(* sync_view_frame: a view that has exited is given up, any other is sent  *)
(* a frame (waitpid and sem_post in one step: the view's exit commutes     *)
(* with the post).                                                         *)
SyncView ==
  /\ mpc = "view"
  /\ \/ /\ vpc = "exited"
        /\ has_view' = FALSE
        /\ mpc' = "round"
        /\ UNCHANGED frameVars
     \/ /\ vpc # "exited"
        /\ SemPost(view_may_render)
        /\ mpc' = "wait_view"
        /\ UNCHANGED <<view_rendered, has_view>>
  /\ UNCHANGED <<lockVars, turnVars, stateVars, playerVars, round, viewVars, envVars>>

(* Mutant: the master does not wait for the frame.                         *)
WaitViewDoneSkipped ==
  /\ MasterGoes("wait_view", "round")
  /\ UNCHANGED <<lockVars, turnVars, frameVars, stateVars, playerVars, round, has_view, viewVars, envVars>>

WaitViewDone ==
  /\ MasterGoes("wait_view", "round")
  /\ SemWait(view_rendered)
  /\ UNCHANGED <<lockVars, turnVars, view_may_render, stateVars, playerVars, round, has_view,
                 viewVars, envVars>>

Idx == (round.start + round.i) % PlayersCount
InRound == mpc = "round" /\ round.i < PlayersCount
(* Mutant: the set select() returned is not consulted.                     *)
ServedUnready == ~is_blocked[Idx]
Served == ~is_blocked[Idx] /\ Idx \in round.fds

(* Mutant: a turn is granted also to players that sent nothing.            *)
SkipPlayerGranting ==
  /\ InRound /\ ~Served
  /\ round' = NextPlayer
  /\ TokenPost(Idx)
  /\ UNCHANGED <<lockVars, pipe, frameVars, stateVars, playerVars, mpc, has_view, viewVars, envVars>>

SkipPlayer ==
  /\ InRound /\ ~Served
  /\ round' = NextPlayer
  /\ UNCHANGED <<lockVars, turnVars, frameVars, stateVars, playerVars, mpc, has_view, viewVars, envVars>>

(* recv_direction got a byte; game_sync_writer_enter is called.            *)
Recv ==
  /\ InRound /\ Served /\ pipe[Idx] > 0
  /\ pipe' = [pipe EXCEPT ![Idx] = @ - 1]
  /\ mpc' = "apply"
  /\ Lock!WriterCall(Master)
  /\ UNCHANGED <<token, frameVars, stateVars, playerVars, round, has_view, viewVars, envVars>>

(* recv_direction got end of file: disconnect_player, without the lock.    *)
(* Mutant: end of file is ignored.                                         *)
DisconnectForgotten ==
  /\ InRound /\ Served /\ pipe[Idx] = 0 /\ Eof(Idx)
  /\ round' = NextPlayer
  /\ UNCHANGED <<lockVars, turnVars, frameVars, stateVars, playerVars, mpc, has_view, viewVars, envVars>>

Disconnect ==
  /\ InRound /\ Served /\ pipe[Idx] = 0 /\ Eof(Idx)
  /\ is_blocked' = [is_blocked EXCEPT ![Idx] = TRUE]
  /\ round' = NextPlayer
  /\ UNCHANGED <<lockVars, turnVars, frameVars, ended, free, playerVars, mpc, has_view, viewVars, envVars>>

TakeLock ==
  /\ mpc = "apply"
  /\ Lock!WriterEnter(Master)
  /\ UNCHANGED <<turnVars, frameVars, stateVars, playerVars, masterVars, viewVars, envVars>>

(* Whether the cell chosen is still free: it is when nobody moved since.   *)
Verdicts(p) == IF look[p] = "fresh" THEN {TRUE} ELSE {FALSE} \union {free > 0}

(* process_player_move, under the writer lock.                             *)
ApplyMove ==
  /\ mpc = "apply"
  /\ Lock!StopWriting(Master)
  /\ \E valid \in Verdicts(Idx) :
       IF valid
         THEN /\ free' = free - 1
              /\ look' = [p \in Players |->
                            IF p = Idx THEN "moved"
                            ELSE IF look[p] = "fresh" THEN "raced" ELSE look[p]]
              /\ round' = [round EXCEPT !.valid = TRUE]
         ELSE /\ look' = [look EXCEPT ![Idx] = IF @ = "early" THEN "moved" ELSE @]
              /\ UNCHANGED <<free, round>>
  /\ UNCHANGED <<turnVars, frameVars, is_blocked, ended, ppc, mpc, has_view, viewVars, envVars>>

ReleaseLock ==
  /\ MasterGoes("apply", "grant")
  /\ Lock!WriterReturn(Master)
  /\ UNCHANGED <<turnVars, frameVars, stateVars, playerVars, round, has_view, viewVars, envVars>>

(* Mutant: no turn is granted after a move that was refused.               *)
GrantTurnIfValid ==
  /\ MasterGoes("grant", "round")
  /\ IF round.valid THEN TokenPost(Idx) ELSE UNCHANGED token
  /\ round' = [NextPlayer EXCEPT !.last = Idx]
  /\ UNCHANGED <<lockVars, pipe, frameVars, stateVars, playerVars, has_view, viewVars, envVars>>

GrantTurn ==
  /\ MasterGoes("grant", "round")
  /\ TokenPost(Idx)
  /\ round' = [NextPlayer EXCEPT !.last = Idx]
  /\ UNCHANGED <<lockVars, pipe, frameVars, stateVars, playerVars, has_view, viewVars, envVars>>

(* The round is over: whom to start with next, the timeout, the dead.      *)
(* Mutant: the next round's first player does not wrap around.             *)
EndRoundUnwrapped ==
  /\ mpc = "round" /\ round.i = PlayersCount
  /\ round' = [NoRound EXCEPT !.start = round.last + 1]
  /\ expired' = (expired /\ ~round.valid)
  /\ mpc' = IF AllBlocked THEN "game_end" ELSE "top"
  /\ UNCHANGED <<lockVars, turnVars, frameVars, stateVars, playerVars, has_view, viewVars, game, interrupted>>

EndRound ==
  /\ mpc = "round" /\ round.i = PlayersCount
  /\ round' = [NoRound EXCEPT !.start = (round.last + 1) % PlayersCount]
  /\ expired' = (expired /\ ~round.valid)
  /\ mpc' = IF AllBlocked THEN "game_end" ELSE "top"
  /\ UNCHANGED <<lockVars, turnVars, frameVars, stateVars, playerVars, has_view, viewVars, game, interrupted>>

-----------------------------------------------------------------------------
(* The master's shutdown: main after master_run, game_end                  *)

GameEnd ==
  /\ MasterGoes("game_end", "post_turns")
  /\ ended' = TRUE
  /\ round' = NoRound
  /\ UNCHANGED <<lockVars, turnVars, frameVars, is_blocked, free, playerVars, has_view, viewVars, envVars>>

PostTurn ==
  /\ mpc = "post_turns" /\ round.i < PlayersCount
  /\ TokenPost(round.i)
  /\ round' = NextPlayer
  /\ UNCHANGED <<lockVars, pipe, frameVars, stateVars, playerVars, mpc, has_view, viewVars, envVars>>

(* Mutant: the view is not told of the end.                                *)
NotifyEndForgotten ==
  /\ round.i = PlayersCount
  /\ MasterGoes("post_turns", "close_pipes")
  /\ UNCHANGED <<lockVars, turnVars, frameVars, stateVars, playerVars, round, has_view, viewVars, envVars>>

NotifyEnd ==
  /\ round.i = PlayersCount
  /\ MasterGoes("post_turns", "close_pipes")
  /\ IF has_view THEN SemPost(view_may_render) ELSE UNCHANGED view_may_render
  /\ UNCHANGED <<lockVars, turnVars, view_rendered, stateVars, playerVars, round, has_view,
                 viewVars, envVars>>

ClosePipes ==
  /\ MasterGoes("close_pipes", "wait_players")
  /\ UNCHANGED <<lockVars, turnVars, frameVars, stateVars, playerVars, round, has_view, viewVars, envVars>>

WaitPlayers ==
  /\ MasterGoes("wait_players", "wait_view_exit")
  /\ \A p \in Present : ppc[p] = "exited"
  /\ UNCHANGED <<lockVars, turnVars, frameVars, stateVars, playerVars, round, has_view, viewVars, envVars>>

WaitViewExit ==
  /\ MasterGoes("wait_view_exit", "done")
  /\ has_view => vpc = "exited"
  /\ UNCHANGED <<lockVars, turnVars, frameVars, stateVars, playerVars, round, has_view, viewVars, envVars>>

MasterStep ==
  \/ PlacePlayer \/ LoopTest \/ Select \/ SyncView \/ WaitViewDone
  \/ SkipPlayer \/ Recv \/ Disconnect \/ TakeLock \/ ApplyMove \/ ReleaseLock \/ GrantTurn \/ EndRound
  \/ GameEnd \/ PostTurn \/ NotifyEnd \/ ClosePipes \/ WaitPlayers \/ WaitViewExit

-----------------------------------------------------------------------------
(* The environment                                                         *)

TimePasses ==
  /\ ~expired /\ mpc \notin AfterLoop \union {"place"}
  /\ expired' = TRUE
  /\ UNCHANGED <<lockVars, turnVars, frameVars, stateVars, playerVars, masterVars, viewVars, game, interrupted>>

(* SIGINT or SIGTERM reaches one process; Ctrl-C reaches all of them, one  *)
(* at a time.  (Before master_run has set its handlers a signal kills the  *)
(* master: module Launch.)                                                 *)
Signal(q) ==
  /\ q \notin interrupted
  /\ q = Master => mpc \notin AfterLoop \union {"place"}
  /\ interrupted' = interrupted \union {q}
  /\ UNCHANGED <<lockVars, turnVars, frameVars, stateVars, playerVars, masterVars, viewVars, game, expired>>

(* A player is killed, and releases nothing it holds.                      *)
KillPlayer(p) ==
  /\ ppc[p] # "exited"
  /\ ppc' = [ppc EXCEPT ![p] = "exited"]
  /\ UNCHANGED <<lockVars, turnVars, frameVars, stateVars, look, masterVars, viewVars, envVars>>

(* The view cannot be executed, fails or is killed.                        *)
KillView ==
  /\ vpc \notin {"absent", "exited"}
  /\ vpc' = "exited"
  /\ UNCHANGED <<screen, lockVars, turnVars, frameVars, stateVars, playerVars, masterVars, envVars>>

Environment ==
  \/ TimePasses
  \/ KeyPressed
  \/ \E q \in game.signalled : Signal(q)
  \/ \E p \in game.killable \ {View} : KillPlayer(p)
  \/ View \in game.killable /\ KillView

(* The program has ended, or may be stuck: a process that is killed keeps   *)
(* what it held.                                                           *)
Done == (mpc = "done" \/ game.killable # {}) /\ UNCHANGED vars

Next == MasterStep \/ ViewStep \/ (\E p \in Players : PlayerStep(p)) \/ Environment \/ Done

Spec == Init /\ [][Next]_vars

(* Every process keeps running, and a semaphore that stays available is    *)
(* obtained.  Nothing is assumed of the timeout, nor of whoever sits at    *)
(* the terminal.                                                           *)
FairProcesses ==
  /\ WF_vars(MasterStep)
  /\ WF_vars(ViewStep)
  /\ \A p \in Players : WF_vars(PlayerStep(p))

FairSpec == Spec /\ FairProcesses

(* Besides, somebody presses the key that the view's last screen waits     *)
(* for.                                                                    *)
AttendedSpec == FairSpec /\ WF_vars(KeyPressed)
-----------------------------------------------------------------------------
TypeOK ==
  /\ Lock!TypeOK
  /\ token \in [Players -> 0 .. 2] /\ pipe \in [Players -> 0 .. 1]
  /\ view_may_render \in 0 .. 2 /\ view_rendered \in 0 .. 1
  /\ is_blocked \in [Players -> BOOLEAN] /\ ended \in BOOLEAN /\ free \in 0 .. game.cells
  /\ ppc \in [Players -> PlayerPC] /\ look \in [Players -> LookKinds]
  /\ mpc \in MasterPC /\ vpc \in ViewPC /\ has_view \in BOOLEAN
  /\ round \in [start : Present, i : 0 .. PlayersCount, last : Present,
                fds : SUBSET Present, valid : BOOLEAN]
  /\ screen \in 0 .. NoFrame /\ game \in Games
  /\ expired \in BOOLEAN /\ interrupted \subseteq Players \union {Master, View}

(* What is left of p's turn: the token nobody took yet, the player between *)
(* its token and its move, the move in the pipe, the move in the master's  *)
(* hands until the next token is posted.                                   *)
B(cond) == IF cond THEN 1 ELSE 0
TurnsOf(p) ==
  token[p] + pipe[p] + B(ppc[p] \in {"top", "look", "compute", "leave", "check"})
    + B(mpc \in {"apply", "grant"} /\ Idx = p)
EndPosted(p) ==
  \/ mpc = "post_turns" /\ p < round.i
  \/ mpc \in AfterLoop \ {"game_end", "post_turns"}

(* A player that is still there has exactly one turn, wherever it is, and  *)
(* the one that game_end posts besides: no move is sent without a turn, no *)
(* turn is lost or granted twice, and game_end never leaves a player       *)
(* without the token that lets it see the end.                             *)
TurnConservation ==
  \A p \in Players : ppc[p] # "exited" => TurnsOf(p) = 1 + B(EndPosted(p))

(* The move the master applies was chosen around the position the player   *)
(* still has.  The player sends a direction, not a cell, so a move from an *)
(* older position would be carried out on the wrong cell.  A player's      *)
(* first move alone may have been chosen before it was placed.             *)
MoveFromCurrentPosition ==
  \A p \in Players :
    \/ pipe[p] > 0
    \/ mpc = "apply" /\ Idx = p /\ lpc[Master] # "release"
    => look[p] \in {"fresh", "raced", "early"}

(* The read() of recv_direction never blocks the master, although the set  *)
(* of readable pipes was computed before the view drew a frame and the     *)
(* other players of the round were served.                                 *)
RecvNeverBlocks == InRound /\ Served => pipe[Idx] > 0 \/ Eof(Idx)

(* The view reads the shared state without the lock; the handshake alone   *)
(* keeps the master from changing it meanwhile.                            *)
ViewUndisturbed ==
  [][(vpc \in {"draw", "shown"}) => UNCHANGED stateVars]_vars

(* The frame is drawn before the round is applied: the screen is behind by *)
(* the moves of the round being served and by no others, so that no player *)
(* ever moves on a board whose last round nobody saw.                      *)
ScreenOneRoundBehind ==
  has_view /\ vpc = "wait" /\ mpc \in {"round", "apply", "grant"} =>
    screen - free \in 0 .. round.i + B(mpc # "round")

(* The board a player computes its move on does not change under it, once  *)
(* the players are placed: whatever reader_enter does, no move is applied  *)
(* between its return and the call of reader_exit.                         *)
BoardUndisturbed ==
  [][mpc # "place" /\ (\E p \in Players : ppc[p] = "compute") => UNCHANGED free]_vars

(* "The loop exits on signal, timeout, or when all players die": the death *)
(* of the players ends the loop without the help of the other two.         *)
LoopEndsWithPlayers ==
  (\A p \in Players : ppc[p] = "exited") ~> (mpc \in AfterLoop)

(* A move sent is read, unless the game ends first.                        *)
MovesAreRead ==
  \A p \in Players : (pipe[p] > 0) ~> (pipe[p] = 0 \/ mpc \in AfterLoop)

(* The master enforces the timeout: once it has run out and no move resets *)
(* it, the loop ends.                                                      *)
TimeoutEndsLoop == []<>(~expired \/ mpc \in AfterLoop)

(* A signal to the master ends the loop.                                   *)
SignalEndsLoop == (Master \in interrupted) ~> (mpc \in AfterLoop)

(* has_view is "set to false if the view process exits prematurely".       *)
LostViewNoticed == (vpc = "exited") ~> (~has_view \/ mpc \in AfterLoop)

(* Once the game is over nobody is left waiting: the players see ended and *)
(* exit, the view shows the results, and the master reaps them all.        *)
EveryoneExits == (mpc = "game_end") ~> (mpc = "done")

(* A game without a view ends by itself, without the timeout: the moves    *)
(* run out and the players leave one by one.                               *)
Terminates == ~game.view ~> (mpc = "done")
=============================================================================
