------------------------------- MODULE Launch -------------------------------
(***************************************************************************)
(* One launch of the master after another: main() from the command line to *)
(* the exit, the shared memory it creates, fills and unlinks (game.c,      *)
(* shmemory_utils.c), the fork of the players (pipes.c), their             *)
(* registration and placement, and the players from execve to the first    *)
(* turns (player/main.c, player_loop.c).  A master may die at any step,    *)
(* leaving the names of its segments and its players behind for the next.  *)
(*                                                                         *)
(* Launches do not overlap and pids are not reused.  There is no view.     *)
(* The round is one step here, and a player's look at the board, under the *)
(* lock, another: module GameLoop has their detail.                        *)
(***************************************************************************)
EXTENDS Parser, FiniteSets, FiniteSetsExt

CONSTANTS IntLimit,       \* 2^31, one more than INT_MAX
          CommandLines,   \* what masters are started with, sequences of options
          MaxLaunches,    \* bound: masters started
          MaxLooks        \* bound: times a player looks at the board

ASSUME LaunchAssumption ==
  /\ CommandLines \subseteq Seq(Options)
  /\ IntLimit \in Nat /\ MaxLaunches \in Nat \ {0} /\ MaxLooks \in Nat \ {0}

Launches == 1 .. MaxLaunches
Slots == 0 .. MAX_PLAYERS - 1
Kids == Launches \X Slots      \* a player process, and its pid: launch and place
NoPid == <<0, 0>>

VARIABLES
  launch, mpc, i, line, params,   \* the master: how many started, what it runs
  names,        \* name of a segment -> the object it names, 0 if none
  mapped,       \* name of a segment -> the object the master mapped, 0 if NULL
  state,        \* contents of the state objects
  turns,        \* player_may_send_movement of the sync objects
  pipe,         \* unread bytes of each player's pipe
  kid,          \* the player processes
  haunted       \* history: players of an earlier master lived on into this game

masterVars == <<launch, mpc, i, line, params, mapped, haunted>>
vars == <<masterVars, names, state, turns, pipe, kid>>

Segments == {"state", "sync"}
MasterPC ==
  {"parse", "open_state", "open_sync", "init_sync", "init_state", "fork", "store", "clear", "register", "place",
   "loop", "close", "reap", "unlink_state", "unlink_sync", "ended", "refused", "died"}
Gone == {"ended", "refused", "died"}
Playing == {"loop", "close"}
KidPC == {"none", "exec", "attach", "find", "first_turn", "look", "send", "next_turn", "check",
          "exited"}

FreshState ==
  [width |-> 0, height |-> 0, players_count |-> 0, ended |-> FALSE, placed |-> FALSE,
   player_id |-> [p \in Slots |-> NoPid], is_blocked |-> [p \in Slots |-> FALSE]]
NoKid == [pc |-> "none", text |-> Defaults.text, state |-> 0, sync |-> 0, idx |-> 0,
          looks |-> 0, early |-> FALSE]
Exited == [NoKid EXCEPT !.pc = "exited"]

(* An object is numbered after the launch that would create it.            *)
Init ==
  /\ launch = 0 /\ mpc = "ended" /\ i = 0 /\ line = <<>> /\ params = Defaults
  /\ names = [s \in Segments |-> 0] /\ mapped = [s \in Segments |-> 0]
  /\ state = [o \in Launches |-> FreshState]
  /\ turns = [o \in Launches |-> [p \in Slots |-> 0]]
  /\ pipe = [k \in Kids |-> 0]
  /\ kid = [k \in Kids |-> NoKid] /\ haunted = FALSE

Width == params.value["w"] % UShort
Height == params.value["h"] % UShort
(* The size of the board is an int product of two uint16_t.                *)
SizeOverflows == Width * Height >= IntLimit
Present == 0 .. params.players - 1
Own == state[mapped["state"]]

(* The players of earlier masters that are still there.                    *)
Orphans == {k \in Kids : k[1] # launch /\ kid[k].pc \notin {"none", "exited"}}

-----------------------------------------------------------------------------
(* The master: main                                                        *)

Goes(from, to) == mpc = from /\ mpc' = to

StartMaster(l) ==
  /\ mpc \in Gone /\ launch < MaxLaunches
  /\ launch' = launch + 1 /\ line' = l /\ params' = Defaults
  /\ mpc' = "parse" /\ i' = 0
  /\ mapped' = [s \in Segments |-> 0] /\ haunted' = FALSE
  /\ UNCHANGED <<names, state, turns, pipe, kid>>

(* parse: the first error stops the loop over getopt.                      *)
ParseOption ==
  /\ mpc = "parse" /\ params.status = {} /\ i < Len(line)
  /\ params' = ParseArgument(params, line[i + 1]) /\ i' = i + 1
  /\ UNCHANGED <<launch, mpc, line, mapped, haunted, names, state, turns, pipe, kid>>

EndParse ==
  /\ mpc = "parse" /\ (params.status # {} \/ i = Len(line))
  /\ mpc' = IF Accepted(params) THEN "open_state" ELSE "refused"
  /\ i' = 0
  /\ UNCHANGED <<launch, line, params, mapped, haunted, names, state, turns, pipe, kid>>

(* _create_shm: O_CREAT without O_EXCL takes an object that is there, as   *)
(* it is.                                                                  *)
Open(segment, fails) ==
  /\ names' = [names EXCEPT ![segment] = IF @ = 0 THEN launch ELSE @]
  /\ mapped' = [mapped EXCEPT ![segment] = IF fails THEN 0 ELSE names'[segment]]

(* A size that overflows is negative for ftruncate, and the map is NULL.   *)
OpenState ==
  /\ Goes("open_state", "open_sync")
  /\ Open("state", SizeOverflows)
  /\ line' = <<>>
  /\ UNCHANGED <<launch, i, params, haunted, state, turns, pipe, kid>>

OpenSync ==
  /\ Goes("open_sync", "init_sync")
  /\ Open("sync", FALSE)
  /\ UNCHANGED <<launch, i, line, params, haunted, state, turns, pipe, kid>>

(* Mutants: the semaphores of a reused segment are left as they are; a     *)
(* player starts with a turn to spare.                                     *)
InitSyncTwo ==
  /\ Goes("init_sync", "init_state")
  /\ turns' = [turns EXCEPT ![mapped["sync"]] = [p \in Slots |-> 2]]
  /\ haunted' = (Orphans # {})
  /\ UNCHANGED <<launch, i, line, params, mapped, names, state, pipe, kid>>

InitSyncOnce ==
  /\ Goes("init_sync", "init_state")
  /\ turns' = [turns EXCEPT ![mapped["sync"]] = IF mapped["sync"] = launch THEN [p \in Slots |-> 1] ELSE @]
  /\ haunted' = (Orphans # {})
  /\ UNCHANGED <<launch, i, line, params, mapped, names, state, pipe, kid>>

InitSync ==
  /\ Goes("init_sync", "init_state")
  /\ turns' = [turns EXCEPT ![mapped["sync"]] = [p \in Slots |-> 1]]
  /\ haunted' = (Orphans # {})
  /\ UNCHANGED <<launch, i, line, params, mapped, names, state, pipe, kid>>

(* board_init: players[] keeps what an earlier game left in it.            *)
InitState ==
  /\ Goes("init_state", "fork")
  /\ mapped["state"] # 0
  /\ state' = [state EXCEPT ![mapped["state"]] =
                 [@ EXCEPT !.width = Width, !.height = Height, !.players_count = params.players,
                           !.ended = FALSE, !.placed = FALSE]]
  /\ UNCHANGED <<launch, i, line, params, haunted, mapped, names, turns, pipe, kid>>

(* game_state_init on a map that failed.                                   *)
Segfault ==
  /\ Goes("init_state", "died")
  /\ mapped["state"] = 0
  /\ UNCHANGED <<launch, i, line, params, haunted, mapped, names, state, turns, pipe, kid>>

(* fork_players: the child runs before or after its pid is stored.         *)
Fork ==
  /\ Goes("fork", "store")
  /\ kid' = [kid EXCEPT ![<<launch, i>>] = [NoKid EXCEPT !.pc = "exec", !.text = params.text]]
  /\ UNCHANGED <<launch, i, line, params, haunted, mapped, names, state, turns, pipe>>

SetPlayerId(pid) == state' = [state EXCEPT ![mapped["state"]].player_id[i] = pid]

(* Mutant: the next loop over the players starts where this one ended.     *)
StorePidOnward ==
  /\ mpc = "store" /\ mpc' = IF i + 1 = params.players THEN "clear" ELSE "fork"
  /\ i' = i + 1
  /\ SetPlayerId(<<launch, i>>)
  /\ UNCHANGED <<launch, line, params, haunted, mapped, names, turns, pipe, kid>>

StorePid ==
  /\ IF i + 1 = params.players THEN Goes("store", "clear") /\ i' = 0
                               ELSE Goes("store", "fork") /\ i' = i + 1
  /\ SetPlayerId(<<launch, i>>)
  /\ UNCHANGED <<launch, line, params, haunted, mapped, names, turns, pipe, kid>>

(* game_register_player: the structure is assigned as a whole, and the     *)
(* build zeroes it before it writes the pid back.                          *)
(* Mutant: is_blocked is not among the fields.                             *)
ClearKeepingBlocked ==
  /\ Goes("clear", "register")
  /\ SetPlayerId(NoPid)
  /\ UNCHANGED <<launch, i, line, params, haunted, mapped, names, turns, pipe, kid>>

Clear ==
  /\ Goes("clear", "register")
  /\ state' = [state EXCEPT ![mapped["state"]] =
                 [@ EXCEPT !.player_id[i] = NoPid, !.is_blocked[i] = FALSE]]
  /\ UNCHANGED <<launch, i, line, params, haunted, mapped, names, turns, pipe, kid>>

Register ==
  /\ IF i + 1 = params.players THEN Goes("register", "place") /\ i' = 0
                               ELSE Goes("register", "clear") /\ i' = i + 1
  /\ SetPlayerId(<<launch, i>>)
  /\ UNCHANGED <<launch, line, params, haunted, mapped, names, turns, pipe, kid>>

Place ==
  /\ Goes("place", "loop")
  /\ state' = [state EXCEPT ![mapped["state"]].placed = TRUE]
  /\ UNCHANGED <<launch, i, line, params, haunted, mapped, names, turns, pipe, kid>>

(* handle_player_turn: a move is read and the next turn granted, or the    *)
(* pipe has ended.                                                         *)
Grant(ps) ==
  turns' = [turns EXCEPT ![mapped["sync"]] = [p \in Slots |-> @[p] + IF p \in ps THEN 1 ELSE 0]]

Serve(p) ==
  /\ mpc = "loop" /\ ~Own.is_blocked[p] /\ pipe[<<launch, p>>] > 0
  /\ pipe' = [pipe EXCEPT ![<<launch, p>>] = @ - 1]
  /\ Grant({p})
  /\ UNCHANGED <<masterVars, names, state, kid>>

Disconnect(p) ==
  /\ mpc = "loop" /\ ~Own.is_blocked[p]
  /\ pipe[<<launch, p>>] = 0 /\ kid[<<launch, p>>].pc = "exited"
  /\ state' = [state EXCEPT ![mapped["state"]].is_blocked[p] = TRUE]
  /\ UNCHANGED <<masterVars, names, turns, pipe, kid>>

(* The loop ends (timeout, signal or all players blocked), and game_end.   *)
GameEnd ==
  /\ Goes("loop", "close")
  /\ state' = [state EXCEPT ![mapped["state"]].ended = TRUE]
  /\ Grant(Present)
  /\ UNCHANGED <<launch, i, line, params, haunted, mapped, names, pipe, kid>>

ClosePipes ==
  /\ Goes("close", "reap")
  /\ UNCHANGED <<launch, i, line, params, haunted, mapped, names, state, turns, pipe, kid>>

Reap ==
  /\ Goes("reap", "unlink_state")
  /\ \A p \in Present : kid[<<launch, p>>].pc = "exited"
  /\ UNCHANGED <<launch, i, line, params, haunted, mapped, names, state, turns, pipe, kid>>

(* Mutant: game_disconnect unlinks the state only.                         *)
UnlinkSyncForgotten ==
  /\ Goes("unlink_sync", "ended")
  /\ UNCHANGED <<launch, i, line, params, haunted, mapped, names, state, turns, pipe, kid>>

UnlinkState ==
  /\ Goes("unlink_state", "unlink_sync")
  /\ names' = [names EXCEPT !["state"] = 0]
  /\ UNCHANGED <<launch, i, line, params, haunted, mapped, state, turns, pipe, kid>>

UnlinkSync ==
  /\ Goes("unlink_sync", "ended")
  /\ names' = [names EXCEPT !["sync"] = 0]
  /\ pipe' = [k \in Kids |-> 0]
  /\ UNCHANGED <<launch, i, line, params, haunted, mapped, state, turns, kid>>

MasterStep ==
  \/ ParseOption \/ EndParse
  \/ OpenState \/ OpenSync \/ InitSync \/ InitState \/ Segfault
  \/ Fork \/ StorePid \/ Clear \/ Register \/ Place
  \/ (\E p \in Present : Serve(p) \/ Disconnect(p))
  \/ GameEnd \/ ClosePipes \/ Reap \/ UnlinkState \/ UnlinkSync

(* The master is killed, fails to create a pipe or a process, or gets      *)
(* SIGINT before master_run installs its handler: the names stay.          *)
Die ==
  /\ mpc \notin Gone /\ mpc' = "died"
  /\ i' = 0 /\ params' = Defaults /\ line' = <<>> /\ haunted' = FALSE
  /\ mapped' = [s \in Segments |-> 0]
  /\ pipe' = [k \in Kids |-> 0]
  /\ UNCHANGED <<launch, names, state, turns, kid>>

-----------------------------------------------------------------------------
(* The players: main and player_run                                        *)

KidGoes(k, from, to) == kid[k].pc = from /\ kid' = [kid EXCEPT ![k].pc = to]
KidExits(k, from) == kid[k].pc = from /\ kid' = [kid EXCEPT ![k] = Exited]
KidOnly == UNCHANGED <<masterVars, names, state, turns, pipe>>

(* parse_board_args, then the segments are opened; a player that lacks one *)
(* dies where it first uses it.                                            *)
AttachState(k) ==
  /\ names["state"] # 0 /\ ParseBoardArgsOk(kid[k].text)
  /\ kid[k].pc = "exec"
  /\ kid' = [kid EXCEPT ![k].pc = "attach", ![k].state = names["state"]]
  /\ KidOnly

AttachSync(k) ==
  /\ names["sync"] # 0
  /\ kid[k].pc = "attach"
  /\ kid' = [kid EXCEPT ![k].pc = "find", ![k].sync = names["sync"]]
  /\ KidOnly

CannotAttach(k) ==
  /\ \/ KidExits(k, "exec") /\ (names["state"] = 0 \/ ~ParseBoardArgsOk(kid[k].text))
     \/ KidExits(k, "attach") /\ names["sync"] = 0
  /\ KidOnly

(* Mutant: any place that is taken will do.                                *)
FoundTaken(k) ==
  LET seen == state[kid[k].state]
  IN  {p \in Slots : p < seen.players_count /\ seen.player_id[p] # NoPid}

(* find_player_index                                                       *)
Found(k) ==
  LET seen == state[kid[k].state]
  IN  {p \in Slots : p < seen.players_count /\ seen.player_id[p] = k}

FindPlayerIndex(k) ==
  /\ kid[k].pc = "find" /\ Found(k) # {}
  /\ kid' = [kid EXCEPT ![k].pc = "first_turn", ![k].idx = Min(Found(k))]
  /\ KidOnly

NotFound(k) == KidExits(k, "find") /\ Found(k) = {} /\ KidOnly

WaitTurn(k, from, to) ==
  /\ KidGoes(k, from, to)
  /\ turns[kid[k].sync][kid[k].idx] > 0
  /\ turns' = [turns EXCEPT ![kid[k].sync][kid[k].idx] = @ - 1]
  /\ UNCHANGED <<masterVars, names, state, pipe>>

FirstTurn(k) == WaitTurn(k, "first_turn", "look")

Look(k) ==
  /\ kid[k].pc = "look" /\ kid[k].looks < MaxLooks
  /\ kid' = [kid EXCEPT ![k].pc = "send", ![k].looks = @ + 1,
                        ![k].early = ~state[kid[k].state].placed]
  /\ KidOnly

(* No move is left, or the player was interrupted.                         *)
GiveUp(k) == KidExits(k, "look") /\ KidOnly

(* The master of k's launch still reads its pipe.                          *)
Reads(k) == k[1] = launch /\ mpc \in Playing /\ ~Own.is_blocked[k[2]]
PipeOpen(k) == k[1] = launch /\ mpc \notin Gone \union {"reap"} /\ (mpc \in Playing => Reads(k))

Send(k) ==
  /\ PipeOpen(k) /\ KidGoes(k, "send", "next_turn")
  /\ pipe' = [pipe EXCEPT ![k] = @ + 1]
  /\ UNCHANGED <<masterVars, names, state, turns>>

(* SIGPIPE                                                                 *)
SendToNobody(k) == ~PipeOpen(k) /\ KidExits(k, "send") /\ KidOnly

NextTurn(k) == WaitTurn(k, "next_turn", "check")

CheckEnded(k) ==
  /\ kid[k].pc = "check"
  /\ IF state[kid[k].state].ended THEN KidExits(k, "check") ELSE KidGoes(k, "check", "look")
  /\ KidOnly

KidStep(k) ==
  \/ AttachState(k) \/ AttachSync(k) \/ CannotAttach(k) \/ FindPlayerIndex(k) \/ NotFound(k)
  \/ FirstTurn(k) \/ Look(k)
  \/ GiveUp(k) \/ Send(k) \/ SendToNobody(k) \/ NextTurn(k) \/ CheckEnded(k)

(* A player is killed, or its program cannot be executed.                  *)
KidDies(k) ==
  /\ kid[k].pc \notin {"none", "exited"}
  /\ kid' = [kid EXCEPT ![k] = Exited]
  /\ KidOnly

Next ==
  \/ \E l \in CommandLines : StartMaster(l)
  \/ MasterStep
  \/ Die
  \/ \E k \in Kids : KidStep(k) \/ KidDies(k)

Spec == Init /\ [][Next]_vars

-----------------------------------------------------------------------------
TypeOK ==
  /\ launch \in 0 .. MaxLaunches /\ mpc \in MasterPC
  /\ IF mpc = "parse" THEN i \in 0 .. Len(line) ELSE i \in Slots
  /\ names \in [Segments -> 0 .. launch] /\ mapped \in [Segments -> 0 .. launch]
  /\ \A o \in Launches :
       /\ state[o].width \in 0 .. UShort - 1 /\ state[o].height \in 0 .. UShort - 1
       /\ state[o].players_count \in 0 .. MAX_PLAYERS
       /\ state[o].player_id \in [Slots -> Kids \union {NoPid}]
       /\ state[o].is_blocked \in [Slots -> BOOLEAN]
  /\ turns \in [Launches -> [Slots -> 0 .. 2]]
  /\ pipe \in [Kids -> 0 .. 1]
  /\ \A k \in Kids : kid[k].pc \in KidPC /\ kid[k].idx \in Slots /\ kid[k].looks \in 0 .. MaxLooks

(* What the command line asked for, read off the options as a whole: the   *)
(* last value of each, and the text the children get is that of the number *)
(* the master uses.                                                        *)
ParsedAsGiven ==
  LET Of(f)    == {n \in DOMAIN line : line[n].flag = f}
      Good(n)  == \/ line[n].flag \in {"p", "v"}
                  \/ /\ line[n].flag \in NumberFlags
                     /\ ~line[n].text.junk /\ InUnsignedRange(line[n].text)
      LastText(f) == line[Max(Of(f))].text
      asked    == Cardinality(Of("p"))
  IN  mpc \in {"open_state", "refused"} =>
        /\ (mpc = "open_state") <=> (\A n \in DOMAIN line : Good(n)) /\ asked \in 1 .. MAX_PLAYERS
        /\ mpc = "open_state" =>
             /\ params.players = asked
             /\ \A f \in NumberFlags : Of(f) # {} =>
                  \E n \in -1 .. 1 : params.value[f] = LastText(f).number + n * ULong
             /\ \A f \in {"w", "h"} : Of(f) # {} => params.text[f] = LastText(f)

Running == mpc \notin Gone
Attached(k) == kid[k].pc \notin {"none", "exec", "attach", "exited"}
OwnKids == {k \in Kids : k[1] = launch /\ Running}

(* A player that has found itself plays for itself, in its own game, and   *)
(* its board has the size it was told.                                     *)
OwnPlace ==
  \A k \in OwnKids : Attached(k) =>
    /\ kid[k].state = mapped["state"] /\ kid[k].sync = mapped["sync"]
    /\ kid[k].pc # "find" => kid[k].idx = k[2]
    /\ Own.width = ParseUint16(kid[k].text["w"]) /\ Own.height = ParseUint16(kid[k].text["h"])

(* The players run while the master still registers and places them, but   *)
(* only the first look of each can be at a board that is not ready.        *)
OnlyFirstLookEarly ==
  \A k \in OwnKids : kid[k].pc = "send" /\ kid[k].early => kid[k].looks = 1

(* When the loop starts, the segments that players can attach to are the   *)
(* master's and hold a new game, whatever an earlier master that died has  *)
(* left in them.                                                           *)
FreshGame ==
  mpc = "loop" =>
    /\ names = mapped /\ 0 \notin Range(names)
    /\ Own.placed /\ ~Own.ended /\ Own.players_count = params.players
    /\ \A p \in Present :
         /\ Own.player_id[p] = <<launch, p>>
         /\ Own.is_blocked[p] => kid[<<launch, p>>].pc = "exited"

(* Every player has exactly one turn from its first to game_end, and two   *)
(* from then on, as if no game had been there before; when players of a    *)
(* master that died live on they may take turns away but never add any.    *)
TurnsSurviveRestart ==
  mpc \in {"fork", "store", "clear", "register", "place", "loop", "close", "reap"} =>
    \A p \in Present :
      LET k       == <<launch, p>>
          granted == IF mpc \in {"close", "reap"} THEN 2 ELSE 1
          left    == turns[mapped["sync"]][p] + pipe[k]
                       + (IF kid[k].pc \in {"look", "send", "check"} THEN 1 ELSE 0)
      IN  kid[k].pc # "exited" => left <= granted /\ (~haunted => left = granted)

(* A master that ends its game leaves no player of its own and no segment  *)
(* behind, also when it took the segments over from one that died.         *)
LeavesNothing ==
  mpc = "ended" /\ launch > 0 =>
    names = [s \in Segments |-> 0] /\ \A k \in Kids : k[1] = launch => kid[k].pc \in {"none", "exited"}

(* "Locates this process's index in the game state by PID, then enters the *)
(* wait-compute-send cycle": player_loop.h says nothing of not finding it. *)
EveryPlayerFindsItself ==
  \A k \in OwnKids : kid[k].pc = "find" => Found(k) # {}
=============================================================================
