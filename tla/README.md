# ChompChamps in TLA+

Specifications, model-checking runs and proofs for the ChompChamps master,
players and view. Paths are relative to the repository root (`src/`).

## The system

The **master** (`master/main.c`) creates two POSIX shared-memory segments
(`/game_state` with the board and the players, `/game_sync` with every
semaphore), one pipe per player, and forks an optional **view** and one to nine
**players**. Players write one-byte directions to their pipe; the master reads
them in a `select()` loop, applies them to the board and grants the player its
next turn. There are no threads and no messages other than those bytes:
everything else is shared memory and semaphores.

| Component | State | Operations | What makes it correct |
|---|---|---|---|
| Readers-writer lock, `common/src/game_sync.c` | `master_writing` (turnstile), `gamestate_mutex`, `readers_count_mutex`, `readers_count` | `reader_enter/exit`, `writer_enter/exit` | exclusion, no semaphore lost, exact count, the writer goes first and is not starved |
| Turns, `game_sync.c`, `game.c` | `player_may_send_movement[i]` | `wait_turn`, `grant_turn`, `game_end` | each live player has exactly one turn |
| View handshake, `game_sync.c`, `view/src/view.c` | `view_may_render`, `view_rendered` | `view_cycle`, `wait_frame`, `frame_done`, final `notify_view` | one frame per request; nothing written while the view draws |
| Master loop, `master/src/master_loop.c`, `game_admin.c` | readable set, round position, last valid move, `has_view` | `master_run`, `process_round`, `handle_player_turn`, `disconnect_player` | reads never block, everyone is served, the loop ends when it should |
| Shutdown, `master/main.c` | `ended` | `game_end`, notify, close pipes, `waitpid` | everyone exits and is reaped |
| Rules, `game_admin.c` | board, positions, scores, counters | init, register, place, `process_player_move` | nothing off the board, cells taken once, scores match cells |
| Player, `player/src/player_loop.c` | its index, its choice | `player_run` | the move sent fits the position it is applied to |
| Strategies, `player/src/player_movement.c` | none | `compute_next_move` (six, chosen when compiling) | a free neighbour whenever there is one; the flood ends, inside its stack |
| Launch, `main.c`, `pipes.c` | parameters, `player_id`s, the children | parse, create, fork, register, place, run, reap, unlink | a player finds its own place in a new game; nothing is left behind |
| Shared memory, `game.c`, `shmemory_utils.c` | two named segments | create or reuse, attach, unlink | a game found in a reused segment does not show |
| Command lines, `parser.c`, `argv_parser.c` | parameters | `parse`, `parse_board_args` | bad input refused; master and children agree on the board |
| Drawing, `view/src/view_*.c` | layout, order of players | layout, `view_draw_board`, `sort_players_by_score` | the frame shows the game, and ends |

The parts meet in few places. The master writes the board under the writer lock,
the players read it under the reader lock, the view reads it with no lock while
the master waits for its frame. A move goes through a pipe, a turn through a
semaphore, the end of the game through a flag and a semaphore post, death through
end of file and `waitpid`. A child finds the segments by name and itself by pid.

What is hard here: five kinds of waiting (lock, turn, frame, `select`, `waitpid`)
across independent processes that can be signalled or killed anywhere; data read
under the lock and used after it; a view that reads without the lock; and
integers that change width (`uint16_t`, `int16_t`, `int8_t`, `uint64_t`).
`PROJECT.json` lists these hazards at their lines.

## Modules

| Module | What it is |
|---|---|
| `RWLock` | abstract lock: readers together, or one writer |
| `GameSync` | the lock of `game_sync.c`, one step per semaphore operation |
| `GameSyncProofs` | its invariants, writer preference and refinement of `RWLock`, proved |
| `GameLoop` | master loop, players, view, turns, pipes, shutdown and faults; `Lock == INSTANCE GameSync` shares the lock's variables |
| `GameLoopProofs` | its invariants, the board and the screen that are undisturbed, the lock's promise in the game: proved |
| `GameAdmin` | the board and the rules, with the code's integer widths |
| `GameAdminProofs` | placement, type correctness, captures, adjacency, moves and scores counted by cells: proved |
| `PlayerMovement` | the strategies, and matches played with them under `GameAdmin`'s rules |
| `PlayerMovementProofs` | matches are games; the flood is correct, stays in its stack and ends; choices are accepted, and are what their strategy is after: proved |
| `Display` | what the view shows of a game of `GameAdmin`: layout, ownership of cells, ranking |
| `DisplayProofs` | frames are truthful, borders end, the sort ranks: proved |
| `Parser` | the master's and the children's command lines |
| `Launch` | one launch of the master after another, with its children and the named segments; extends `Parser` |
| `LaunchProofs` | what a new game finds, what a player finds and what is left behind: proved |
| `MCGameSync`, `MCGameLoop`, `MCGameAdmin`, `MCDisplay`, `MCPlayerMovement`, `MCLaunch` | what the runs instantiate |

### Correspondence with the code

*GameSync.* `lpc[p]` is the position of process `p` in the lock's code; each
action is one `sem_wait`, `sem_post` or counter update, so all interleavings of
the C functions are behaviours. `safe_sem_wait` retries on EINTR, hence a wait
returns only with the semaphore decremented. The header promises the lock for
"other writers" too, so `Writers` is a set although the program has one.

*GameLoop.* `ppc`, `mpc` and `vpc` are the positions of players, master and view.
`round` holds the locals of `process_round` (`start`, `i`, `last`, whether a move
was valid) and the set `select()` returned. The board is reduced to `free`, the
rewards left, and `look[p]`, what a player's choice was worth: `fresh` (chosen on
the board as it still is), `raced` (somebody else has changed the board since),
`early` (chosen around (0, 0), before the player was placed), `moved` (chosen around
a cell the player has left, or an early choice already applied), `none`. A `fresh`
choice is valid; any other may or may not be. A game begins with the master about to
place the players (`mpc = "place"`, `PlacePlayer`): they run since `fork_players`, each
with one turn, so the first move may be in the pipe when `master_run` starts and may be
an `early` one. Before registration a player finds itself at (0, 0) too, or does not
find itself (`Launch`) and leaves. The timeout is one bit, `expired`, that may become
true at any moment before the loop is over and is cleared by a round with a valid
move. End of file on a player's pipe needs every copy of the write end closed:
the player's, and the view's, which is forked after the pipes are made and closes
nothing. For the same reason it keeps every read end: a player's write to a pipe the
master has closed is a SIGPIPE only once the view is gone (`NobodyReads`); before, it
succeeds, and the player takes its last turn and sees `ended`.
`waitpid(WNOHANG)` and the post of `view_may_render` are one step (the view's exit
commutes with the post); the wait for the frame is another. `Games` is a set of
games (players, view, rewards, who may be signalled or killed), one of which
`Init` starts: a run covers several. `screen` is the number of rewards on the board
the screen shows.

*GameAdmin.* `Displaced` is the path of a coordinate through `apply_direction`
(`uint16_t` to `int16_t`, plus a displacement, back to `uint16_t`). Rewards are
chosen by `Init`, `random()` being any choice. The master refuses no size: a side of 0
(`-w 0`, or 65536 narrowed) is a board without cells, on which `MarkedBoard` changes
nothing (the code writes past the array, see below). `Uint32Size` stands for 2^32: a
score wraps at it, and so does the product of the survival threshold (`Int32`). Its
values in the configurations are small because TLC's own integers have 32 bits, and
large enough that nothing wraps on their boards; the theorems take any value.
`initial` is a history variable.
It holds the reward each cell had when the players came, 0 for the cells they
were placed on. Any wire value may arrive, valid or not.

*PlayerMovement.* Extends `GameAdmin`; its steps are a player's computation, and
the master's `ProcessPlayerMove` on the result. Players take turns one at a time:
a computation runs under the reader lock, so the board stands still
(`BoardUndisturbed` of `GameLoop`), and a move overtaken by another is `GameLoop`'s subject. What
`GameLoop` takes for granted, that a fresh choice is valid, is `ChoiceAccepted`
here. `flood_count` gets no memory for the directions in `MayFail`, nor for any when
the size of its stack overflows an `int32_t` (`StackSizeFits`). It is one step per turn of its loops (`PopCell` for `while`,
`Spread` and `PassOver` for `for`); `stack`, `visited`, `count`, `cell` and `d` are
its locals, `dir` and `floods` those of the strategy. A scan that keeps the first
direction better than the best so far is `First(Best(S, value))`; of
`is_better_reward` the two keys are two nested `Best`. `lookahead` has a fixed depth
and is written out (`Ahead1`, `Ahead2`). `FLOOD` keeps no array `floods[]` in the
code; keeping one changes nothing. `rand()` is any choice.

*Display.* Extends `GameAdmin` with the view's frame: `StartFrame` (any terminal
size, a resize being possible before each frame), the board, the steps of
`sort_players_by_score` one comparison at a time, the panels. The game changes
only between frames, which is `ViewUndisturbed` of `GameLoop`. `ScreenX`, `ScreenY` and
the visibility tests are `view_draw_board`'s in `int16_t`; `DrawnAs` is whose avatar or
flag is painted; `RingRight` and `RingBottom` are what the border's loops count up to.
The last screen draws the same board and uses the same sort.

*Launch.* `launch` numbers the masters started, `mpc` is where the present one
stands in `main()`. `names` maps each segment's name to the object behind it;
`state` and `turns` are the contents of the objects, which outlive the name and the
master. A child is a pair of launch and place, standing for its pid as well;
`kid[k]` holds where it is and what it mapped. `parse` takes one option a step
(`ParseOption`), the first error ending it. `Clear` and `Register` are the two
writes to which the compiler turns the assignment of a `player_t` with the same
pid: the entry is zeroed, then filled (seen in an unoptimised build; a build that
does not is a build in which nobody looks in between). `Die` is the end of a
master at any step, killed, by a failing `pipe()` or `fork()`, or by a SIGINT before
`setup_signals()`. `haunted` remembers that players of a dead master were alive when
the semaphores were reset. The round is one step, `Serve`, and a look at the board
another; the lock is left to `GameLoop`.

*Parser.* A text is the number it starts with and whether something else
follows. `Strtoull` wraps negative numbers as C does, `ParseUint16` is the
children's conversion of the same text.

Definitions marked *Mutant* are deliberately wrong variants of the definition
they precede. Nothing uses them; each shows that a property notices that bug
when it takes the place of the original (`PROJECT.json`, `mutants`).

## Runs

| Run | Bounds | Shows |
|---|---|---|
| `lock` | 3 readers, 2 writers | `MutualExclusion`, `SemaphoresConserved`, `CountExact`, `WriterPreference`, `WriterNotStarved`, `ImplementsRWLock` |
| `loop_safety` (9.3 million states) | 2 players, 2 cells, view, signals to the view and player 0, player 1 and the view may be killed; and 3 players, 2 cells, no view | `TurnConservation`, `RecvNeverBlocks`, `MoveFromCurrentPosition`, `ScreenOneRoundBehind`, `ViewUndisturbed`, `BoardUndisturbed` |
| `loop_live` (0.6 million states) | 2 players, 2 cells, view, signals to the master; and 2 players, 3 cells, no view, signals to player 1 | `SignalEndsLoop`, `TimeoutEndsLoop`, `EveryoneExits`, `MovesAreRead`, `Terminates` |
| `launch` (3.8 million states) | 2 launches, up to 2 players, 11 command lines, 2 looks per player, `uint16_t` of 4 bits, `int` of 8, `uint64_t` of 9 | `ParsedAsGiven`, `OwnPlace`, `OnlyFirstLookEarly`, `FreshGame`, `TurnsSurviveRestart`, `LeavesNothing` |
| `rules` | 3 players, 3x3, every board of rewards 1 and 9, one invalid move each, terminals 24x80 and 7x8 | `StandsOnOwnCell`, `ScoreMatchesCells`, `FrameTruthful`, `CapturedForever`, `StepsAreAdjacent` |
| `player_movement` | 2 players, 4x2, every board of rewards 1 and 9; player 0 with each strategy, player 1 `NAIVE` | `ChoiceAccepted`, `GivesUpOnlyWhenShutIn`, `StackFits`, `FloodCountsRegion`, `LookaheadOptimal`, `SpaceKept`, `FloodShrinks` |

The runs `outlives_players`, `view_lost`, `player_killed`, `unregistered`, `small_board` and
`wide_board` are meant to fail; see below. Each passing run also checks its
module's type invariant.

Why the bounds are enough. Three readers make a first, a middle and a last one;
the proofs cover any number. The first start takes one cell, a later one another or,
where starts coincide, none: of two cells one or none is left, which every player races
for, and of three two, which let a player move again after a refusal and let the
round start wrap. Players without any reward left still hold a turn, an early choice
among them. Two players cover a player served while the other is skipped, three a
round starting in the middle. On a 3x3 board three players, two of them in one
column, meet every edge and corner, shut each other in and fill the board, and
three scores take every order and every tie; one terminal has room for the board
and its rings, the other cuts it in both directions. Larger boards and more players
are the theorems' part. In `player_movement` the second
player may take any free cell, so the first meets every position a game of this
size can come to; on eight cells regions are large enough for three tenths of one
to be more than nothing, which the survival threshold needs to bite, and paths
long enough for the lookahead to turn back on itself. `MayFail` lists the
directions whose flood may get no memory. In `launch` a second master finds what the first left
at any point, and two players are one that is found and one that is not; a third
launch would find what a second can leave. `MaxLaunches` bounds the masters,
`MaxLooks` the looks of a player: the second look shows what the first cannot
(`OnlyFirstLookEarly`), later ones repeat it. The command lines take each way
through `parse`; the small words keep their order (`uint16_t` < `int` < `uint64_t`) and
their wraps: 19 is a width of 3, 15 times 15 overflows the `int`, 511 is in range
for `strtoull` and not for `strtoll`, 512 for neither. `MaxInvalid` bounds a counter the
rules never read; `Cells` bounds the number of valid moves, while refused moves
repeat without bound. `launch` does not check deadlock: its masters have ended when
`MaxLaunches` are used up, and orphans may wait for a turn for ever. The other
passing runs check it, `Done` and `MatchOver` being the states in which the program
has ended; a game in which somebody may be killed may also stop (`Done`), since a
killed process keeps the semaphores it held.

### Fairness

`FairSpec` assumes weak fairness of each process: a process with a step to take
takes one, as the operating system's scheduler grants. No order among the
waiters of a semaphore is assumed (POSIX promises none), so a waiter is
guaranteed a semaphore only if it stays available. Nothing forces the timeout, a
signal, a death or a key press. `AttendedSpec` adds that somebody presses the key
the view's last screen waits for; only `loop_live` uses it.

### Where code and documentation disagree

Each is a run that TLC finds violated, under a specification with fairness where
the property is temporal.

* `outlives_players`: `master_loop.h:7` says the loop exits "when all players
  die". With a view it does not, the view still holding the pipes' write ends; it
  ends by timeout or signal. Without a view it does (`Terminates` in `loop_live`).
* `view_lost`: `master_loop.h:28-29` says `has_view` becomes false if the view
  exits early. A view that leaves after `waitpid` and before the master waits
  for the frame is missed, and the master never returns.
* `player_killed`: `master_loop.h:6-7` promises the inactivity timeout. A player
  killed inside the reader lock leaves the master in `writer_enter` for ever.
* `small_board`: `game_admin.h:163-164` says every starting cell is marked with
  its player's index. On a board too small for the grid the step is 0, players
  share a cell, and only the last mark remains.
* `wide_board`: `player_movement.h:25-26` promises `NO_VALID_MOVE` only "if no
  reachable cell has a positive reward". `compute_next_move` passes its `uint16_t`
  position on as `int16_t`; a player at column 32768 or beyond (the second one, on
  a board 49155 wide) sees itself off the board and gives up.
* `unregistered`: `player_loop.h:17-19` says a player finds its index by its pid and
  then plays. A player that is faster than `fork_players`' store, or looks while
  registration rewrites its entry, finds nothing and leaves (`pipes.c:90`).

Met on the way, without a run of their own (`CapturedForever`, which holds, is on the
code's side of the first):

* `game_state.h:44-46` says a cell of 0 is empty and a negative one encodes its player,
  `test_game_admin.c:24-26` that a cell of 0 or more is not claimed, and
  `test_game_admin.c:661-664` that player 0 cannot claim cells, "documented as a bug".
  Since `is_move_allowed` lets nobody onto a cell of 0 or less and rewards start at 1,
  the mark -0 = 0 does claim a cell, and player 0 keeps it (`CapturedForever`,
  `StandsOnOwnCell`).
* A width or height of 0 is refused by nobody. `place_players_on_board` then writes
  into an array of no cells: at its offset 0, which is still in the page that is mapped,
  or on a board of height 0 at the column, which need not be. `PlacementInBounds` says that the
  write is inside the board exactly when the board has cells.
* `score` is a `uint32_t`: a board of more than 477 million cells can make it wrap.
  `ScoreMatches` counts up to that wrap.
* `max_flood * 3` is an `int32_t`: a flood of more than 715827882 cells makes the threshold
  negative in the build, and every free direction survives. `FloodKeepsSpace` has the
  side condition `FloodFits` for this reason. From 2^30 cells on the size of
  the flood's stack overflows first, no flood gets memory and the threshold is 0.
* `player_movement.h:33-34` says `decide_move` delegates to `compute_next_move`; it
  takes the first free direction (only tests call it).
* `master_loop.h:20-21` says the loop "syncs the view after each round"; it does so
  before. `ScreenOneRoundBehind` says what that means for the screen.
* `draw_stadium_ring` counts in `int16_t` up to and including the far side: on a board
  of 32767 rows (or 54613 columns, whose width wraps to 32767) the loop never ends,
  the view never reports its frame and the master waits for it.
  `BordersEnd` needs the side condition for this reason.
* A width or height from 2^63 on is accepted by the master (`strtoull`) and refused
  by each of its children (`strtoll`): the game is over as soon as they have exited.
* A board of 2^31 cells or more makes the size in `game.c:97` negative; `ftruncate`
  fails, the master dies writing to `NULL` and leaves both names behind.
* `-t` is narrowed to 32 bits in `check_timeout`: a timeout of 2^32 seconds ends the
  game at once.
* After a master was killed, its players may take turns of the next game on the
  same names (`TurnsSurviveRestart` shows that they cannot add any).

## Proofs

`GameSyncProofs`, for any finite set of readers and any set of writers
(`ProcessAssumption`). The inductive invariant `IInv` is `TypeOK`,
`MutualExclusion`, `SemaphoresConserved` and `CountExact` together: exclusion is
not inductive alone, since a reader enters on `readers_count` (which must equal
the readers counted in) and a writer on `gamestate_mutex` (which must be 0
exactly while a group of readers or a writer owns it). There is one lemma per
conjunct (`TypeStep`, `ExclusionStep`, `SemaphoreStep`, `CountStep`), each with
one step per action. `WriterGoesFirst` follows from the turnstile having one
holder; `NeverStuck` (somebody in the lock is not blocked) from who holds what:
whoever has the counter's mutex runs, or is the first of its group and waits for a
writer, which runs. `Refinement` maps `reading` to the readers at `"reading"` and
`writing` to the writers at `"writing"`, `AbstractStep` showing that every step is a
step of `RWLock` or stutters.

`GameLoopProofs`, for any set of games with finitely many players, a view or none, any
number of rewards and any choice of who is signalled or killed (`GameAssumption`; the
code has at most `MAX_PLAYERS`, nine, `common/include/game_state.h:16`). The lock is not proved again: `LockProofs`
instantiates `GameSyncProofs` with the players as readers and the master as the one
writer: every step of a game is a step of the lock or leaves its variables alone by
the way `GameLoop` is written (the lemma `LockUsed`), and what is to be proved is that
players and master look and write only between enter and exit. The inductive invariant adds to `TypeOK` and the
lock's own invariant:

* `LockPlaces`: a process is inside the lock only where its program says so. It is
  what ties `ppc` and `mpc` to `lpc`, and with exclusion gives `BoardUndisturbed`: a
  player that computed without having entered, or after leaving, would break it.
  (`disconnect_player` and `game_end` write their flags without the lock; they are not
  the board; `place_players_on_board` writes it without the lock, which is why the
  property begins where the players are placed.)
* `Turns`: `TurnConservation`, plus that a dead player has at most the turn it died
  with and a thinking one nothing in its pipe; without the last two a send could
  put a second move in the pipe.
* `Choices`: whoever has a move under way chose it where it stands, or before it was
  placed and has not been served yet, and the cell of a fresh one is still free; it relates the pipe, the master's position and
  `look`, which `MoveFromCurrentPosition` looks at only at the moment of applying.
* `RoundReadable`: whoever `select` reported and the round has yet to serve can
  still be read. `RecvNeverBlocks` is its instance at `round.i`; the induction needs
  it for all later places, and that each place is served once (the round's start
  plus `i`, modulo the players, is a permutation: `PlayersOfRound`).
* `Stages`, `FramesInStep`, `ScreenFollows`: which stages of master and view occur
  together, that a frame is asked for, drawn or answered in one place, and what is on
  the screen meanwhile. They give `ScreenOneRoundBehind` and `ViewUndisturbed`.

TLC checked this invariant, and the second one below with `NoDeadlock`, on the games of
`loop_safety`; the proof has a lemma per part
and in it a step per action.

Two results go beyond single properties of the runs. `GameImplementsRWLock`: seen from
outside, players and master share the lock of `RWLock`, with writer preference.
`NobodyWaitsForEver` (`NoDeadlock`): as long as no player is killed, a master that waits
(`select` with nothing to read, a frame, the lock, a child) waits for somebody that is not
itself blocked. The exceptions are part of the statement: all players have left while the
view holds their pipes (`outlives_players`), the view was lost in the handshake (`view_lost`), the
last screen waits for its key. A circle would have to go through the lock
(`NeverStuck`), the turns (`TurnOnItsWay`: a player waiting for its turn has its move in the
pipe) or the frames (`FrameDue`: the frame a view waits for has been asked for); the
second invariant, `Progress`, adds that only players that left are given up
(`BlockedGone`) and that leaving leaves nothing of the lock held (`LockFree`). That somebody runs
is not that he is scheduled: termination itself is TLC's, under fairness.

`LaunchProofs`, for any number of launches and looks, up to `MAX_PLAYERS` places, any
widths of the integers with `uint64_t` a multiple of twice `uint16_t` (`WidthAssumption`), and any set
of sequences of options (`LaunchAssumption`). Sixteen parts, each needed by some other
or by a property:

* `Types`, `MasterAt` (how far the master is bounds `i` and says when its parameters
  were accepted), `ReadSoFar` (what the options read so far amount to, of which
  `ParsedAsGiven` is the end), `SameSize` (the `uint16_t` of a parsed width is what the
  child reads from the same text, since one modulus divides the other: `ModMod`).
* `Names`, `Forks`, `Attachments`: which objects the names stand for at each stage, which
  players exist, and that a player of a living master is attached to its master's
  objects. A new master cannot begin while the last one lives, so nobody renames
  them under it.
* `Places`: a pid is only ever stored at the place it was forked for, in any object;
  so `FindPlayerIndex` finds `k[2]` or nothing, whatever is left in the segment.
* `Board`, `Registrations`: the game in the master's own object, between fork, store,
  `Clear`, `Register` and placement. `FreshGame` is the two at the loop.
* `Haunting`, `Turns`, `Pipes`: if no orphan was alive when the semaphores were reset,
  none can come; then turns in the semaphore, the pipe and the player add up to one,
  and to two after `game_end`. Otherwise they add up to no more. `Pipes` (one move at
  most, and only of players of this launch) is what keeps a `Send` from adding.
* `FirstLooks`, `OnlyFirstLookEarly`: before the loop no player has had a second turn.

TLC checked it on 3.8 million states first. `TurnsSurviveRestart`, `OwnPlace`, `FreshGame`,
`OnlyFirstLookEarly`, `LeavesNothing`, `ParsedAsGiven` and `TypeOK` follow.

`GameAdminProofs`, for boards from 0x0 to 65535x65535, one to nine players, any
rewards in 1..9 and any size of a `uint32_t` (`BoardAssumption`):

* `PlacementInBounds` (a start is on the board if and only if the board has cells,
  `HasCells`) and `DistinctStarts`: from `GridColsType` (the square grid
  has at most three columns), `GridRowsType` and `StepsFit` (`k` steps of a
  `(k+1)`-th of a length stay inside it); distinctness needs `Roomy`, both steps
  positive, which is exactly what `small_board` lacks.
* `TypeCorrect`: from `DisplacedExact`, the widths of `apply_direction` are exact
  on the board and land beyond any board otherwise. Along a side of 0 a
  coordinate stays 0.
* `Captured`, `Adjacent`: from `AllowedMove`, a move that passes `is_move_allowed`
  leads to a neighbour on the board.
* `OwnCell`: from `DistinctStarts` and `OffsetInRange`, under `Roomy`.
* `MovesMatch`: the cells a player owns are one more than its valid moves, also
  under `Roomy`. Besides `TypeOK` and `StandsOnOwnCell` it needs `Untouched`, that before
  the players are placed every cell is positive; then `OwnedAtStart` gives one cell
  each, and a capture adds a cell that was positive, hence nobody's.
* `ScoreMatches`: a score is the number of points that lay on the player's cells, modulo
  the size of a `uint32_t` (`AddedRemainder`).
  `Points` counts them one by one, a cell worth `r` giving `r` of them: what the
  sum over cells is, stated by a cardinality because what a fold computes cannot be
  proved. It needs `AsFound`, a free cell still holds the reward it had at the start,
  and no other condition on the size of the board.

`PlayerMovementProofs`, for the same boards and any mix of strategies:

* `MatchIsGame`: every step of a match is a step of `GameAdmin` or leaves the game
  alone, so `TypeCorrect`, `Captured`, `Adjacent` and `OwnCell` hold in matches.
* `MoverTypeCorrect`: all cells computed with are on the board.
* `FloodCorrect`: by `FloodInv`, three conjuncts with a lemma each. `FloodCounts`:
  the cells on the stack are visited, and no more than were counted.
  `FloodHandled`: a visited cell is on the stack, or is `cell` and looked at up to
  `d`, or has only visited cells around it. `FloodForced`: nothing is visited that
  a closed set with the first cell could do without. With an empty stack and `d`
  at its end the second says closed and the third smallest.
* `FloodStackFits`: from `FloodCounts` and the number of cells on the board.
* `FloodEnds`: the variant `LeftToDo`, cells not visited, then entries on the
  stack, then directions, is a natural number that every turn decreases. That is
  the termination argument; that the turns are taken is fairness, not proved.
* `ChoicesAccepted`, `GivesUpWhenShutIn`, under `ShortSides` (no side longer than
  32768): from `SameView` (the player's test in `int16_t` is the master's, by
  `NeighborExact` and `DisplacedExact`) and `DecisionSound` (no strategy's scans
  come out empty while a direction is free, by `BestExists`; for `GREEDY_FLOOD`
  with floods that failed as well). `wide_board` shows that the side condition is
  needed.
* `FloodKeepsSpace`: `ThresholdPassed` shows that the direction with the most space passes
  the threshold computed from it, rounding included; so the first scan of `GREEDY_FLOOD`
  always finds one and the scan without threshold is not reached, under `FloodFits`
  (three times the cells fit an `int32_t`: a flood visits no more, `FloodsBounded`).
* `LookaheadFindsRichest`: the values `Ahead1` and `Ahead2` compute for a direction are the
  largest total of the paths of `PathTotals` (`AheadBest`), by the maximum of a finite set
  shifted by what lies on the first cell (`TopAround`).

`DisplayProofs`, for every terminal whose sides are positive `int16_t`:

* `ShownIsGame`: a step of `Display` is a step of `GameAdmin` or leaves the game alone.
* `Ranked`: from `SortInv`, `order` is a permutation, the positions below `i` are
  sorted and not smaller than any later one, and `order[i]` is not smaller than
  what it was compared with.
* `PictureAgrees`, under `Roomy` and `LaidOutExactly` (three times the width and the
  height below 32767): `PlacesExact` shows that no `int16_t` of the layout wraps,
  `DrawnAsOwner` that a cell is painted as the player's that owns it, and
  `MovesMatch` counts.
* `BordersEnd`, under `LaidOutExactly`: centring leaves room for the rings.
* `FramesTruthful`: the three together.

What stays with TLC. Every invariant the passing runs check is a theorem, and every
action property. The rest is liveness and out of the prover's reach with its fairness
and ENABLED: `WriterNotStarved` of the lock (from the moment the
writer has the turnstile: whether it gets it from a crowd of readers is up to the order in
which a semaphore wakes its waiters, of which nothing is assumed); `SignalEndsLoop`, `TimeoutEndsLoop`, `MovesAreRead`,
`EveryoneExits` and `Terminates` of a game. `FloodEnds` proves the variant of the flood, not
that its turns are taken. `NoDeadlock` is proved of `Spec`; that a game with
nobody killed always comes to its end is `Terminates`, model-checked. The runs meant to fail show
counterexamples, which need no proof; the theorems whose side conditions they
violate (`Roomy`, `ShortSides`) name them. `PROJECT.json` lists the 47 theorems a reader
should know of.

## Not modelled

`decide_move` and `game_register_all` (only tests call them), `is_player_ingame`
(nothing does); the pause of `-d` and the clock itself; names of players (registration refuses an empty one, whose
program cannot have been executed either); printed results and error messages;
ncurses, colours, the text and geometry of panels and last screen. In `Launch`:
launches that overlap, pids used twice, a view, failures of `shm_open` or `mmap`
other than for the size. `GameLoop` starts with the children forked and registered and
ends with the last of them; `Launch` has what happens before and after it, with the
loop reduced to `Serve`. They overlap in the placing of the players, which both
model, and in the looks that come before it: `OnlyFirstLookEarly` shows in `Launch` that only
the first look can be early, as `look` has it in `GameLoop`. That a state of `GameLoop`'s
`Init` is one that `Launch` reaches is argued here, not proved (9 below).

## Plan

1. *(done)* `GameSync`, `RWLock`, proofs; `GameLoop`; `GameAdmin`, proofs.
2. *(done)* `PlayerMovement`, proofs.
3. *(done)* `Parser`, `Launch`: command lines, forks, registration, segments that
   outlive their master.
4. *(done)* `Display`, proofs; the screen in `GameLoop`.
5. A clock for `check_timeout` with steps and jumps, and the pause of `-d`.
6. Launches that overlap on the same names.
7. *(done)* Proofs of `GameLoop` and, through `GameSyncProofs`, of exclusion in the composed
   system; of `Launch`; of the score, the space kept and the lookahead.
8. An abstract turn protocol (a turn is held, sent or waited for) that `GameLoop` refines,
   from `Turns` and `Choices`.
9. The start of `GameLoop` as a state `Launch` reaches: `Registrations` to `Init`, as a lemma.
