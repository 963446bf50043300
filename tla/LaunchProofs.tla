---------------------------- MODULE LaunchProofs ----------------------------
(***************************************************************************)
(* What holds of every launch of the master, for every number of launches, *)
(* of places and of looks, and every set of command lines: the inductive   *)
(* invariant of module Launch and the properties that follow from it.      *)
(***************************************************************************)
EXTENDS Launch, FiniteSetTheorems, TLAPS

(* What each variable holds.                                               *)
Errors == {"invalid_integer_type", "overflow", "exceeded_player_limit", "unknown_optional_flag"}
Parameters ==
  [value : [NumberFlags -> Int], text : [{"w", "h"} -> Texts], view : BOOLEAN,
   players : 0 .. MAX_PLAYERS, status : SUBSET Errors]

Pids == Kids \union {NoPid}
Flags == [Slots -> BOOLEAN]
States ==
  [width : 0 .. UShort - 1, height : 0 .. UShort - 1, players_count : 0 .. MAX_PLAYERS,
   ended : BOOLEAN, placed : BOOLEAN, player_id : [Slots -> Pids],
   is_blocked : Flags]

Objects == 0 .. MaxLaunches
KidStates ==
  [pc : KidPC, text : [{"w", "h"} -> Texts], state : Objects, sync : Objects, idx : Slots,
   looks : 0 .. MaxLooks, early : BOOLEAN]

Types ==
  /\ launch \in Objects /\ mpc \in MasterPC /\ i \in Nat
  /\ line \in Seq(Options) /\ params \in Parameters
  /\ names \in [Segments -> 0 .. launch] /\ mapped \in [Segments -> 0 .. launch]
  /\ state \in [Launches -> States]
  /\ turns \in [Launches -> [Slots -> Nat]] /\ pipe \in [Kids -> Nat]
  /\ kid \in [Kids -> KidStates] /\ haunted \in BOOLEAN

(* Where the master is: the players exist from "fork" on, and InGame is    *)
(* over when it has seen them all exit.                                    *)
Settling == {"fork", "store", "clear", "register", "place"}
Settled == {"loop", "close", "reap"}
InGame == Settling \union Settled
Unlinking == {"unlink_state", "unlink_sync"}

MasterAt ==
  /\ launch = 0 => mpc = "ended"
  /\ mpc = "parse" => i <= Len(line)
  /\ mpc \notin Gone \union {"parse"} => Accepted(params)
  /\ mpc \in Settling \ {"place"} => i < params.players
  /\ mpc \notin (Settling \ {"place"}) \union {"parse"} => i = 0

(* The options read so far, while they are read.                           *)
Good(n) ==
  \/ line[n].flag \in {"p", "v"}
  \/ /\ line[n].flag \in NumberFlags
     /\ ~line[n].text.junk /\ InUnsignedRange(line[n].text)
PlayersAsked(m) == {n \in 1 .. m : line[n].flag = "p"}
LastOf(f, n) == line[n].flag = f /\ \A m \in n + 1 .. i : line[m].flag # f
Taken(f, n) ==
  /\ \E c \in -1 .. 1 : params.value[f] = line[n].text.number + c * ULong
  /\ f \in {"w", "h"} => params.text[f] = line[n].text

ReadSoFar ==
  mpc = "parse" =>
    /\ params.status = {} =>
         /\ \A n \in 1 .. i : Good(n)
         /\ params.players = Cardinality(PlayersAsked(i))
         /\ \A f \in NumberFlags : (\E n \in 1 .. i : line[n].flag = f) =>
              \E n \in 1 .. i : LastOf(f, n) /\ Taken(f, n)
    /\ params.status # {} =>
         \/ \E n \in 1 .. Len(line) : ~Good(n)
         \/ Cardinality(PlayersAsked(Len(line))) > MAX_PLAYERS

(* The size the master uses is the one its children read from the text.    *)
SameSize ==
  params.status = {} =>
    \A f \in {"w", "h"} : params.value[f] % UShort = ParseUint16(params.text[f])

(* A master that has mapped a segment has mapped the one its name stands   *)
(* for, and a master that has ended leaves no name.                        *)
Names ==
  /\ mpc \in {"open_sync", "init_sync", "init_state"} =>
       mapped["state"] \in {0, names["state"]}
  /\ mpc \in InGame => mapped["state"] = names["state"] /\ names["state"] # 0
  /\ mpc \in InGame \union {"init_sync", "init_state"} =>
       mapped["sync"] = names["sync"] /\ names["sync"] # 0
  /\ mpc = "unlink_sync" => names["state"] = 0
  /\ mpc = "ended" => names["state"] = 0 /\ names["sync"] = 0

(* The players not forked yet, and those that have exited.                 *)
Starting == {"parse", "refused", "open_state", "open_sync", "init_sync", "init_state"}
Unforked(p) ==
  \/ mpc \in Starting
  \/ mpc = "fork" /\ p >= i
  \/ mpc = "store" /\ p > i
  \/ mpc \in (InGame \ {"fork", "store"}) \union Unlinking /\ p >= params.players

OwnKid(k) == k \in Kids /\ k[1] = launch

Forks ==
  /\ \A k \in Kids : k[1] > launch => kid[k] = NoKid
  /\ \A k \in Kids : OwnKid(k) /\ Unforked(k[2]) => kid[k] = NoKid
  /\ mpc \in Unlinking \union {"ended"} =>
       \A k \in Kids : OwnKid(k) => kid[k].pc \in {"none", "exited"}

(* What a player has attached to: anybody's segments when its master has   *)
(* died, its master's until then.                                          *)
Attachments ==
  /\ \A k \in Kids : kid[k].pc \notin {"none", "exec", "exited"} => kid[k].state # 0
  /\ \A k \in Kids : Attached(k) => kid[k].sync # 0
  /\ mpc \in InGame =>
       \A k \in Kids : OwnKid(k) /\ kid[k].pc \notin {"none", "exited"} =>
         /\ kid[k].text = params.text
         /\ kid[k].pc # "exec" => kid[k].state = mapped["state"]
         /\ Attached(k) => kid[k].sync = mapped["sync"]

(* A pid is only ever stored at the place it was forked for, so a player   *)
(* that finds itself finds itself there, whatever it is attached to.       *)
Places ==
  /\ \A o \in Launches : \A p \in Slots :
       state[o].player_id[p] # NoPid => state[o].player_id[p][2] = p
  /\ \A k \in Kids : Attached(k) /\ kid[k].pc # "find" => kid[k].idx = k[2]

(* The game in the master's segment.                                       *)
Board ==
  mpc \in InGame =>
    /\ Own.width = Width /\ Own.height = Height /\ Own.players_count = params.players
    /\ Own.placed <=> mpc \in Settled
    /\ Own.ended <=> mpc \in {"close", "reap"}

Registered(p) == (mpc \in {"clear", "register"} /\ p < i) \/ mpc \in {"place"} \union Settled
Unblocked(p) ==
  (mpc = "clear" /\ p < i) \/ (mpc = "register" /\ p <= i) \/ mpc \in {"place"} \union Settled

Registrations ==
  mpc \in InGame =>
    \A p \in Present :
      /\ Registered(p) => Own.player_id[p] = <<launch, p>>
      /\ Unblocked(p) => (Own.is_blocked[p] => kid[<<launch, p>>].pc = "exited")

(* The turns of each place: one more for those present once the game is    *)
(* over.                                                                   *)
Granted(p) == IF mpc \in {"close", "reap"} /\ p < params.players THEN 2 ELSE 1
Thinking(k) == IF kid[k].pc \in {"look", "send", "check"} THEN 1 ELSE 0
Left(p) == turns[mapped["sync"]][p] + pipe[<<launch, p>>] + Thinking(<<launch, p>>)

Haunting == mpc \in InGame \union {"init_state"} /\ ~haunted => Orphans = {}

Turns ==
  /\ \A o \in Launches : \A p \in Slots : turns[o][p] <= 2
  /\ mpc \in InGame \union {"init_state"} =>
       \A p \in Slots :
         /\ Left(p) <= Granted(p)
         /\ ~haunted /\ kid[<<launch, p>>].pc # "exited" => Left(p) = Granted(p)

Pipes ==
  /\ \A k \in Kids : pipe[k] <= 1
  /\ \A k \in Kids : pipe[k] # 0 => k[1] = launch /\ mpc \in InGame \union Unlinking
  /\ mpc \in InGame =>
       \A k \in Kids : OwnKid(k) /\ kid[k].pc \notin {"next_turn", "check", "exited"} => pipe[k] = 0

(* Until the game has started a player has had one turn at most.           *)
FirstLooks ==
  mpc \in Settling =>
    \A k \in Kids : OwnKid(k) =>
      /\ kid[k].pc \in {"none", "exec", "attach", "find", "first_turn", "look"} => kid[k].looks = 0
      /\ kid[k].pc = "send" => kid[k].looks = 1
      /\ kid[k].pc = "next_turn" => pipe[k] = 1
      /\ kid[k].pc # "check"

IInv ==
  /\ Types /\ MasterAt /\ ReadSoFar /\ ParsedAsGiven /\ SameSize
  /\ Names /\ Forks /\ Attachments /\ Places /\ Board /\ Registrations
  /\ Haunting /\ Turns /\ Pipes /\ FirstLooks /\ OnlyFirstLookEarly

-----------------------------------------------------------------------------
(* Numbers, places and command lines                                       *)

LEMMA Constants ==
  /\ UShort \in Nat /\ UShort > 10 /\ ULong \in Nat /\ ULong > 0
  /\ MAX_PLAYERS \in Nat /\ MAX_PLAYERS > 0 /\ MaxLaunches \in Nat /\ MaxLooks \in Nat
  BY WidthAssumption, LaunchAssumption

LEMMA ModRange ==
  ASSUME NEW n \in Nat, n > 0, NEW a \in Int
  PROVE  a % n \in 0 .. n - 1
  OBVIOUS

LEMMA Quotient ==
  ASSUME NEW n \in Nat, n > 0, NEW a \in Int
  PROVE  \E q \in Int : a = q * n + (a % n)
  OBVIOUS

LEMMA ProductBound ==
  ASSUME NEW n \in Nat, n > 0, NEW c \in Int, c * n < n, -n < c * n
  PROVE  c = 0
  <1>1. c >= 1 => c * n >= n
    OBVIOUS
  <1>2. c <= -1 => c * n <= -n
    OBVIOUS
  <1>. QED
    BY <1>1, <1>2

LEMMA ModUnique ==
  ASSUME NEW n \in Nat, n > 0, NEW q \in Int, NEW r \in 0 .. n - 1
  PROVE  (q * n + r) % n = r
  <1>. DEFINE a == q * n + r
              s == a % n
  <1>1. a \in Int
    OBVIOUS
  <1>2. PICK p \in Int : a = p * n + s
    BY <1>1, Quotient
  <1>3. s \in 0 .. n - 1
    BY <1>1
  <1>4. q * n + r = p * n + s
    BY <1>2
  <1>. HIDE DEF s, a
  <1>5. (q - p) * n = s - r
    BY <1>3, <1>4
  <1>6. q - p = 0
    BY <1>3, <1>5, ProductBound
  <1>7. s = r
    BY <1>3, <1>4, <1>6
  <1>. QED
    BY <1>7 DEF s, a

(* What is left modulo a multiple is the same modulo its divisor.          *)
LEMMA ModMod ==
  ASSUME NEW n \in Nat, n > 0, NEW m \in Nat, m > 0, m % (2 * n) = 0, NEW a \in Int
  PROVE  (a % m) % n = a % n
  <1>. DEFINE r == a % m
              s == r % n
  <1>1. PICK c \in Int : m = c * (2 * n)
    OBVIOUS
  <1>2. r \in Int /\ s \in 0 .. n - 1
    OBVIOUS
  <1>3. PICK b \in Int : a = b * m + r
    BY Quotient
  <1>4. PICK d \in Int : r = d * n + s
    BY <1>2, Quotient
  <1>. HIDE DEF r, s
  <1>. DEFINE q == b * (2 * c) + d
  <1>5. q \in Int
    OBVIOUS
  <1>6. b * m = (b * (2 * c)) * n
    BY <1>1
  <1>7. a = q * n + s
    BY <1>2, <1>3, <1>4, <1>6
  <1>. HIDE DEF q
  <1>8. a % n = s
    BY <1>2, <1>5, <1>7, ModUnique
  <1>. QED
    BY <1>8 DEF r, s

LEMMA KidNames ==
  ASSUME NEW k \in Kids
  PROVE  k = <<k[1], k[2]>> /\ k[1] \in Launches /\ k[2] \in Slots /\ k # NoPid
  BY DEF Kids, NoPid, Launches

LEMMA PresentSlots ==
  ASSUME params \in Parameters
  PROVE  Present \subseteq Slots /\ params.players \in 0 .. MAX_PLAYERS
  BY Constants DEF Parameters, Present, Slots

LEMMA ArgumentCases ==
  ASSUME NEW ps, NEW opt
  PROVE  /\ opt.flag \in NumberFlags => ParseArgument(ps, opt) = ParseInteger(ps, opt)
         /\ opt.flag = "v" => ParseArgument(ps, opt) = [ps EXCEPT !.view = TRUE]
         /\ opt.flag = "p" => ParseArgument(ps, opt) = AddPlayer(ps)
         /\ opt.flag \notin NumberFlags \union {"v", "p"} =>
              ParseArgument(ps, opt) = [ps EXCEPT !.status = @ \union {"unknown_optional_flag"}]
  BY DEF ParseArgument, NumberFlags

LEMMA ArgumentTyped ==
  ASSUME NEW ps \in Parameters, NEW opt \in Options
  PROVE  ParseArgument(ps, opt) \in Parameters
  <1>1. opt.flag \in STRING /\ opt.text \in Texts /\ opt.text.number \in Int /\ opt.text.junk \in BOOLEAN
    BY DEF Options, Texts
  <1>2. CASE opt.flag \in NumberFlags
    <2>1. Strtoull(opt.text) \in Int
      BY <1>1, Constants DEF Strtoull
    <2>2. [ps.value EXCEPT ![opt.flag] = Strtoull(opt.text)] \in [NumberFlags -> Int]
      BY <2>1, <1>2 DEF Parameters
    <2>3. ps.status \union IntegerErrors(opt.text) \in SUBSET Errors
      BY DEF Parameters, IntegerErrors, Errors
    <2>. DEFINE text == IF opt.flag \in DOMAIN ps.text THEN [ps.text EXCEPT ![opt.flag] = opt.text] ELSE ps.text
                status == ps.status \union IntegerErrors(opt.text)
                value == [ps.value EXCEPT ![opt.flag] = Strtoull(opt.text)]
    <2>4. text \in [{"w", "h"} -> Texts]
      BY <1>1 DEF Parameters
    <2>5. ParseInteger(ps, opt) = [ps EXCEPT !.value = value, !.text = text, !.status = status]
      BY Zenon DEF ParseInteger
    <2>. HIDE DEF text, status, value
    <2>6. [ps EXCEPT !.value = value, !.text = text, !.status = status] \in Parameters
      BY <2>2, <2>3, <2>4 DEF Parameters, value, status
    <2>7. ParseInteger(ps, opt) \in Parameters
      BY <2>5, <2>6
    <2>. QED
      BY <1>2, <2>7, ArgumentCases
  <1>3. CASE opt.flag = "v"
    BY <1>3 DEF ParseArgument, Parameters, NumberFlags
  <1>4. CASE opt.flag = "p"
    <2>1. AddPlayer(ps) \in Parameters
      <3>1. CASE ps.players = MAX_PLAYERS
        BY <3>1 DEF AddPlayer, Parameters, Errors
      <3>2. CASE ps.players # MAX_PLAYERS
        <4>1. ps.players + 1 \in 0 .. MAX_PLAYERS
          BY <3>2, Constants DEF Parameters
        <4>. QED
          BY <3>2, <4>1 DEF AddPlayer, Parameters
      <3>. QED
        BY <3>1, <3>2
    <2>. QED
      BY <1>4, <2>1, ArgumentCases
  <1>5. CASE opt.flag \notin NumberFlags \union {"v", "p"}
    <2>1. ParseArgument(ps, opt) = [ps EXCEPT !.status = @ \union {"unknown_optional_flag"}]
      BY <1>5, ArgumentCases
    <2>2. ps.status \union {"unknown_optional_flag"} \in SUBSET Errors
      BY DEF Parameters, Errors
    <2>. QED
      BY <2>1, <2>2 DEF Parameters
  <1>. QED
    BY <1>2, <1>3, <1>4, <1>5

LEMMA DefaultsTyped == Defaults \in Parameters /\ Defaults.status = {}
  <1>1. [f \in NumberFlags |-> CASE f = "d" -> 200 % ULong [] f = "s" -> 0 [] OTHER -> 10] \in [NumberFlags -> Int]
    BY Constants DEF NumberFlags
  <1>2. [f \in {"w", "h"} |-> Text(10)] \in [{"w", "h"} -> Texts]
    BY DEF Text, Texts
  <1>. QED
    BY <1>1, <1>2, Constants DEF Defaults, Parameters

-----------------------------------------------------------------------------
(* What the steps leave alone                                              *)

LEMMA StepCases ==
  ASSUME [Next]_vars
  PROVE  \/ \E l \in CommandLines : StartMaster(l)
         \/ MasterStep
         \/ Die
         \/ \E k \in Kids : KidStep(k) \/ KidDies(k)
         \/ UNCHANGED vars
  BY Zenon DEF Next

LEMMA KidLeaves ==
  ASSUME NEW k \in Kids, KidStep(k) \/ KidDies(k)
  PROVE  UNCHANGED <<masterVars, names, state>>
  BY DEF KidStep, KidDies, KidOnly, AttachState, AttachSync, CannotAttach, FindPlayerIndex, NotFound,
     WaitTurn, FirstTurn, Look, GiveUp, Send, SendToNobody, NextTurn, CheckEnded

(* Which steps of the master change which variable.                        *)
LEMMA MasterFrame ==
  ASSUME MasterStep
  PROVE  /\ UNCHANGED launch
         /\ ParseOption \/ UNCHANGED params
         /\ OpenState \/ UNCHANGED line
         /\ OpenState \/ OpenSync \/ UNCHANGED mapped
         /\ OpenState \/ OpenSync \/ UnlinkState \/ UnlinkSync \/ UNCHANGED names
         /\ InitSync \/ UNCHANGED haunted
         /\ Fork \/ UNCHANGED kid
         /\ ParseOption \/ EndParse \/ StorePid \/ Register \/ UNCHANGED i
         /\ UnlinkSync \/ (\E p \in Present : Serve(p)) \/ UNCHANGED pipe
         /\ InitSync \/ GameEnd \/ (\E p \in Present : Serve(p)) \/ UNCHANGED turns
         /\ \/ InitState \/ StorePid \/ Clear \/ Register \/ Place \/ GameEnd
            \/ \E p \in Present : Disconnect(p)
            \/ UNCHANGED state
  <1>1. CASE \E p \in Present : Serve(p)
    BY <1>1 DEF Serve, masterVars
  <1>2. CASE \E p \in Present : Disconnect(p)
    BY <1>2 DEF Disconnect, masterVars
  <1>3. CASE ParseOption \/ EndParse
    BY <1>3 DEF ParseOption, EndParse
  <1>4. CASE OpenState \/ OpenSync
    BY <1>4 DEF OpenState, OpenSync
  <1>5. CASE InitSync \/ InitState \/ Segfault \/ Fork
    BY <1>5 DEF InitSync, InitState, Segfault, Fork
  <1>6. CASE StorePid \/ Clear \/ Register \/ Place
    BY <1>6 DEF StorePid, Clear, Register, Place
  <1>7. CASE GameEnd \/ ClosePipes \/ Reap \/ UnlinkState \/ UnlinkSync
    BY <1>7 DEF GameEnd, ClosePipes, Reap, UnlinkState, UnlinkSync
  <1>. QED
    BY <1>1, <1>2, <1>3, <1>4, <1>5, <1>6, <1>7, Zenon DEF MasterStep

LEMMA NoOptions == <<>> \in Seq(Options)
  OBVIOUS

(* Where the master is before and after each step.                         *)
LEMMA Where ==
  /\ OpenState => mpc = "open_state" /\ mpc' = "open_sync"
  /\ OpenSync => mpc = "open_sync" /\ mpc' = "init_sync"
  /\ InitSync => mpc = "init_sync" /\ mpc' = "init_state"
  /\ InitState => mpc = "init_state" /\ mpc' = "fork"
  /\ Segfault => mpc = "init_state" /\ mpc' = "died"
  /\ Fork => mpc = "fork" /\ mpc' = "store"
  /\ StorePid => mpc = "store" /\ mpc' = IF i + 1 = params.players THEN "clear" ELSE "fork"
  /\ Clear => mpc = "clear" /\ mpc' = "register"
  /\ Register => mpc = "register" /\ mpc' = IF i + 1 = params.players THEN "place" ELSE "clear"
  /\ Place => mpc = "place" /\ mpc' = "loop"
  /\ \A p \in Present : Serve(p) => mpc = "loop" /\ mpc' = "loop"
  /\ \A p \in Present : Disconnect(p) => mpc = "loop" /\ mpc' = "loop"
  /\ GameEnd => mpc = "loop" /\ mpc' = "close"
  /\ ClosePipes => mpc = "close" /\ mpc' = "reap"
  /\ Reap => mpc = "reap" /\ mpc' = "unlink_state"
  /\ UnlinkState => mpc = "unlink_state" /\ mpc' = "unlink_sync"
  /\ UnlinkSync => mpc = "unlink_sync" /\ mpc' = "ended"
  <1>1. \A p \in Present : Serve(p) => mpc = "loop" /\ mpc' = "loop"
    BY DEF Serve, masterVars
  <1>2. \A p \in Present : Disconnect(p) => mpc = "loop" /\ mpc' = "loop"
    BY DEF Disconnect, masterVars
  <1>3. StorePid => mpc = "store" /\ mpc' = IF i + 1 = params.players THEN "clear" ELSE "fork"
    BY DEF StorePid, Goes
  <1>4. Register => mpc = "register" /\ mpc' = IF i + 1 = params.players THEN "place" ELSE "clear"
    BY DEF Register, Goes
  <1>. QED
    BY <1>1, <1>2, <1>3, <1>4, Zenon DEF Goes, OpenState, OpenSync, InitSync, InitState, Segfault, Fork, Clear, Place,
       GameEnd, ClosePipes, Reap, UnlinkState, UnlinkSync

-----------------------------------------------------------------------------
(* The types                                                               *)

LEMMA MasterTypes ==
  ASSUME IInv, [Next]_vars
  PROVE  /\ launch' \in Objects /\ mpc' \in MasterPC /\ i' \in Nat /\ haunted' \in BOOLEAN
         /\ line' \in Seq(Options) /\ params' \in Parameters
         /\ names' \in [Segments -> 0 .. launch'] /\ mapped' \in [Segments -> 0 .. launch']
  <1> USE DEF IInv, Types
  <1>1. ASSUME NEW l \in CommandLines, StartMaster(l)
        PROVE  /\ launch' \in Objects /\ mpc' \in MasterPC /\ i' \in Nat /\ haunted' \in BOOLEAN
               /\ line' \in Seq(Options) /\ params' \in Parameters
               /\ names' \in [Segments -> 0 .. launch'] /\ mapped' \in [Segments -> 0 .. launch']
    <2>1. l \in Seq(Options)
      BY LaunchAssumption
    <2>2. launch' \in Objects /\ launch' = launch + 1 /\ launch \in Nat
      BY <1>1, Constants DEF StartMaster, Objects
    <2>3. names' \in [Segments -> 0 .. launch'] /\ mapped' \in [Segments -> 0 .. launch']
      BY <1>1, <2>2 DEF StartMaster
    <2>. QED
      BY <1>1, <2>1, <2>2, <2>3, DefaultsTyped DEF StartMaster, MasterPC
  <1>2. ASSUME Die
        PROVE  /\ launch' \in Objects /\ mpc' \in MasterPC /\ i' \in Nat /\ haunted' \in BOOLEAN
               /\ line' \in Seq(Options) /\ params' \in Parameters
               /\ names' \in [Segments -> 0 .. launch'] /\ mapped' \in [Segments -> 0 .. launch']
    <2>1. launch' = launch /\ launch \in Nat /\ mpc' \in MasterPC /\ i' \in Nat
      BY <1>2 DEF Die, MasterPC, Objects
    <2>4. haunted' \in BOOLEAN
      BY <1>2, Zenon DEF Die
    <2>2. line' \in Seq(Options) /\ params' \in Parameters
      BY <1>2, DefaultsTyped, NoOptions DEF Die
    <2>3. names' \in [Segments -> 0 .. launch'] /\ mapped' \in [Segments -> 0 .. launch']
      BY <1>2, <2>1 DEF Die
    <2>. QED
      BY <2>1, <2>2, <2>3, <2>4 DEF Objects
  <1>3. ASSUME MasterStep
        PROVE  /\ mpc' \in MasterPC /\ i' \in Nat /\ haunted' \in BOOLEAN
               /\ line' \in Seq(Options)
    <2>1. line' \in Seq(Options)
      BY <1>3, MasterFrame, NoOptions DEF OpenState
    <2>2. mpc' \in MasterPC
      BY <1>3 DEF MasterStep, MasterPC, Goes, masterVars, ParseOption, EndParse, OpenState, OpenSync, InitSync,
         InitState, Segfault, Fork, StorePid, Clear, Register, Place, Serve, Disconnect, GameEnd, ClosePipes,
         Reap, UnlinkState, UnlinkSync
    <2>3. i' \in Nat
      BY <1>3, MasterFrame DEF ParseOption, EndParse, StorePid, Register
    <2>4. InitSync => haunted' \in BOOLEAN
      BY Zenon DEF InitSync
    <2>5. haunted' \in BOOLEAN
      BY <1>3, <2>4, MasterFrame, Zenon
    <2>. QED
      BY <2>1, <2>2, <2>3, <2>5
  <1>4. ASSUME MasterStep PROVE params' \in Parameters
    <2>1. CASE ParseOption
      <3>1. line[i + 1] \in Options
        BY <2>1 DEF ParseOption
      <3>. QED
        BY <2>1, <3>1, ArgumentTyped DEF ParseOption
    <2>. QED
      BY <1>4, <2>1, MasterFrame
  <1>5. ASSUME MasterStep
        PROVE  names' \in [Segments -> 0 .. launch] /\ mapped' \in [Segments -> 0 .. launch]
    <2>1. launch \in 0 .. launch /\ 0 \in 0 .. launch /\ "state" \in Segments /\ "sync" \in Segments
      BY DEF Segments, Objects
    <2>2. CASE OpenState
      BY <2>1, <2>2 DEF OpenState, Open
    <2>3. CASE OpenSync
      BY <2>1, <2>3 DEF OpenSync, Open
    <2>4. CASE UnlinkState \/ UnlinkSync
      BY <2>1, <2>4 DEF UnlinkState, UnlinkSync
    <2>. QED
      BY <1>5, <2>2, <2>3, <2>4, MasterFrame
  <1>6. CASE UNCHANGED <<masterVars, names>>
    BY <1>6 DEF masterVars
  <1>7. ASSUME MasterStep PROVE launch' = launch
    BY <1>7, MasterFrame
  <1>. QED
    BY <1>1, <1>2, <1>3, <1>4, <1>5, <1>6, <1>7, StepCases, KidLeaves DEF vars

(* The objects a master has mapped, and those a player has.                *)
LEMMA MappedObjects ==
  ASSUME IInv
  PROVE  /\ mpc \in InGame => mapped["state"] \in Launches
         /\ mpc \in InGame \union {"init_sync", "init_state"} => mapped["sync"] \in Launches
         /\ mapped["state"] # 0 => mapped["state"] \in Launches
         /\ \A k \in Kids : kid[k].pc \notin {"none", "exec", "exited"} => kid[k].state \in Launches
         /\ \A k \in Kids : Attached(k) => kid[k].sync \in Launches
  <1>1. mapped["state"] \in 0 .. launch /\ mapped["sync"] \in 0 .. launch /\ launch \in 0 .. MaxLaunches
    BY DEF IInv, Types, Segments, Objects
  <1>2. \A k \in Kids : kid[k].state \in 0 .. MaxLaunches /\ kid[k].sync \in 0 .. MaxLaunches
    BY DEF IInv, Types, KidStates, Objects
  <1>3. \A n \in 0 .. MaxLaunches : n # 0 => n \in Launches
    BY DEF Launches
  <1>. QED
    BY <1>1, <1>2, <1>3, Constants DEF IInv, Names, Attachments, Launches

(* The place and the pid a registering master is at.                       *)
LEMMA PlaceAt ==
  ASSUME IInv, mpc \in {"fork", "store", "clear", "register"}
  PROVE  i \in Slots /\ i \in Present /\ <<launch, i>> \in Kids /\ launch \in Launches
  <1>1. launch \in Launches
    BY DEF IInv, Types, MasterAt, Objects, Launches
  <1>2. i \in Present
    BY PresentSlots DEF IInv, Types, MasterAt, Present, Settling
  <1>. QED
    BY <1>1, <1>2, PresentSlots DEF IInv, Types, Kids

LEMMA SizesTyped ==
  ASSUME IInv
  PROVE  Width \in 0 .. UShort - 1 /\ Height \in 0 .. UShort - 1
  <1>1. params.value["w"] \in Int /\ params.value["h"] \in Int
    BY DEF IInv, Types, Parameters, NumberFlags
  <1>. QED
    BY <1>1, ModRange, Constants DEF Width, Height

(* What the master writes to the game, and that it writes to its own only. *)
Writes ==
  \/ InitState \/ StorePid \/ Clear \/ Register \/ Place \/ GameEnd
  \/ \E p \in Present : Disconnect(p)

LEMMA StateWritten == [Next]_vars => Writes \/ UNCHANGED state
  <1> SUFFICES ASSUME [Next]_vars PROVE Writes \/ UNCHANGED state
    OBVIOUS
  <1>1. CASE \E l \in CommandLines : StartMaster(l)
    BY <1>1 DEF StartMaster
  <1>2. CASE MasterStep
    BY <1>2, MasterFrame DEF Writes
  <1>3. CASE Die
    BY <1>3 DEF Die
  <1>4. CASE \E k \in Kids : KidStep(k) \/ KidDies(k)
    BY <1>4, KidLeaves
  <1>5. CASE UNCHANGED vars
    BY <1>5 DEF vars
  <1>. QED
    BY <1>1, <1>2, <1>3, <1>4, <1>5, StepCases

LEMMA OwnWritten ==
  ASSUME IInv, Writes
  PROVE  /\ mapped["state"] \in Launches /\ mapped' = mapped
         /\ state' \in [Launches -> States]
         /\ \A o \in Launches \ {mapped["state"]} : state'[o] = state[o]
         /\ InitState => /\ Own'.width = Width /\ Own'.height = Height
                         /\ Own'.players_count = params.players
                         /\ Own'.ended = FALSE /\ Own'.placed = FALSE
                         /\ Own'.player_id = Own.player_id /\ Own'.is_blocked = Own.is_blocked
         /\ ~InitState => /\ Own'.width = Own.width /\ Own'.height = Own.height
                          /\ Own'.players_count = Own.players_count
         /\ StorePid \/ Register => Own' = [Own EXCEPT !.player_id[i] = <<launch, i>>]
         /\ Clear => Own' = [Own EXCEPT !.player_id[i] = NoPid, !.is_blocked[i] = FALSE]
         /\ Place => Own' = [Own EXCEPT !.placed = TRUE]
         /\ GameEnd => Own' = [Own EXCEPT !.ended = TRUE]
         /\ \A p \in Present : Disconnect(p) => Own' = [Own EXCEPT !.is_blocked[p] = TRUE]
  <1>. DEFINE o == mapped["state"]
  <1>1. \/ InitState \/ StorePid \/ Clear \/ Register \/ Place \/ GameEnd
        \/ \E p \in Present : Disconnect(p)
    BY DEF Writes
  <1>2. o \in Launches
    BY <1>1, MappedObjects DEF InitState, StorePid, Clear, Register, Place, GameEnd, Disconnect, Goes,
       InGame, Settling, Settled
  <1>3. mapped' = mapped
    BY <1>1 DEF InitState, StorePid, Clear, Register, Place, GameEnd, Disconnect, masterVars
  <1>4. state \in [Launches -> States] /\ Own \in States
    BY <1>2 DEF IInv, Types, Own
  <1>. HIDE DEF o
  <1>5. ASSUME NEW new \in States, state' = [state EXCEPT ![o] = new]
        PROVE  /\ state' \in [Launches -> States] /\ Own' = new
               /\ \A q \in Launches \ {o} : state'[q] = state[q]
    BY <1>2, <1>3, <1>4, <1>5 DEF Own, o
  <1>6. CASE InitState
    <2>. DEFINE new == [Own EXCEPT !.width = Width, !.height = Height, !.players_count = params.players,
                                   !.ended = FALSE, !.placed = FALSE]
    <2>1. state' = [state EXCEPT ![o] = new]
      BY <1>6 DEF InitState, o, Own
    <2>2. new \in States
      BY <1>4, SizesTyped, PresentSlots DEF States, IInv, Types
    <2>3. /\ new.width = Width /\ new.height = Height /\ new.players_count = params.players
          /\ new.ended = FALSE /\ new.placed = FALSE
          /\ new.player_id = Own.player_id /\ new.is_blocked = Own.is_blocked
      BY <1>4 DEF States
    <2>. HIDE DEF new
    <2>4. Own' = new
      BY <1>5, <2>1, <2>2
    <2>5. ~StorePid /\ ~Register /\ ~Clear /\ ~Place /\ ~GameEnd /\ ~\E p \in Present : Disconnect(p)
      BY <1>6, Where
    <2>. QED
      BY <1>2, <1>3, <1>5, <1>6, <2>1, <2>2, <2>3, <2>4, <2>5 DEF o
  <1>7. CASE StorePid \/ Register
    <2>1. i \in Slots /\ <<launch, i>> \in Pids
      BY <1>7, PlaceAt DEF StorePid, Register, Goes, Pids
    <2>. DEFINE new == [Own EXCEPT !.player_id[i] = <<launch, i>>]
    <2>2. state' = [state EXCEPT ![o] = new]
      BY <1>7 DEF StorePid, Register, SetPlayerId, o, Own
    <2>3. new \in States /\ new.width = Own.width /\ new.height = Own.height
          /\ new.players_count = Own.players_count
      BY <1>4, <2>1 DEF States
    <2>. HIDE DEF new
    <2>4. Own' = new
      BY <1>5, <2>2, <2>3
    <2>5. ~InitState /\ ~Clear /\ ~Place /\ ~GameEnd /\ ~\E p \in Present : Disconnect(p)
      BY <1>7, Where
    <2>. QED
      BY <1>2, <1>3, <1>5, <1>7, <2>2, <2>3, <2>4, <2>5 DEF o, new
  <1>8. CASE Clear
    <2>1. i \in Slots /\ NoPid \in Pids
      BY <1>8, PlaceAt DEF Clear, Goes, Pids
    <2>. DEFINE new == [Own EXCEPT !.player_id[i] = NoPid, !.is_blocked[i] = FALSE]
    <2>2. state' = [state EXCEPT ![o] = new]
      BY <1>8 DEF Clear, o, Own
    <2>3. new \in States /\ new.width = Own.width /\ new.height = Own.height
          /\ new.players_count = Own.players_count
      BY <1>4, <2>1 DEF States, Flags
    <2>. HIDE DEF new
    <2>4. Own' = new
      BY <1>5, <2>2, <2>3
    <2>5. ~InitState /\ ~StorePid /\ ~Register /\ ~Place /\ ~GameEnd /\ ~\E p \in Present : Disconnect(p)
      BY <1>8, Where
    <2>. QED
      BY <1>2, <1>3, <1>5, <1>8, <2>2, <2>3, <2>4, <2>5 DEF o, new
  <1>9. CASE Place \/ GameEnd
    <2>. DEFINE new == IF Place THEN [Own EXCEPT !.placed = TRUE] ELSE [Own EXCEPT !.ended = TRUE]
    <2>1. ~(Place /\ GameEnd)
      BY Where
    <2>2. state' = [state EXCEPT ![o] = new]
      BY <1>9, <2>1 DEF Place, GameEnd, o, Own
    <2>3. new \in States /\ new.width = Own.width /\ new.height = Own.height
          /\ new.players_count = Own.players_count
      BY <1>4 DEF States
    <2>4. Place => new = [Own EXCEPT !.placed = TRUE]
      OBVIOUS
    <2>5. GameEnd => new = [Own EXCEPT !.ended = TRUE]
      BY <2>1
    <2>. HIDE DEF new
    <2>6. Own' = new
      BY <1>5, <2>2, <2>3
    <2>7. ~InitState /\ ~Clear /\ ~StorePid /\ ~Register /\ ~\E p \in Present : Disconnect(p)
      BY <1>9, Where
    <2>. QED
      BY <1>2, <1>3, <1>5, <2>2, <2>3, <2>4, <2>5, <2>6, <2>7 DEF o
  <1>10. ASSUME NEW p \in Present, Disconnect(p)
         PROVE  /\ state' = [state EXCEPT ![o] = [Own EXCEPT !.is_blocked[p] = TRUE]]
                /\ [Own EXCEPT !.is_blocked[p] = TRUE] \in States
    <2>1. p \in Slots
      BY PresentSlots DEF IInv, Types
    <2>. QED
      BY <1>4, <1>10, <2>1 DEF Disconnect, o, Own, States, Flags
  <1>11. CASE \E p \in Present : Disconnect(p)
    <2>1. ~InitState /\ ~Clear /\ ~StorePid /\ ~Register /\ ~Place /\ ~GameEnd
      BY <1>11, Where
    <2>2. \A p \in Present : Disconnect(p) => Own' = [Own EXCEPT !.is_blocked[p] = TRUE]
      BY <1>5, <1>10
    <2>3. /\ state' \in [Launches -> States]
          /\ \A q \in Launches \ {o} : state'[q] = state[q]
      BY <1>5, <1>10, <1>11
    <2>5. Own'.width = Own.width /\ Own'.height = Own.height /\ Own'.players_count = Own.players_count
      <3>1. PICK p \in Present : Disconnect(p)
        BY <1>11
      <3>2. Own' = [Own EXCEPT !.is_blocked[p] = TRUE]
        BY <3>1, <2>2
      <3>. QED
        BY <1>4, <3>2 DEF States
    <2>. QED
      BY <1>2, <1>3, <2>1, <2>2, <2>3, <2>5 DEF o
  <1>. QED
    BY <1>1, <1>6, <1>7, <1>8, <1>9, <1>11

LEMMA StateTypes ==
  ASSUME IInv, [Next]_vars
  PROVE  state' \in [Launches -> States]
  <1>1. CASE state' = state
    BY <1>1 DEF IInv, Types
  <1>. QED
    BY <1>1, OwnWritten, StateWritten

LEMMA NoKidTyped ==
  NoKid \in KidStates /\ NoKid.text = Defaults.text /\ NoKid.pc = "none" /\ NoKid.looks = 0
  <1>1. Defaults.text \in [{"w", "h"} -> Texts]
    BY DefaultsTyped DEF Parameters
  <1>. HIDE DEF Defaults
  <1>2. 0 \in Objects /\ 0 \in Slots /\ 0 \in 0 .. MaxLooks /\ "none" \in KidPC /\ FALSE \in BOOLEAN
    BY Constants DEF Objects, Slots, KidPC
  <1>. QED
    BY <1>1, <1>2, Zenon DEF NoKid, KidStates

LEMMA ExitedTyped == Exited \in KidStates /\ Exited.pc = "exited"
  BY NoKidTyped DEF Exited, KidStates, KidPC

(* What a player does to itself, its pipe and its turns.                   *)
LEMMA KidMoves ==
  ASSUME IInv, NEW k \in Kids, KidStep(k) \/ KidDies(k)
  PROVE  /\ kid' \in [Kids -> KidStates] /\ \A j \in Kids \ {k} : kid'[j] = kid[j]
         /\ \/ AttachState(k) /\ kid'[k] = [kid[k] EXCEPT !.pc = "attach", !.state = names["state"]]
            \/ AttachSync(k) /\ kid'[k] = [kid[k] EXCEPT !.pc = "find", !.sync = names["sync"]]
            \/ FindPlayerIndex(k) /\ kid'[k] = [kid[k] EXCEPT !.pc = "first_turn", !.idx = k[2]]
            \/ FirstTurn(k) /\ kid'[k] = [kid[k] EXCEPT !.pc = "look"]
            \/ Look(k) /\ kid'[k] = [kid[k] EXCEPT !.pc = "send", !.looks = @ + 1,
                                                   !.early = ~state[kid[k].state].placed]
            \/ Send(k) /\ kid'[k] = [kid[k] EXCEPT !.pc = "next_turn"]
            \/ NextTurn(k) /\ kid'[k] = [kid[k] EXCEPT !.pc = "check"]
            \/ CheckEnded(k) /\ kid'[k] = [kid[k] EXCEPT !.pc = "look"] /\ ~state[kid[k].state].ended
            \/ kid'[k] = Exited /\ kid[k].pc # "none" /\ UNCHANGED <<turns, pipe>>
  <1> USE DEF IInv, Types
  <1>1. kid \in [Kids -> KidStates] /\ kid[k] \in KidStates
    OBVIOUS
  <1>2. names["state"] \in Objects /\ names["sync"] \in Objects
    <2>1. names["state"] \in 0 .. launch /\ names["sync"] \in 0 .. launch /\ launch \in 0 .. MaxLaunches
      BY DEF Segments, Objects
    <2>. QED
      BY <2>1, Constants DEF Objects
  <1>3. ASSUME NEW new \in KidStates, kid' = [kid EXCEPT ![k] = new]
        PROVE  kid' \in [Kids -> KidStates] /\ kid'[k] = new /\ \A j \in Kids \ {k} : kid'[j] = kid[j]
    BY <1>1, <1>3
  <1>4. k[2] \in Slots /\ k # NoPid
    BY KidNames
  <1>. HIDE DEF IInv, Types
  <1>5. CASE AttachState(k)
    <2>. DEFINE new == [kid[k] EXCEPT !.pc = "attach", !.state = names["state"]]
    <2>1. new \in KidStates /\ kid' = [kid EXCEPT ![k] = new]
      BY <1>1, <1>2, <1>5 DEF AttachState, KidStates, KidPC
    <2>. QED
      BY <1>3, <1>5, <2>1
  <1>6. CASE AttachSync(k)
    <2>. DEFINE new == [kid[k] EXCEPT !.pc = "find", !.sync = names["sync"]]
    <2>1. new \in KidStates /\ kid' = [kid EXCEPT ![k] = new]
      BY <1>1, <1>2, <1>6 DEF AttachSync, KidStates, KidPC
    <2>. QED
      BY <1>3, <1>6, <2>1
  <1>7. CASE FindPlayerIndex(k)
    <2>1. Found(k) # {} /\ kid[k].pc = "find"
      BY <1>7 DEF FindPlayerIndex
    <2>2. kid[k].state \in Launches
      BY <2>1, MappedObjects
    <2>3. Found(k) = {k[2]}
      BY <1>4, <2>1, <2>2 DEF Found, IInv, Places
    <2>4. Min({k[2]}) = k[2]
      BY <1>4, Constants DEF Min, Slots
    <2>. DEFINE new == [kid[k] EXCEPT !.pc = "first_turn", !.idx = k[2]]
    <2>5. new \in KidStates /\ kid' = [kid EXCEPT ![k] = new]
      BY <1>1, <1>4, <1>7, <2>3, <2>4 DEF FindPlayerIndex, KidStates, KidPC
    <2>. QED
      BY <1>3, <1>7, <2>5
  <1>8. CASE FirstTurn(k)
    <2>. DEFINE new == [kid[k] EXCEPT !.pc = "look"]
    <2>1. new \in KidStates /\ kid' = [kid EXCEPT ![k] = new]
      BY <1>1, <1>8 DEF FirstTurn, WaitTurn, KidGoes, KidStates, KidPC
    <2>. QED
      BY <1>3, <1>8, <2>1
  <1>9. CASE Look(k)
    <2>. DEFINE early == ~state[kid[k].state].placed
                new == [kid[k] EXCEPT !.pc = "send", !.looks = @ + 1, !.early = early]
    <2>1. early \in BOOLEAN
      BY Zenon
    <2>2. kid[k].looks + 1 \in 0 .. MaxLooks
      BY <1>1, <1>9, Constants DEF Look, KidStates
    <2>3. kid' = [kid EXCEPT ![k] = new]
      BY <1>1, <1>9 DEF Look
    <2>. HIDE DEF early
    <2>4. new \in KidStates
      BY <1>1, <2>1, <2>2 DEF KidStates, KidPC
    <2>. QED
      BY <1>3, <1>9, <2>3, <2>4 DEF early
  <1>10. CASE Send(k)
    <2>. DEFINE new == [kid[k] EXCEPT !.pc = "next_turn"]
    <2>1. new \in KidStates /\ kid' = [kid EXCEPT ![k] = new]
      BY <1>1, <1>10 DEF Send, KidGoes, KidStates, KidPC
    <2>. QED
      BY <1>3, <1>10, <2>1
  <1>11. CASE NextTurn(k)
    <2>. DEFINE new == [kid[k] EXCEPT !.pc = "check"]
    <2>1. new \in KidStates /\ kid' = [kid EXCEPT ![k] = new]
      BY <1>1, <1>11 DEF NextTurn, WaitTurn, KidGoes, KidStates, KidPC
    <2>. QED
      BY <1>3, <1>11, <2>1
  <1>12. CASE CheckEnded(k) /\ ~state[kid[k].state].ended
    <2>. DEFINE new == [kid[k] EXCEPT !.pc = "look"]
    <2>1. new \in KidStates /\ kid' = [kid EXCEPT ![k] = new]
      BY <1>1, <1>12 DEF CheckEnded, KidGoes, KidStates, KidPC
    <2>. QED
      BY <1>3, <1>12, <2>1
  <1>13. ASSUME \/ CannotAttach(k) \/ NotFound(k) \/ GiveUp(k) \/ SendToNobody(k) \/ KidDies(k)
                \/ CheckEnded(k) /\ state[kid[k].state].ended
         PROVE  kid' = [kid EXCEPT ![k] = Exited] /\ kid[k].pc # "none" /\ UNCHANGED <<turns, pipe>>
    BY <1>13 DEF CannotAttach, NotFound, GiveUp, SendToNobody, KidDies, CheckEnded, KidExits, KidOnly
  <1>14. Exited \in KidStates
    BY ExitedTyped
  <1>15. CASE \/ CannotAttach(k) \/ NotFound(k) \/ GiveUp(k) \/ SendToNobody(k) \/ KidDies(k)
              \/ CheckEnded(k) /\ state[kid[k].state].ended
    BY <1>3, <1>13, <1>14, <1>15
  <1>. QED
    BY <1>5, <1>6, <1>7, <1>8, <1>9, <1>10, <1>11, <1>12, <1>15, Zenon DEF KidStep

(* Only Fork and a player's own step change a player.                      *)
LEMMA KidChanges ==
  ASSUME IInv, [Next]_vars, NEW k \in Kids
  PROVE  Fork \/ KidStep(k) \/ KidDies(k) \/ kid'[k] = kid[k]
  <1>1. CASE \E l \in CommandLines : StartMaster(l)
    BY <1>1 DEF StartMaster
  <1>2. CASE MasterStep
    BY <1>2, MasterFrame
  <1>3. CASE Die
    BY <1>3 DEF Die
  <1>4. CASE \E j \in Kids : KidStep(j) \/ KidDies(j)
    <2>1. PICK j \in Kids : KidStep(j) \/ KidDies(j)
      BY <1>4
    <2>2. \A h \in Kids \ {j} : kid'[h] = kid[h]
      BY <2>1, KidMoves
    <2>. QED
      BY <2>1, <2>2
  <1>5. CASE UNCHANGED vars
    BY <1>5 DEF vars
  <1>. QED
    BY <1>1, <1>2, <1>3, <1>4, <1>5, StepCases

(* The turns a step gives or takes.                                        *)
Grants == InitSync \/ GameEnd \/ \E p \in Present : Serve(p)

LEMMA MasterTurns ==
  ASSUME IInv, Grants
  PROVE  /\ turns' \in [Launches -> [Slots -> Nat]]
         /\ mapped["sync"] \in Launches /\ mapped' = mapped
         /\ \A o \in Launches \ {mapped["sync"]} : turns'[o] = turns[o]
         /\ InitSync => \A p \in Slots : turns'[mapped["sync"]][p] = 1
         /\ GameEnd => \A p \in Slots : turns'[mapped["sync"]][p]
                                          = turns[mapped["sync"]][p] + IF p \in Present THEN 1 ELSE 0
         /\ \A q \in Present : Serve(q) =>
              \A p \in Slots : turns'[mapped["sync"]][p]
                                 = turns[mapped["sync"]][p] + IF p = q THEN 1 ELSE 0
  <1>. DEFINE o == mapped["sync"]
  <1>1. InitSync \/ GameEnd \/ \E p \in Present : Serve(p)
    BY DEF Grants
  <1>2. o \in Launches
    BY <1>1, Where, MappedObjects DEF InGame, Settled
  <1>3. mapped' = mapped
    BY <1>1 DEF InitSync, GameEnd, Serve, masterVars
  <1>4. turns \in [Launches -> [Slots -> Nat]] /\ turns[o] \in [Slots -> Nat]
    BY <1>2 DEF IInv, Types
  <1>. HIDE DEF o
  <1>5. ASSUME NEW new \in [Slots -> Nat], turns' = [turns EXCEPT ![o] = new]
        PROVE  /\ turns' \in [Launches -> [Slots -> Nat]] /\ turns'[o] = new
               /\ \A q \in Launches \ {o} : turns'[q] = turns[q]
    BY <1>2, <1>4, <1>5
  <1>6. CASE InitSync
    <2>. DEFINE new == [p \in Slots |-> 1]
    <2>1. turns' = [turns EXCEPT ![o] = new] /\ new \in [Slots -> Nat]
      BY <1>6 DEF InitSync, o
    <2>2. ~GameEnd /\ ~\E p \in Present : Serve(p)
      BY <1>6, Where
    <2>3. turns'[o] = new
      BY <1>5, <2>1
    <2>. QED
      BY <1>2, <1>3, <1>5, <2>1, <2>2, <2>3 DEF o
  <1>7. ASSUME NEW ps, Grant(ps)
        PROVE  /\ turns' \in [Launches -> [Slots -> Nat]]
               /\ \A q \in Launches \ {o} : turns'[q] = turns[q]
               /\ \A p \in Slots : turns'[o][p] = turns[o][p] + IF p \in ps THEN 1 ELSE 0
    <2>. DEFINE new == [p \in Slots |-> turns[o][p] + IF p \in ps THEN 1 ELSE 0]
    <2>1. turns' = [turns EXCEPT ![o] = new] /\ new \in [Slots -> Nat]
      BY <1>4, <1>7 DEF Grant, o
    <2>2. turns'[o] = new
      BY <1>5, <2>1
    <2>. QED
      BY <1>5, <2>1, <2>2
  <1>8. CASE GameEnd
    <2>1. Grant(Present)
      BY <1>8 DEF GameEnd
    <2>2. ~InitSync /\ ~\E p \in Present : Serve(p)
      BY <1>8, Where
    <2>. QED
      BY <1>2, <1>3, <1>7, <2>1, <2>2 DEF o
  <1>9. CASE \E q \in Present : Serve(q)
    <2>1. ~InitSync /\ ~GameEnd
      BY <1>9, Where
    <2>2. ASSUME NEW q \in Present, Serve(q)
          PROVE  \A p \in Slots : turns'[o][p] = turns[o][p] + IF p = q THEN 1 ELSE 0
      <3>1. Grant({q})
        BY <2>2 DEF Serve
      <3>2. \A p \in Slots : turns'[o][p] = turns[o][p] + IF p \in {q} THEN 1 ELSE 0
        BY <1>7, <3>1
      <3>. QED
        BY <3>2
    <2>3. PICK q \in Present : Grant({q})
      BY <1>9 DEF Serve
    <2>4. turns' \in [Launches -> [Slots -> Nat]] /\ \A r \in Launches \ {o} : turns'[r] = turns[r]
      BY <1>7, <2>3
    <2>. QED
      BY <1>2, <1>3, <2>1, <2>2, <2>4 DEF o
  <1>. QED
    BY <1>1, <1>6, <1>8, <1>9

Waits(k) == FirstTurn(k) \/ NextTurn(k)

LEMMA KidTurns ==
  ASSUME IInv, NEW k \in Kids, KidStep(k) \/ KidDies(k)
  PROVE  /\ turns' \in [Launches -> [Slots -> Nat]]
         /\ \A o \in Launches : \A p \in Slots : turns'[o][p] <= turns[o][p]
         /\ ~Waits(k) => UNCHANGED turns
         /\ Waits(k) => /\ kid[k].sync \in Launches /\ turns[kid[k].sync][k[2]] > 0
                        /\ turns'[kid[k].sync][k[2]] = turns[kid[k].sync][k[2]] - 1
                        /\ \A o \in Launches : \A p \in Slots :
                             o # kid[k].sync \/ p # k[2] => turns'[o][p] = turns[o][p]
  <1>1. turns \in [Launches -> [Slots -> Nat]]
    BY DEF IInv, Types
  <1>2. CASE Waits(k)
    <2>1. Attached(k) /\ kid[k].pc # "find"
      BY <1>2 DEF Waits, FirstTurn, NextTurn, WaitTurn, KidGoes, Attached
    <2>. DEFINE s == kid[k].sync
                x == k[2]
    <2>2. s \in Launches /\ kid[k].idx = x /\ x \in Slots
      BY <2>1, MappedObjects, KidNames DEF IInv, Places
    <2>3. turns[s][x] > 0 /\ turns' = [turns EXCEPT ![s][x] = turns[s][x] - 1]
      BY <1>2, <2>2 DEF Waits, FirstTurn, NextTurn, WaitTurn
    <2>. HIDE DEF s, x
    <2>4. turns[s] \in [Slots -> Nat] /\ turns[s][x] - 1 \in Nat
      BY <1>1, <2>2, <2>3
    <2>5. /\ turns' \in [Launches -> [Slots -> Nat]] /\ turns'[s][x] = turns[s][x] - 1
          /\ \A o \in Launches : \A p \in Slots : o # s \/ p # x => turns'[o][p] = turns[o][p]
      BY <1>1, <2>2, <2>3, <2>4
    <2>6. \A o \in Launches : \A p \in Slots : turns'[o][p] <= turns[o][p]
      BY <1>1, <2>2, <2>4, <2>5
    <2>. QED
      BY <1>2, <2>2, <2>3, <2>5, <2>6 DEF s, x
  <1>3. CASE ~Waits(k)
    <2>1. UNCHANGED turns
      BY <1>3 DEF KidStep, KidDies, Waits, KidOnly, AttachState, AttachSync, CannotAttach, FindPlayerIndex, NotFound,
         Look, GiveUp, Send, SendToNobody, CheckEnded
    <2>. QED
      BY <1>1, <1>3, <2>1
  <1>. QED
    BY <1>2, <1>3

(* Only a player that still has a reader adds to its pipe.                 *)
LEMMA KidPipes ==
  ASSUME IInv, NEW k \in Kids, KidStep(k) \/ KidDies(k)
  PROVE  /\ pipe' \in [Kids -> Nat]
         /\ \A j \in Kids \ {k} : pipe'[j] = pipe[j]
         /\ ~Send(k) => UNCHANGED pipe
         /\ Send(k) => pipe'[k] = pipe[k] + 1 /\ PipeOpen(k)
  <1>1. pipe \in [Kids -> Nat]
    BY DEF IInv, Types
  <1>2. CASE Send(k)
    BY <1>1, <1>2 DEF Send
  <1>3. CASE ~Send(k)
    <2>1. UNCHANGED pipe
      BY <1>3 DEF KidStep, KidDies, KidOnly, WaitTurn, AttachState, AttachSync, CannotAttach, FindPlayerIndex, NotFound,
         FirstTurn, Look, GiveUp, SendToNobody, NextTurn, CheckEnded
    <2>. QED
      BY <1>1, <1>3, <2>1
  <1>. QED
    BY <1>2, <1>3

LEMMA MasterPipes ==
  ASSUME IInv, MasterStep
  PROVE  /\ pipe' \in [Kids -> Nat]
         /\ \A k \in Kids : pipe'[k] <= pipe[k]
         /\ UnlinkSync => pipe' = [k \in Kids |-> 0]
         /\ \A p \in Present : Serve(p) =>
              /\ <<launch, p>> \in Kids
              /\ pipe[<<launch, p>>] > 0 /\ pipe'[<<launch, p>>] = pipe[<<launch, p>>] - 1
              /\ \A k \in Kids \ {<<launch, p>>} : pipe'[k] = pipe[k]
  <1>1. pipe \in [Kids -> Nat]
    BY DEF IInv, Types
  <1>2. ASSUME NEW p \in Present, Serve(p)
        PROVE  /\ pipe' \in [Kids -> Nat] /\ \A k \in Kids : pipe'[k] <= pipe[k] /\ ~UnlinkSync
               /\ <<launch, p>> \in Kids
               /\ pipe[<<launch, p>>] > 0 /\ pipe'[<<launch, p>>] = pipe[<<launch, p>>] - 1
               /\ \A k \in Kids \ {<<launch, p>>} : pipe'[k] = pipe[k]
    <2>. DEFINE k == <<launch, p>>
    <2>1. launch \in Launches /\ p \in Slots
      BY <1>2, Where, PresentSlots DEF IInv, Types, MasterAt, Objects, Launches
    <2>2. k \in Kids
      BY <2>1 DEF Kids
    <2>3. pipe[k] > 0 /\ pipe' = [pipe EXCEPT ![k] = pipe[k] - 1] /\ ~UnlinkSync
      BY <1>2, Where DEF Serve
    <2>. HIDE DEF k
    <2>4. pipe' \in [Kids -> Nat] /\ pipe'[k] = pipe[k] - 1 /\ \A j \in Kids \ {k} : pipe'[j] = pipe[j]
      BY <1>1, <2>2, <2>3
    <2>5. \A j \in Kids : pipe'[j] <= pipe[j]
      BY <1>1, <2>2, <2>4
    <2>. QED
      BY <2>2, <2>3, <2>4, <2>5 DEF k
  <1>3. CASE UnlinkSync
    <2>1. pipe' = [k \in Kids |-> 0] /\ ~\E p \in Present : Serve(p)
      BY <1>3, Where DEF UnlinkSync
    <2>. QED
      BY <1>1, <2>1
  <1>4. CASE UNCHANGED pipe /\ ~UnlinkSync /\ ~\E p \in Present : Serve(p)
    BY <1>1, <1>4
  <1>5. CASE \E p \in Present : Serve(p)
    BY <1>2, <1>5
  <1>. QED
    BY <1>3, <1>4, <1>5, MasterFrame

(* The player a master forks.                                              *)
LEMMA Forked ==
  ASSUME IInv, Fork
  PROVE  /\ <<launch, i>> \in Kids /\ kid' \in [Kids -> KidStates]
         /\ kid'[<<launch, i>>] = [NoKid EXCEPT !.pc = "exec", !.text = params.text]
         /\ \A k \in Kids \ {<<launch, i>>} : kid'[k] = kid[k]
  <1>. DEFINE k == <<launch, i>>
              new == [NoKid EXCEPT !.pc = "exec", !.text = params.text]
  <1>1. k \in Kids
    BY Where, PlaceAt
  <1>2. params.text \in [{"w", "h"} -> Texts]
    BY DEF IInv, Types, Parameters
  <1>3. new \in KidStates
    BY <1>2, NoKidTyped DEF KidStates, KidPC
  <1>4. kid' = [kid EXCEPT ![k] = new]
    BY DEF Fork
  <1>. HIDE DEF k, new
  <1>5. kid' \in [Kids -> KidStates] /\ kid'[k] = new /\ \A j \in Kids \ {k} : kid'[j] = kid[j]
    BY <1>1, <1>3, <1>4 DEF IInv, Types
  <1>. QED
    BY <1>1, <1>5 DEF k, new

LEMMA TypeStep ==
  ASSUME IInv, [Next]_vars
  PROVE  Types'
  <1>1. turns' \in [Launches -> [Slots -> Nat]]
    <2>1. CASE turns' = turns
      BY <2>1 DEF IInv, Types
    <2>. QED
      BY <2>1, StepCases, MasterFrame, MasterTurns, KidTurns DEF StartMaster, Die, Grants, vars
  <1>2. pipe' \in [Kids -> Nat]
    <2>1. CASE pipe' = pipe \/ Die
      BY <2>1 DEF IInv, Types, Die
    <2>. QED
      BY <2>1, StepCases, MasterPipes, KidPipes DEF StartMaster, vars
  <1>3. kid' \in [Kids -> KidStates]
    <2>1. CASE kid' = kid
      BY <2>1 DEF IInv, Types
    <2>. QED
      BY <2>1, StepCases, MasterFrame, Forked, KidMoves DEF StartMaster, Die, vars
  <1>. QED
    BY <1>1, <1>2, <1>3, MasterTypes, StateTypes DEF Types

-----------------------------------------------------------------------------
(* The master and its command line                                         *)

LEMMA MasterAtStep ==
  ASSUME IInv, [Next]_vars
  PROVE  MasterAt'
  <1>1. ASSUME NEW l \in CommandLines, StartMaster(l) PROVE MasterAt'
    BY <1>1 DEF StartMaster, MasterAt, Settling, Gone, IInv, Types, Objects
  <1>2. ASSUME Die PROVE MasterAt'
    BY <1>2 DEF Die, MasterAt, Settling, Gone, IInv, Types
  <1>3. ASSUME MasterStep PROVE MasterAt'
    <2>1. launch' = launch /\ launch # 0
      BY <1>3, MasterFrame, Where DEF IInv, MasterAt, MasterStep, ParseOption, EndParse
    <2>2. CASE ParseOption
      BY <2>1, <2>2 DEF ParseOption, MasterAt, Settling, Gone, IInv, Types
    <2>3. CASE EndParse
      BY <2>1, <2>3 DEF EndParse, MasterAt, Settling, Gone, IInv, Types, Accepted
    <2>4. CASE StorePid \/ Register
      <3>1. i \in Nat /\ params.players \in Nat /\ i < params.players /\ params' = params /\ Accepted(params)
        BY <2>4, Where, PresentSlots DEF StorePid, Register, IInv, Types, MasterAt, Settling, Gone
      <3>. QED
        BY <2>1, <2>4, <3>1, Where DEF StorePid, Register, Goes, MasterAt, Settling, Gone
    <2>5. CASE UNCHANGED <<i, params, line>> /\ ~(ParseOption \/ EndParse \/ StorePid \/ Register)
      <3>1. (Accepted(params) => params.players > 0) /\ Accepted(params') = Accepted(params)
        BY <2>5 DEF Accepted
      <3>2. \/ mpc = mpc' /\ mpc = "loop"
            \/ mpc \in {"init_state", "unlink_sync"} /\ mpc' \in Gone
            \/ mpc = "init_state" /\ mpc' = "fork"
            \/ mpc = "fork" /\ mpc' = "store"
            \/ mpc = "clear" /\ mpc' = "register"
            \/ /\ mpc \in {"open_state", "open_sync", "init_sync", "place"} \union Settled \union Unlinking
               /\ mpc' \in {"open_sync", "init_sync", "init_state"} \union Settled \union Unlinking
        BY <1>3, <2>5, Where DEF MasterStep, Settled, Unlinking, Gone
      <3>. QED
        BY <2>1, <2>5, <3>1, <3>2 DEF MasterAt, IInv, Settling, Gone, Settled, Unlinking
    <2>6. CASE OpenState
      BY <2>1, <2>6, Where DEF OpenState, MasterAt, IInv, Settling, Gone
    <2>. QED
      BY <1>3, <2>2, <2>3, <2>4, <2>5, <2>6, MasterFrame
  <1>4. CASE UNCHANGED masterVars
    BY <1>4 DEF masterVars, IInv, MasterAt, Accepted
  <1>. QED
    BY <1>1, <1>2, <1>3, <1>4, StepCases, KidLeaves DEF vars

(* What converting a number leaves.                                        *)
LEMMA Converted ==
  ASSUME NEW text \in Texts, InUnsignedRange(text)
  PROVE  /\ \E c \in -1 .. 1 : Strtoull(text) = text.number + c * ULong
         /\ Strtoull(text) % UShort = ParseUint16(text)
  <1>1. text.number \in Int /\ ULong \in Nat /\ ULong > 0 /\ UShort \in Nat /\ UShort > 0
        /\ ULong % (2 * UShort) = 0
    BY WidthAssumption DEF Texts
  <1>. DEFINE x == text.number
  <1>2. x \in Int /\ -ULong < x /\ x < ULong /\ Strtoull(text) = x % ULong
    BY <1>1 DEF InUnsignedRange, Strtoull
  <1>. HIDE DEF x
  <1>3. CASE x >= 0
    <2>1. x % ULong = x
      BY <1>1, <1>2, <1>3
    <2>. QED
      BY <1>1, <1>2, <2>1 DEF ParseUint16, x
  <1>4. CASE x < 0
    <2>1. x = (-1) * ULong + (x + ULong) /\ x + ULong \in 0 .. ULong - 1
      BY <1>1, <1>2, <1>4
    <2>2. x % ULong = x + 1 * ULong
      BY <1>1, <2>1, ModUnique
    <2>3. (x % ULong) % UShort = x % UShort
      BY <1>1, <1>2, ModMod
    <2>. QED
      BY <1>2, <2>2, <2>3 DEF ParseUint16, x
  <1>. QED
    BY <1>2, <1>3, <1>4

LEMMA DefaultSizes ==
  \A f \in {"w", "h"} : Defaults.value[f] % UShort = ParseUint16(Defaults.text[f])
  BY Constants DEF Defaults, NumberFlags, ParseUint16, Text

LEMMA SameSizeStep ==
  ASSUME IInv, [Next]_vars
  PROVE  SameSize'
  <1>1. CASE params' = Defaults
    BY <1>1, DefaultSizes DEF SameSize
  <1>2. CASE params' = params
    BY <1>2 DEF SameSize, IInv
  <1>3. CASE ParseOption
    <2>. DEFINE opt == line[i + 1]
    <2>1. /\ opt \in Options /\ params \in Parameters /\ params.status = {}
          /\ params' = ParseArgument(params, opt)
      BY <1>3 DEF ParseOption, IInv, Types
    <2>2. \A f \in {"w", "h"} : params.value[f] % UShort = ParseUint16(params.text[f])
      BY <2>1 DEF IInv, SameSize
    <2>. HIDE DEF opt
    <2>3. CASE opt.flag \in NumberFlags
      <3>1. params' = ParseInteger(params, opt) /\ opt.text \in Texts
        BY <2>1, <2>3, ArgumentCases DEF Options
      <3>2. /\ params'.value = [params.value EXCEPT ![opt.flag] = Strtoull(opt.text)]
            /\ params'.status = params.status \union IntegerErrors(opt.text)
            /\ params'.text = IF opt.flag \in DOMAIN params.text
                                THEN [params.text EXCEPT ![opt.flag] = opt.text] ELSE params.text
        BY <2>1, <3>1 DEF ParseInteger, Parameters
      <3>3. params'.status = {} => InUnsignedRange(opt.text)
        BY <3>2 DEF IntegerErrors
      <3>4. params.text \in [{"w", "h"} -> Texts] /\ params.value \in [NumberFlags -> Int]
        BY <2>1 DEF Parameters
      <3>5. params'.status = {} => Strtoull(opt.text) % UShort = ParseUint16(opt.text)
        BY <3>1, <3>3, Converted
      <3>6. ASSUME params'.status = {}, NEW f \in {"w", "h"}
            PROVE  params'.value[f] % UShort = ParseUint16(params'.text[f])
        <4>1. CASE f = opt.flag
          BY <3>2, <3>4, <3>5, <3>6, <4>1 DEF NumberFlags
        <4>2. CASE f # opt.flag
          <5>1. params'.value[f] = params.value[f] /\ params'.text[f] = params.text[f]
            BY <3>2, <3>4, <4>2 DEF NumberFlags
          <5>. QED
            BY <5>1, <2>2
        <4>. QED
          BY <4>1, <4>2
      <3>. QED
        BY <3>6 DEF SameSize
    <2>4. CASE opt.flag \notin NumberFlags
      <3>1. params'.value = params.value /\ params'.text = params.text
        <4>1. \/ params' = [params EXCEPT !.view = TRUE]
              \/ params' = [params EXCEPT !.players = @ + 1]
              \/ \E s : params' = [params EXCEPT !.status = s]
          BY <2>1, <2>4, ArgumentCases DEF AddPlayer
        <4>. QED
          BY <2>1, <4>1 DEF Parameters
      <3>. QED
        BY <2>2, <3>1 DEF SameSize
    <2>. QED
      BY <2>3, <2>4
  <1>. QED
    BY <1>1, <1>2, <1>3, StepCases, MasterFrame, KidLeaves DEF StartMaster, Die, masterVars, vars

LEMMA AskedOnce ==
  ASSUME IInv, mpc = "parse"
  PROVE  /\ \A m \in Nat : IsFiniteSet(PlayersAsked(m)) /\ Cardinality(PlayersAsked(m)) \in Nat
         /\ Cardinality(PlayersAsked(0)) = 0
         /\ line[i + 1].flag = "p" =>
              Cardinality(PlayersAsked(i + 1)) = Cardinality(PlayersAsked(i)) + 1
         /\ line[i + 1].flag # "p" => PlayersAsked(i + 1) = PlayersAsked(i)
         /\ i < Len(line) => Cardinality(PlayersAsked(i + 1)) <= Cardinality(PlayersAsked(Len(line)))
  <1>1. i \in Nat /\ Len(line) \in Nat
    BY DEF IInv, Types
  <1>2. ASSUME NEW m \in Nat PROVE IsFiniteSet(PlayersAsked(m)) /\ Cardinality(PlayersAsked(m)) \in Nat
    <2>1. IsFiniteSet(1 .. m)
      BY FS_Interval
    <2>2. PlayersAsked(m) \subseteq 1 .. m
      BY DEF PlayersAsked
    <2>3. IsFiniteSet(PlayersAsked(m))
      BY <2>1, <2>2, FS_Subset
    <2>. QED
      BY <2>3, FS_CardinalityType
  <1>3. Cardinality(PlayersAsked(0)) = 0
    <2>1. PlayersAsked(0) = {}
      BY DEF PlayersAsked
    <2>. QED
      BY <2>1, FS_EmptySet
  <1>4. ASSUME line[i + 1].flag = "p"
        PROVE  Cardinality(PlayersAsked(i + 1)) = Cardinality(PlayersAsked(i)) + 1
    <2>1. PlayersAsked(i + 1) = PlayersAsked(i) \union {i + 1} /\ i + 1 \notin PlayersAsked(i)
      BY <1>1, <1>4 DEF PlayersAsked
    <2>2. IsFiniteSet(PlayersAsked(i))
      BY <1>1, <1>2
    <2>. QED
      BY <2>1, <2>2, FS_AddElement
  <1>5. line[i + 1].flag # "p" => PlayersAsked(i + 1) = PlayersAsked(i)
    BY <1>1 DEF PlayersAsked
  <1>6. ASSUME i < Len(line)
        PROVE  Cardinality(PlayersAsked(i + 1)) <= Cardinality(PlayersAsked(Len(line)))
    <2>1. PlayersAsked(i + 1) \subseteq PlayersAsked(Len(line))
      BY <1>1, <1>6 DEF PlayersAsked
    <2>2. IsFiniteSet(PlayersAsked(Len(line)))
      BY <1>1, <1>2
    <2>. QED
      BY <2>1, <2>2, FS_Subset
  <1>. QED
    BY <1>2, <1>3, <1>4, <1>5, <1>6

(* What one option leaves of those before it.                              *)
LEMMA OptionRead ==
  ASSUME IInv, ParseOption
  PROVE  ReadSoFar'
  <1>. DEFINE opt == line[i + 1]
  <1>1. /\ i \in Nat /\ i < Len(line) /\ Len(line) \in Nat /\ i + 1 \in 1 .. Len(line)
        /\ params \in Parameters /\ params.status = {} /\ opt \in Options
        /\ params' = ParseArgument(params, opt) /\ i' = i + 1 /\ line' = line
        /\ mpc = "parse" /\ mpc' = "parse"
    BY DEF ParseOption, IInv, Types
  <1>2. /\ \A n \in 1 .. i : Good(n)
        /\ params.players = Cardinality(PlayersAsked(i))
        /\ \A f \in NumberFlags : (\E n \in 1 .. i : line[n].flag = f) =>
              \E n \in 1 .. i : LastOf(f, n) /\ Taken(f, n)
    BY <1>1 DEF IInv, ReadSoFar
  <1>3. 1 .. (i + 1) = (1 .. i) \union {i + 1}
    BY <1>1
  <1>4. ASSUME Good(i + 1), params'.players = Cardinality(PlayersAsked(i + 1)), params'.status = {},
               \A f \in NumberFlags : (\E n \in 1 .. i + 1 : line[n].flag = f) =>
                 \E n \in 1 .. i + 1 : LastOf(f, n)' /\ Taken(f, n)'
        PROVE  ReadSoFar'
    <2>1. \A n \in 1 .. i + 1 : Good(n)'
      BY <1>1, <1>2, <1>3, <1>4 DEF Good
    <2>2. \A m \in Nat : PlayersAsked(m)' = PlayersAsked(m)
      BY <1>1 DEF PlayersAsked
    <2>. QED
      BY <1>1, <1>4, <2>1, <2>2 DEF ReadSoFar
  <1>5. ASSUME params'.status # {}, ~Good(i + 1) \/ Cardinality(PlayersAsked(Len(line))) > MAX_PLAYERS
        PROVE  ReadSoFar'
    <2>1. PICK n \in 1 .. Len(line), m \in Nat : n = i + 1 /\ m = Len(line)
      BY <1>1
    <2>2. Good(n)' = Good(n) /\ PlayersAsked(m)' = PlayersAsked(m)
      BY <1>1 DEF Good, PlayersAsked
    <2>3. ~Good(n)' \/ Cardinality(PlayersAsked(m)') > MAX_PLAYERS
      BY <1>5, <2>1, <2>2
    <2>4. Cardinality(PlayersAsked(Len(line)))' = Cardinality(PlayersAsked(m)')
      BY <1>1, <2>1 DEF PlayersAsked
    <2>. QED
      BY <1>1, <1>5, <2>1, <2>3, <2>4 DEF ReadSoFar
  (* Options of another kind leave the values of this one.                 *)
  <1>6. ASSUME NEW f \in NumberFlags, opt.flag # f, \E n \in 1 .. i + 1 : line[n].flag = f,
               params'.value[f] = params.value[f], f \in {"w", "h"} => params'.text[f] = params.text[f]
        PROVE  \E n \in 1 .. i + 1 : LastOf(f, n)' /\ Taken(f, n)'
    <2>1. \E n \in 1 .. i : line[n].flag = f
      BY <1>3, <1>6
    <2>2. PICK n \in 1 .. i : LastOf(f, n) /\ Taken(f, n)
      BY <1>2, <2>1
    <2>3. LastOf(f, n)'
      BY <1>1, <1>6, <2>2 DEF LastOf
    <2>4. Taken(f, n)'
      BY <1>1, <1>6, <2>2 DEF Taken
    <2>. QED
      BY <1>3, <2>2, <2>3, <2>4
  <1>7. CASE opt.flag \in NumberFlags
    <2>1. params' = ParseInteger(params, opt) /\ opt.text \in Texts
      BY <1>1, <1>7, ArgumentCases DEF Options
    <2>2. params.text \in [{"w", "h"} -> Texts] /\ params.value \in [NumberFlags -> Int]
      BY <1>1 DEF Parameters
    <2>3. /\ params'.value = [params.value EXCEPT ![opt.flag] = Strtoull(opt.text)]
          /\ params'.status = IntegerErrors(opt.text) /\ params'.players = params.players
          /\ params'.text = IF opt.flag \in DOMAIN params.text
                              THEN [params.text EXCEPT ![opt.flag] = opt.text] ELSE params.text
      BY <1>1, <2>1 DEF ParseInteger, Parameters
    <2>4. opt.flag # "p" /\ opt.flag # "v"
      BY <1>7 DEF NumberFlags
    <2>5. Good(i + 1) <=> params'.status = {}
      BY <1>7, <2>3, <2>4 DEF Good, IntegerErrors
    <2>6. ASSUME params'.status = {}
          PROVE  ReadSoFar'
      <3>1. \E c \in -1 .. 1 : Strtoull(opt.text) = opt.text.number + c * ULong
        BY <1>7, <2>1, <2>4, <2>5, <2>6, Converted DEF Good
      <3>0. PICK g \in NumberFlags, j \in 1 .. i + 1 : g = opt.flag /\ j = i + 1
        BY <1>1, <1>7
      <3>2. LastOf(g, j)'
        BY <1>1, <3>0 DEF LastOf
      <3>3. params'.value[opt.flag] = Strtoull(opt.text)
        BY <1>7, <2>2, <2>3
      <3>4. opt.flag \in {"w", "h"} => params'.text[opt.flag] = opt.text
        BY <2>2, <2>3
      <3>5. Taken(g, j)'
        BY <1>1, <3>0, <3>1, <3>3, <3>4 DEF Taken
      <3>6. ASSUME NEW f \in NumberFlags, \E n \in 1 .. i + 1 : line[n].flag = f
            PROVE  \E n \in 1 .. i + 1 : LastOf(f, n)' /\ Taken(f, n)'
        <4>1. CASE f = opt.flag
          BY <3>0, <3>2, <3>5, <4>1
        <4>2. CASE f # opt.flag
          <5>1. params'.value[f] = params.value[f] /\ (f \in {"w", "h"} => params'.text[f] = params.text[f])
            BY <2>2, <2>3, <4>2
          <5>. QED
            BY <1>6, <3>6, <4>2, <5>1
        <4>. QED
          BY <4>1, <4>2
      <3>7. params'.players = Cardinality(PlayersAsked(i + 1))
        BY <1>1, <1>2, <2>3, <2>4, AskedOnce
      <3>. QED
        BY <1>4, <2>5, <2>6, <3>6, <3>7
    <2>. QED
      BY <1>5, <2>5, <2>6
  <1>8. ASSUME opt.flag \notin NumberFlags, params'.value = params.value, params'.text = params.text
        PROVE  \A f \in NumberFlags : (\E n \in 1 .. i + 1 : line[n].flag = f) =>
                 \E n \in 1 .. i + 1 : LastOf(f, n)' /\ Taken(f, n)'
    BY <1>6, <1>8
  <1>9. CASE opt.flag = "v"
    <2>1. params' = [params EXCEPT !.view = TRUE] /\ opt.flag \notin NumberFlags
      BY <1>1, <1>9, ArgumentCases DEF NumberFlags
    <2>2. /\ params'.value = params.value /\ params'.text = params.text /\ params'.status = {}
          /\ params'.players = params.players
      BY <1>1, <2>1 DEF Parameters
    <2>3. Good(i + 1) /\ params'.players = Cardinality(PlayersAsked(i + 1))
      BY <1>1, <1>2, <1>9, <2>2, AskedOnce DEF Good
    <2>. QED
      BY <1>4, <1>8, <2>1, <2>2, <2>3
  <1>10. CASE opt.flag = "p"
    <2>1. params' = AddPlayer(params) /\ opt.flag \notin NumberFlags
      BY <1>1, <1>10, ArgumentCases DEF NumberFlags
    <2>2. Cardinality(PlayersAsked(i + 1)) = params.players + 1
      BY <1>1, <1>2, <1>10, AskedOnce
    <2>3. CASE params.players = MAX_PLAYERS
      <3>1. params'.status # {}
        BY <1>1, <2>1, <2>3 DEF AddPlayer, Parameters
      <3>2. Cardinality(PlayersAsked(Len(line))) > MAX_PLAYERS
        <4>1. MAX_PLAYERS + 1 <= Cardinality(PlayersAsked(Len(line)))
          BY <1>1, <2>2, <2>3, AskedOnce
        <4>2. Cardinality(PlayersAsked(Len(line))) \in Nat
          BY <1>1, AskedOnce
        <4>. QED
          BY <4>1, <4>2, Constants
      <3>. QED
        BY <1>5, <3>1, <3>2
    <2>4. CASE params.players # MAX_PLAYERS
      <3>1. /\ params'.value = params.value /\ params'.text = params.text /\ params'.status = {}
            /\ params'.players = params.players + 1
        BY <1>1, <2>1, <2>4 DEF AddPlayer, Parameters
      <3>2. Good(i + 1)
        BY <1>10 DEF Good
      <3>. QED
        BY <1>4, <1>8, <2>1, <2>2, <3>1, <3>2
    <2>. QED
      BY <2>3, <2>4
  <1>11. CASE opt.flag \notin NumberFlags \union {"v", "p"}
    <2>1. params'.status # {}
      <3>1. params' = [params EXCEPT !.status = @ \union {"unknown_optional_flag"}]
        BY <1>1, <1>11, ArgumentCases
      <3>2. params'.status = params.status \union {"unknown_optional_flag"}
        BY <1>1, <3>1 DEF Parameters
      <3>. QED
        BY <3>2
    <2>2. ~Good(i + 1)
      BY <1>11 DEF Good
    <2>. QED
      BY <1>5, <2>1, <2>2
  <1>. QED
    BY <1>7, <1>9, <1>10, <1>11

LEMMA ReadSoFarStep ==
  ASSUME IInv, [Next]_vars
  PROVE  ReadSoFar'
  <1>1. ASSUME NEW l \in CommandLines, StartMaster(l) PROVE ReadSoFar'
    <2>1. /\ params' = Defaults /\ line' = l /\ i' = 0 /\ Defaults.status = {} /\ Defaults.players = 0
      BY <1>1, DefaultsTyped DEF StartMaster, Defaults
    <2>2. PlayersAsked(0)' = {} /\ Cardinality({}) = 0
      BY FS_EmptySet DEF PlayersAsked
    <2>. QED
      BY <2>1, <2>2 DEF ReadSoFar
  <1>2. CASE mpc' # "parse"
    BY <1>2 DEF ReadSoFar
  <1>3. CASE UNCHANGED masterVars
    BY <1>3 DEF masterVars, IInv, ReadSoFar, Good, PlayersAsked, LastOf, Taken
  <1>4. MasterStep => ParseOption \/ mpc' # "parse"
    BY Where DEF MasterStep, EndParse
  <1>. QED
    BY <1>1, <1>2, <1>3, <1>4, StepCases, OptionRead, KidLeaves DEF Die, vars

LEMMA ParsedStep ==
  ASSUME IInv, [Next]_vars
  PROVE  ParsedAsGiven'
  <1>1. CASE mpc' \notin {"open_state", "refused"}
    BY <1>1 DEF ParsedAsGiven
  <1>2. CASE UNCHANGED masterVars
    BY <1>2 DEF masterVars, IInv, ParsedAsGiven
  <1>3. CASE EndParse
    <2>. DEFINE Of(f) == {n \in DOMAIN line : line[n].flag = f}
                N == Len(line)
    <2>1. /\ line' = line /\ params' = params /\ mpc' = IF Accepted(params) THEN "open_state" ELSE "refused"
          /\ params.status # {} \/ i = N
          /\ mpc = "parse" /\ N \in Nat /\ DOMAIN line = 1 .. N /\ params.players \in 0 .. MAX_PLAYERS
      BY <1>3, PresentSlots DEF EndParse, IInv, Types
    <2>2. Of("p") = PlayersAsked(N)
      BY <2>1 DEF PlayersAsked
    <2>3. Cardinality(PlayersAsked(N)) \in Nat
      BY <2>1, AskedOnce
    <2>4. (mpc' = "open_state") <=> (\A n \in DOMAIN line : Good(n)) /\ Cardinality(Of("p")) \in 1 .. MAX_PLAYERS
      <3>. DEFINE asked == Cardinality(PlayersAsked(N))
                  fine == \A n \in 1 .. N : Good(n)
      <3>1. asked \in Nat /\ (mpc' = "open_state" <=> Accepted(params))
        BY <2>1, <2>3
      <3>2. params.status # {} => ~fine \/ asked > MAX_PLAYERS
        BY <2>1 DEF IInv, ReadSoFar
      <3>3. params.status = {} => fine /\ asked = params.players
        BY <2>1 DEF IInv, ReadSoFar
      <3>4. Accepted(params) <=> fine /\ asked \in 1 .. MAX_PLAYERS
        <4>. HIDE DEF asked, fine
        <4>. QED
          BY <2>1, <3>1, <3>2, <3>3, Constants DEF Accepted
      <3>5. fine <=> \A n \in DOMAIN line : Good(n)
        BY <2>1
      <3>6. asked = Cardinality(Of("p"))
        BY <2>2
      <3>. HIDE DEF asked, fine, Of
      <3>. QED
        BY <3>1, <3>4, <3>5, <3>6
    <2>5. ASSUME mpc' = "open_state"
          PROVE  /\ params.players = Cardinality(Of("p"))
                 /\ \A f \in NumberFlags : Of(f) # {} =>
                      \E n \in -1 .. 1 : params.value[f] = line[Max(Of(f))].text.number + n * ULong
                 /\ \A f \in {"w", "h"} : Of(f) # {} => params.text[f] = line[Max(Of(f))].text
      <3>1. params.status = {} /\ i = N
        BY <2>1, <2>5 DEF Accepted
      <3>2. /\ params.players = Cardinality(PlayersAsked(N))
            /\ \A f \in NumberFlags : (\E n \in 1 .. N : line[n].flag = f) =>
                 \E n \in 1 .. N : LastOf(f, n) /\ Taken(f, n)
        BY <2>1, <3>1 DEF IInv, ReadSoFar
      <3>3. ASSUME NEW f \in NumberFlags, Of(f) # {}
            PROVE  Taken(f, Max(Of(f)))
        <4>1. PICK n \in 1 .. N : LastOf(f, n) /\ Taken(f, n)
          BY <2>1, <3>2, <3>3
        <4>2. n \in Of(f) /\ \A m \in Of(f) : n >= m
          BY <2>1, <3>1, <4>1 DEF LastOf
        <4>3. \A m \in Of(f) : m \in Int
          BY <2>1
        <4>. HIDE DEF Of
        <4>4. \A x \in Of(f) : (\A m \in Of(f) : x >= m) => x = n
          BY <4>2, <4>3
        <4>5. Max(Of(f)) = n
          BY <4>2, <4>4 DEF Max
        <4>. QED
          BY <4>1, <4>5
      <3>4. Cardinality(Of("p")) = Cardinality(PlayersAsked(N)) /\ {"w", "h"} \subseteq NumberFlags
        BY <2>2 DEF NumberFlags
      <3>. HIDE DEF Of
      <3>. QED
        BY <3>2, <3>3, <3>4 DEF Taken
    <2>. HIDE DEF Of, N
    <2>. QED
      BY <2>1, <2>4, <2>5 DEF ParsedAsGiven, Good, Of
  <1>4. MasterStep => EndParse \/ mpc' \notin {"open_state", "refused"}
    BY Where DEF MasterStep, ParseOption
  <1>. QED
    BY <1>1, <1>2, <1>3, <1>4, StepCases, KidLeaves DEF StartMaster, Die, vars

-----------------------------------------------------------------------------
(* The segments                                                            *)

LEMMA NamesStep ==
  ASSUME IInv, [Next]_vars
  PROVE  Names'
  <1>1. CASE UNCHANGED <<masterVars, names>>
    BY <1>1 DEF masterVars, IInv, Names
  <1>2. CASE mpc' \in {"parse", "died", "open_state", "refused"}
    BY <1>2 DEF Names, InGame, Settling, Settled
  <1>3. ASSUME MasterStep PROVE Names'
    <2>0. /\ names \in [Segments -> 0 .. launch] /\ mapped \in [Segments -> 0 .. launch]
          /\ launch \in Nat /\ "state" \in Segments /\ "sync" \in Segments
      BY DEF IInv, Types, Objects, Segments
    <2>1. CASE OpenState
      <3>1. mapped'["state"] \in {0, names'["state"]} /\ mpc' = "open_sync"
        BY <2>0, <2>1, Where DEF OpenState, Open
      <3>. QED
        BY <3>1 DEF Names, InGame, Settling, Settled
    <2>2. CASE OpenSync
      <3>1. mpc = "open_sync" /\ mpc' = "init_sync"
        BY <2>2, Where
      <3>2. launch # 0
        BY <3>1 DEF IInv, MasterAt
      <3>3. names'["sync"] # 0 /\ mapped'["sync"] = names'["sync"]
        BY <2>0, <2>2, <3>2 DEF OpenSync, Open
      <3>4. names'["state"] = names["state"] /\ mapped'["state"] = mapped["state"]
        BY <2>0, <2>2 DEF OpenSync, Open
      <3>. QED
        BY <3>1, <3>3, <3>4 DEF Names, IInv, InGame, Settling, Settled
    <2>3. CASE InitState
      <3>1. mpc = "init_state" /\ mpc' = "fork" /\ mapped["state"] # 0 /\ UNCHANGED <<names, mapped>>
        BY <2>3, Where DEF InitState
      <3>. QED
        BY <3>1 DEF Names, IInv, InGame, Settling, Settled
    <2>4. CASE UnlinkState \/ UnlinkSync
      BY <2>0, <2>4, Where DEF UnlinkState, UnlinkSync, Names, IInv, InGame, Settling, Settled
    <2>5. CASE Segfault \/ EndParse \/ ParseOption
      BY <2>5, <1>2, Where DEF EndParse, ParseOption
    <2>6. CASE UNCHANGED <<names, mapped>> /\ ~(InitState \/ Segfault \/ EndParse \/ ParseOption \/ UnlinkSync \/ UnlinkState)
      <3>1. \/ mpc \in InGame /\ mpc' \in InGame
            \/ mpc = "init_sync" /\ mpc' = "init_state"
            \/ mpc = "reap" /\ mpc' = "unlink_state"
            \/ OpenState \/ OpenSync
        BY <1>3, <2>6, Where DEF MasterStep, InGame, Settling, Settled
      <3>. QED
        BY <2>1, <2>2, <2>6, <3>1 DEF Names, IInv, InGame, Settling, Settled
    <2>. QED
      BY <1>3, <2>1, <2>2, <2>3, <2>4, <2>5, <2>6, MasterFrame
  <1>. QED
    BY <1>1, <1>2, <1>3, StepCases, KidLeaves DEF StartMaster, Die, vars

-----------------------------------------------------------------------------
(* The players and what they are attached to                               *)

LEMMA KidAlive ==
  ASSUME NEW k \in Kids, KidStep(k) \/ KidDies(k)
  PROVE  kid[k].pc \notin {"none", "exited"}
  BY DEF KidStep, KidDies, KidGoes, KidExits, WaitTurn, AttachState, AttachSync, CannotAttach,
     FindPlayerIndex, NotFound, FirstTurn, Look, GiveUp, Send, SendToNobody, NextTurn, CheckEnded

(* The steps of a player, field by field.                                  *)
Keeps(k) == kid'[k].state = kid[k].state /\ kid'[k].sync = kid[k].sync /\ kid'[k].idx = kid[k].idx
KidWas(k, from, to) == kid[k].pc = from /\ kid'[k].pc = to /\ kid'[k].text = kid[k].text

LEMMA KidFields ==
  ASSUME IInv, NEW k \in Kids, KidStep(k) \/ KidDies(k)
  PROVE  \/ KidWas(k, "exec", "attach") /\ kid'[k].state = names["state"] /\ names["state"] # 0
            /\ kid'[k].looks = kid[k].looks
         \/ KidWas(k, "attach", "find") /\ kid'[k].state = kid[k].state /\ kid'[k].looks = kid[k].looks
            /\ kid'[k].sync = names["sync"] /\ names["sync"] # 0
         \/ KidWas(k, "find", "first_turn") /\ kid'[k].state = kid[k].state /\ kid'[k].looks = kid[k].looks
            /\ kid'[k].sync = kid[k].sync /\ kid'[k].idx = k[2]
         \/ FirstTurn(k) /\ KidWas(k, "first_turn", "look") /\ Keeps(k) /\ kid'[k].looks = kid[k].looks
         \/ KidWas(k, "look", "send") /\ Keeps(k) /\ kid'[k].looks = kid[k].looks + 1
            /\ kid'[k].early = ~state[kid[k].state].placed
         \/ Send(k) /\ KidWas(k, "send", "next_turn") /\ Keeps(k) /\ kid'[k].looks = kid[k].looks
         \/ NextTurn(k) /\ KidWas(k, "next_turn", "check") /\ Keeps(k) /\ kid'[k].looks = kid[k].looks
         \/ KidWas(k, "check", "look") /\ Keeps(k) /\ kid'[k].looks = kid[k].looks
            /\ ~state[kid[k].state].ended
         \/ kid'[k].pc = "exited"
  <1>1. kid[k] \in KidStates
    BY DEF IInv, Types
  <1>. USE <1>1 DEF KidWas, Keeps, KidStates
  <1>2. CASE AttachState(k) /\ kid'[k] = [kid[k] EXCEPT !.pc = "attach", !.state = names["state"]]
    <2>1. kid[k].pc = "exec" /\ names["state"] # 0
      BY <1>2 DEF AttachState
    <2>. QED
      BY <1>2, <2>1
  <1>3. CASE AttachSync(k) /\ kid'[k] = [kid[k] EXCEPT !.pc = "find", !.sync = names["sync"]]
    <2>1. kid[k].pc = "attach" /\ names["sync"] # 0
      BY <1>3 DEF AttachSync
    <2>. QED
      BY <1>3, <2>1
  <1>4. CASE FindPlayerIndex(k) /\ kid'[k] = [kid[k] EXCEPT !.pc = "first_turn", !.idx = k[2]]
    <2>1. kid[k].pc = "find"
      BY <1>4 DEF FindPlayerIndex
    <2>. QED
      BY <1>4, <2>1
  <1>5. CASE FirstTurn(k) /\ kid'[k] = [kid[k] EXCEPT !.pc = "look"]
    <2>1. kid[k].pc = "first_turn"
      BY <1>5 DEF FirstTurn, WaitTurn, KidGoes
    <2>. QED
      BY <1>5, <2>1
  <1>6. CASE Look(k) /\ kid'[k] = [kid[k] EXCEPT !.pc = "send", !.looks = @ + 1,
                                                   !.early = ~state[kid[k].state].placed]
    <2>1. kid[k].pc = "look"
      BY <1>6 DEF Look
    <2>. QED
      BY <1>6, <2>1
  <1>7. CASE Send(k) /\ kid'[k] = [kid[k] EXCEPT !.pc = "next_turn"]
    <2>1. kid[k].pc = "send"
      BY <1>7 DEF Send, KidGoes
    <2>. QED
      BY <1>7, <2>1
  <1>8. CASE NextTurn(k) /\ kid'[k] = [kid[k] EXCEPT !.pc = "check"]
    <2>1. kid[k].pc = "next_turn"
      BY <1>8 DEF NextTurn, WaitTurn, KidGoes
    <2>. QED
      BY <1>8, <2>1
  <1>9. CASE CheckEnded(k) /\ kid'[k] = [kid[k] EXCEPT !.pc = "look"] /\ ~state[kid[k].state].ended
    <2>1. kid[k].pc = "check"
      BY <1>9 DEF CheckEnded
    <2>. QED
      BY <1>9, <2>1
  <1>10. CASE kid'[k] = Exited
    BY <1>10, ExitedTyped
  <1>. QED
    BY <1>2, <1>3, <1>4, <1>5, <1>6, <1>7, <1>8, <1>9, <1>10, KidMoves

LEMMA ForksStep ==
  ASSUME IInv, [Next]_vars
  PROVE  Forks'
  <1>0. /\ \A k \in Kids : k[1] > launch => kid[k] = NoKid
        /\ \A k \in Kids : OwnKid(k) /\ Unforked(k[2]) => kid[k] = NoKid
        /\ mpc \in Unlinking \union {"ended"} =>
             \A k \in Kids : OwnKid(k) => kid[k].pc \in {"none", "exited"}
        /\ launch \in Nat /\ i \in Nat /\ params.players \in Nat
        /\ \A k \in Kids : k[1] \in Nat /\ k[2] \in Nat
    BY PresentSlots, KidNames, Constants DEF IInv, Types, Forks, Objects, Launches, Slots
  <1>1. ASSUME NEW l \in CommandLines, StartMaster(l) PROVE Forks'
    BY <1>0, <1>1 DEF StartMaster, Forks, OwnKid, Unforked, Unlinking
  <1>2. ASSUME Die PROVE Forks'
    BY <1>0, <1>2 DEF Die, Forks, OwnKid, Unforked, Unlinking, Starting, InGame, Settling, Settled
  <1>3. CASE UNCHANGED <<masterVars, kid>>
    BY <1>0, <1>3 DEF masterVars, Forks, OwnKid, Unforked, Unlinking
  <1>4. ASSUME NEW k \in Kids, KidStep(k) \/ KidDies(k) PROVE Forks'
    <2>1. kid[k].pc \notin {"none", "exited"} /\ kid[k] # NoKid
      BY <1>4, KidAlive, NoKidTyped
    <2>2. UNCHANGED masterVars /\ \A j \in Kids \ {k} : kid'[j] = kid[j]
      BY <1>4, KidLeaves, KidMoves
    <2>3. ~(k[1] > launch) /\ ~(OwnKid(k) /\ Unforked(k[2]))
          /\ (mpc \in Unlinking \union {"ended"} => ~OwnKid(k))
      BY <1>0, <2>1
    <2>4. \A j \in Kids : OwnKid(j)' = OwnKid(j) /\ Unforked(j[2])' = Unforked(j[2])
      BY <2>2 DEF masterVars, OwnKid, Unforked
    <2>. QED
      BY <1>0, <2>2, <2>3, <2>4 DEF masterVars, Forks
  <1>5. ASSUME MasterStep PROVE Forks'
    <2>1. launch' = launch /\ \A k \in Kids : OwnKid(k)' = OwnKid(k)
      BY <1>5, MasterFrame DEF OwnKid
    <2>2. CASE Fork
      <3>1. mpc = "fork" /\ mpc' = "store" /\ i' = i /\ params' = params
        BY <2>2, Where DEF Fork
      <3>2. \A k \in Kids : OwnKid(k) /\ Unforked(k[2])' => kid[k] = NoKid /\ k # <<launch, i>>
        BY <1>0, <3>1 DEF Unforked, OwnKid, Starting, InGame, Settling, Settled, Unlinking
      <3>3. \A k \in Kids : k[1] > launch => k # <<launch, i>>
        BY <1>0
      <3>. QED
        BY <1>0, <2>1, <2>2, <3>1, <3>2, <3>3, Forked DEF Forks, Unlinking
    <2>3. CASE UNCHANGED kid /\ ~Fork
      <3>1. \A k \in Kids : OwnKid(k) /\ Unforked(k[2])' => kid[k] = NoKid
        <4>1. CASE StorePid
          <5>1. /\ mpc = "store" /\ params' = params
                /\ \/ mpc' = "clear" /\ i + 1 = params.players
                   \/ mpc' = "fork" /\ i' = i + 1
            BY <4>1 DEF StorePid, Goes
          <5>. QED
            BY <1>0, <5>1 DEF Unforked, Starting, InGame, Settling, Settled, Unlinking
        <4>2. CASE InitState \/ EndParse \/ ParseOption \/ OpenState \/ OpenSync \/ InitSync
          BY <1>0, <4>2, Where DEF EndParse, ParseOption, Unforked, Starting, InGame, Settling, Settled, Unlinking
        <4>3. CASE Segfault \/ UnlinkSync
          BY <4>3, Where DEF Unforked, Starting, InGame, Settling, Settled, Unlinking
        <4>4. CASE ~(StorePid \/ InitState \/ EndParse \/ ParseOption \/ OpenState \/ OpenSync \/ InitSync
                     \/ Segfault \/ UnlinkSync)
          <5>1. params' = params
            BY <1>5, <4>4, MasterFrame
          <5>2. mpc \in (InGame \ {"fork", "store"}) \union Unlinking /\ mpc' \in (InGame \ {"fork", "store"}) \union Unlinking
            BY <1>5, <2>3, <4>4, Where DEF MasterStep, InGame, Settling, Settled, Unlinking
          <5>. QED
            BY <1>0, <5>1, <5>2 DEF Unforked, Starting, InGame, Settling, Settled, Unlinking
        <4>. QED
          BY <4>1, <4>2, <4>3, <4>4
      <3>2. mpc' \in Unlinking \union {"ended"} =>
              \A k \in Kids : OwnKid(k) => kid[k].pc \in {"none", "exited"}
        <4>1. mpc' \in Unlinking \union {"ended"} => Reap \/ mpc \in Unlinking
          <5>1. ~ParseOption \/ mpc' = "parse"
            BY DEF ParseOption
          <5>2. ~EndParse \/ mpc' \in {"open_state", "refused"}
            BY DEF EndParse
          <5>. QED
            BY <1>5, <5>1, <5>2, Where DEF MasterStep, Unlinking
        <4>2. ASSUME Reap, NEW k \in Kids, OwnKid(k) PROVE kid[k].pc \in {"none", "exited"}
          <5>1. k = <<launch, k[2]>>
            BY <4>2, KidNames DEF OwnKid
          <5>2. CASE k[2] \in Present
            BY <4>2, <5>1, <5>2 DEF Reap
          <5>3. CASE k[2] \notin Present
            <6>1. k[2] >= params.players
              BY <1>0, <5>3 DEF Present
            <6>2. Unforked(k[2])
              BY <4>2, <6>1, Where DEF Unforked, InGame, Settling, Settled
            <6>. QED
              BY <1>0, <4>2, <6>2, NoKidTyped
          <5>. QED
            BY <5>2, <5>3
        <4>. QED
          BY <1>0, <4>1, <4>2
      <3>. QED
        BY <1>0, <2>1, <2>3, <3>1, <3>2 DEF Forks
    <2>. QED
      BY <1>5, <2>2, <2>3, MasterFrame
  <1>. QED
    BY <1>1, <1>2, <1>3, <1>4, <1>5, StepCases DEF vars

(* Before the first fork a master has no player.                           *)
LEMMA NoneYet ==
  ASSUME IInv, mpc \in {"init_sync", "init_state"}
  PROVE  \A k \in Kids : OwnKid(k) => kid[k] = NoKid
  BY DEF IInv, Forks, Unforked, Starting

(* A game is entered by InitState, and goes on with the same parameters    *)
(* and the same segments.                                                  *)
LEMMA InGameStep ==
  ASSUME [Next]_vars, mpc' \in InGame
  PROVE  \/ InitState /\ UNCHANGED <<launch, params, mapped, names, haunted, turns, pipe, kid>>
         \/ mpc \in InGame /\ UNCHANGED <<launch, params, mapped, names, haunted>>
  <1>1. ASSUME MasterStep
        PROVE  \/ InitState
               \/ mpc \in InGame /\ ~(ParseOption \/ EndParse \/ OpenState \/ OpenSync \/ InitSync \/ UnlinkState
                                      \/ UnlinkSync)
    BY <1>1, Where DEF MasterStep, EndParse, ParseOption, InGame, Settling, Settled
  <1>2. InitState => UNCHANGED <<launch, params, mapped, names, haunted, turns, pipe, kid>>
    BY DEF InitState
  <1>3. ASSUME MasterStep, mpc \in InGame, ~(ParseOption \/ EndParse \/ OpenState \/ OpenSync \/ InitSync \/ UnlinkState
                                             \/ UnlinkSync)
        PROVE  UNCHANGED <<launch, params, mapped, names, haunted>>
    BY <1>3, MasterFrame
  <1>. QED
    BY <1>1, <1>2, <1>3, StepCases, KidLeaves DEF StartMaster, Die, InGame, Settling, Settled, masterVars, vars

LEMMA AttachmentsStep ==
  ASSUME IInv, [Next]_vars
  PROVE  Attachments'
  <1> USE DEF Attached
  <1>1. ASSUME NEW k \in Kids
        PROVE  /\ kid'[k].pc \notin {"none", "exec", "exited"} => kid'[k].state # 0
               /\ Attached(k)' => kid'[k].sync # 0
    <2>1. CASE kid'[k] = kid[k]
      BY <2>1 DEF IInv, Attachments
    <2>2. CASE Fork
      BY <2>1, <2>2, Forked, NoKidTyped DEF KidStates
    <2>3. CASE KidStep(k) \/ KidDies(k)
      BY <2>3, KidFields DEF KidWas, Keeps, IInv, Attachments
    <2>. QED
      BY <2>1, <2>2, <2>3, KidChanges
  <1>2. ASSUME mpc' \in InGame, NEW k \in Kids, OwnKid(k)', kid'[k].pc \notin {"none", "exited"}
        PROVE  /\ kid'[k].text = params'.text
               /\ kid'[k].pc # "exec" => kid'[k].state = mapped'["state"]
               /\ Attached(k)' => kid'[k].sync = mapped'["sync"]
    <2>1. CASE InitState
      <3>1. OwnKid(k) /\ mpc = "init_state" /\ kid'[k] = kid[k]
        BY <1>2, <2>1, Where DEF InitState, OwnKid
      <3>. QED
        BY <1>2, <3>1, NoneYet, NoKidTyped
    <2>2. CASE mpc \in InGame /\ UNCHANGED <<launch, params, mapped, names, haunted>>
      <3>1. OwnKid(k) /\ mapped["state"] = names["state"] /\ mapped["sync"] = names["sync"]
        BY <1>2, <2>2 DEF OwnKid, IInv, Names
      <3>2. kid[k].pc \notin {"none", "exited"} =>
               /\ kid[k].text = params.text
               /\ kid[k].pc # "exec" => kid[k].state = mapped["state"]
               /\ Attached(k) => kid[k].sync = mapped["sync"]
        BY <2>2, <3>1 DEF IInv, Attachments
      <3>3. CASE kid'[k] = kid[k]
        BY <1>2, <2>2, <3>2, <3>3
      <3>4. CASE Fork
        <4>1. /\ <<launch, i>> \in Kids /\ kid'[<<launch, i>>] = [NoKid EXCEPT !.pc = "exec", !.text = params.text]
              /\ k # <<launch, i>> => kid'[k] = kid[k]
          BY <3>4, Forked
        <4>2. CASE k = <<launch, i>>
          <5>1. kid'[k].pc = "exec" /\ kid'[k].text = params.text
            BY <4>1, <4>2, NoKidTyped DEF KidStates
          <5>. QED
            BY <1>2, <2>2, <5>1 DEF Attached
        <4>. QED
          BY <3>3, <4>1, <4>2
      <3>5. CASE KidStep(k) \/ KidDies(k)
        BY <1>2, <2>2, <3>1, <3>2, <3>5, KidFields DEF KidWas, Keeps
      <3>. QED
        BY <3>3, <3>4, <3>5, KidChanges
    <2>. QED
      BY <1>2, <2>1, <2>2, InGameStep
  <1>. QED
    BY <1>1, <1>2 DEF Attachments

LEMMA PlacesStep ==
  ASSUME IInv, [Next]_vars
  PROVE  Places'
  <1>1. ASSUME NEW o \in Launches, NEW p \in Slots, state'[o].player_id[p] # NoPid
        PROVE  state'[o].player_id[p][2] = p
    <2>0. state[o].player_id[p] # NoPid => state[o].player_id[p][2] = p
      BY DEF IInv, Places
    <2>1. CASE state'[o].player_id[p] = state[o].player_id[p]
      BY <1>1, <2>0, <2>1
    <2>2. CASE Writes
      <3>1. CASE o # mapped["state"]
        BY <2>1, <2>2, <3>1, OwnWritten
      <3>2. CASE o = mapped["state"]
        <4>1. Own = state[o] /\ Own' = state'[o] /\ Own \in States
          BY <2>2, <3>2, OwnWritten DEF Own, IInv, Types
        <4>2. CASE StorePid \/ Register
          <5>1. Own' = [Own EXCEPT !.player_id[i] = <<launch, i>>]
            BY <2>2, <4>2, OwnWritten
          <5>2. state'[o].player_id[p] = state[o].player_id[p] \/ (p = i /\ state'[o].player_id[p] = <<launch, i>>)
            BY <4>1, <5>1 DEF States
          <5>. QED
            BY <2>1, <5>2
        <4>3. CASE Clear
          <5>1. Own' = [Own EXCEPT !.player_id[i] = NoPid, !.is_blocked[i] = FALSE]
            BY <2>2, <4>3, OwnWritten
          <5>2. state'[o].player_id[p] = state[o].player_id[p] \/ state'[o].player_id[p] = NoPid
            BY <4>1, <5>1 DEF States
          <5>. QED
            BY <1>1, <2>1, <5>2
        <4>4. CASE InitState
          BY <2>1, <2>2, <4>1, <4>4, OwnWritten
        <4>5. CASE Place \/ GameEnd
          BY <2>1, <2>2, <4>1, <4>5, OwnWritten DEF States
        <4>6. CASE \E q \in Present : Disconnect(q)
          <5>1. PICK q \in Present : Own' = [Own EXCEPT !.is_blocked[q] = TRUE]
            BY <2>2, <4>6, OwnWritten
          <5>. QED
            BY <2>1, <4>1, <5>1 DEF States
        <4>. QED
          BY <2>2, <4>2, <4>3, <4>4, <4>5, <4>6 DEF Writes
      <3>. QED
        BY <3>1, <3>2
    <2>. QED
      <3>1. CASE UNCHANGED state
        BY <2>1, <3>1
      <3>. QED
        BY <2>2, <3>1, StateWritten
  <1>2. ASSUME NEW k \in Kids, Attached(k)', kid'[k].pc # "find"
        PROVE  kid'[k].idx = k[2]
    <2>1. CASE kid'[k] = kid[k]
      BY <1>2, <2>1 DEF IInv, Places, Attached
    <2>2. CASE Fork
      <3>1. /\ kid'[<<launch, i>>] = [NoKid EXCEPT !.pc = "exec", !.text = params.text]
            /\ k # <<launch, i>> => kid'[k] = kid[k]
        BY <2>2, Forked
      <3>2. CASE k = <<launch, i>>
        <4>1. kid'[k].pc = "exec"
          BY <3>1, <3>2, NoKidTyped DEF KidStates
        <4>. QED
          BY <1>2, <4>1 DEF Attached
      <3>. QED
        BY <2>1, <3>1, <3>2
    <2>3. CASE KidStep(k) \/ KidDies(k)
      BY <1>2, <2>3, KidFields DEF KidWas, Keeps, IInv, Places, Attached
    <2>. QED
      BY <2>1, <2>2, <2>3, KidChanges
  <1>. QED
    BY <1>1, <1>2 DEF Places

-----------------------------------------------------------------------------
(* The game in the master's segment                                        *)

(* The game as every step of the master leaves it.                         *)
LEMMA OwnSame ==
  ASSUME IInv, [Next]_vars, mpc \in InGame, mpc' \in InGame
  PROVE  /\ Own \in States /\ mapped' = mapped
         /\ Writes \/ Own' = Own
  <1>1. mpc # "init_state"
    BY DEF InGame, Settling, Settled
  <1>2. mapped' = mapped
    BY <1>1, InGameStep, Where
  <1>3. state' = state => Own' = Own
    BY <1>2 DEF Own
  <1>4. Own \in States
    BY MappedObjects DEF Own, IInv, Types
  <1>. QED
    BY <1>2, <1>3, <1>4, StateWritten

LEMMA BoardStep ==
  ASSUME IInv, [Next]_vars
  PROVE  Board'
  <1> SUFFICES ASSUME mpc' \in InGame PROVE Board'
    BY DEF Board
  <1>1. CASE InitState
    <2>1. /\ Own'.width = Width /\ Own'.height = Height /\ Own'.players_count = params.players
          /\ Own'.ended = FALSE /\ Own'.placed = FALSE
      BY <1>1, OwnWritten DEF Writes
    <2>2. params' = params /\ mpc' = "fork"
      BY <1>1, Where DEF InitState
    <2>3. Width' = Width /\ Height' = Height
      BY <2>2 DEF Width, Height
    <2>. QED
      BY <2>1, <2>2, <2>3 DEF Board, Settled
  <1>2. CASE mpc \in InGame /\ ~InitState
    <2>1. params' = params
      BY <1>2, InGameStep
    <2>2. Width' = Width /\ Height' = Height
      BY <2>1 DEF Width, Height
    <2>3. /\ Own.width = Width /\ Own.height = Height /\ Own.players_count = params.players
          /\ Own.placed <=> mpc \in Settled
          /\ Own.ended <=> mpc \in {"close", "reap"}
      BY <1>2 DEF IInv, Board
    <2>4. /\ Own'.width = Own.width /\ Own'.height = Own.height
          /\ Own'.players_count = Own.players_count
      BY <1>2, OwnSame, OwnWritten
    <2>5. /\ Own'.placed <=> mpc' \in Settled
          /\ Own'.ended <=> mpc' \in {"close", "reap"}
      <3>0. Own \in States
        BY <1>2, OwnSame
      <3>1. CASE Place
        <4>1. Own' = [Own EXCEPT !.placed = TRUE]
          BY <3>1, OwnWritten DEF Writes
        <4>2. Own'.placed = TRUE /\ Own'.ended = Own.ended
          BY <3>0, <4>1 DEF States
        <4>. QED
          BY <2>3, <3>1, <4>2, Where DEF Settled
      <3>2. CASE GameEnd
        <4>1. Own' = [Own EXCEPT !.ended = TRUE]
          BY <3>2, OwnWritten DEF Writes
        <4>2. Own'.ended = TRUE /\ Own'.placed = Own.placed
          BY <3>0, <4>1 DEF States
        <4>. QED
          BY <2>3, <3>2, <4>2, Where DEF Settled
      <3>3. CASE ~Place /\ ~GameEnd
        <4>1. Own'.placed = Own.placed /\ Own'.ended = Own.ended
          <5>1. CASE StorePid \/ Register
            BY <3>0, <5>1, OwnWritten DEF Writes, States
          <5>2. CASE Clear
            <6>1. Own' = [Own EXCEPT !.player_id[i] = NoPid, !.is_blocked[i] = FALSE]
              BY <5>2, OwnWritten DEF Writes
            <6>. QED
              BY <3>0, <6>1 DEF States
          <5>3. CASE \E p \in Present : Disconnect(p)
            <6>1. PICK p \in Present : Own' = [Own EXCEPT !.is_blocked[p] = TRUE]
              BY <5>3, OwnWritten DEF Writes
            <6>. QED
              BY <3>0, <6>1 DEF States
          <5>. QED
            BY <1>2, <3>3, <5>1, <5>2, <5>3, OwnSame DEF Writes
        <4>2. mpc' \in Settled <=> mpc \in Settled
          <5>1. MasterStep => (mpc' \in Settled <=> mpc \in Settled)
            BY <1>2, <3>3, Where DEF MasterStep, ParseOption, EndParse, InGame, Settled, Settling
          <5>. QED
            BY <5>1, StepCases, KidLeaves DEF StartMaster, Die, InGame, Settled, Settling, masterVars, vars
        <4>3. mpc' \in {"close", "reap"} <=> mpc \in {"close", "reap"}
          <5>1. MasterStep => (mpc' \in {"close", "reap"} <=> mpc \in {"close", "reap"})
            BY <1>2, <3>3, Where DEF MasterStep, ParseOption, EndParse, InGame, Settled, Settling
          <5>. QED
            BY <5>1, StepCases, KidLeaves DEF StartMaster, Die, InGame, Settled, Settling, masterVars, vars
        <4>. QED
          BY <2>3, <4>1, <4>2, <4>3
      <3>. QED
        BY <3>1, <3>2, <3>3
    <2>. QED
      BY <2>1, <2>2, <2>3, <2>4, <2>5 DEF Board
  <1>. QED
    BY <1>1, <1>2, InGameStep, Where DEF InGame, Settled, Settling

LEMMA RegistrationsStep ==
  ASSUME IInv, [Next]_vars
  PROVE  Registrations'
  <1> SUFFICES ASSUME mpc' \in InGame, NEW p \in Present'
               PROVE  /\ Registered(p)' => Own'.player_id[p] = <<launch', p>>
                      /\ Unblocked(p)' => (Own'.is_blocked[p] => kid'[<<launch', p>>].pc = "exited")
    BY DEF Registrations
  <1>1. CASE InitState
    BY <1>1, Where DEF Registered, Unblocked, Settled
  <1>2. CASE mpc \in InGame /\ UNCHANGED <<launch, params, mapped, names, haunted>>
    <2>. DEFINE k == <<launch, p>>
    <2>1. /\ p \in Present /\ p \in Slots /\ p \in Nat /\ i \in Nat /\ k \in Kids /\ Own \in States
          /\ Registered(p) => Own.player_id[p] = k
          /\ Unblocked(p) => (Own.is_blocked[p] => kid[k].pc = "exited")
      <3>1. p \in Present /\ p \in Slots
        BY <1>2, PresentSlots DEF IInv, Types, Present
      <3>2. launch \in Launches
        BY <1>2 DEF IInv, Types, MasterAt, Objects, Launches, InGame, Settling, Settled
      <3>. QED
        BY <1>2, <3>1, <3>2, OwnSame DEF IInv, Types, Registrations, Slots, Kids
    <2>. HIDE DEF k
    <2>2. kid[k].pc = "exited" => kid'[k].pc = "exited" \/ Fork
      BY <2>1, StepCases, MasterFrame, KidMoves, KidAlive DEF StartMaster, Die, vars
    <2>3. CASE UNCHANGED <<i, mpc>> /\ ~Writes /\ ~Fork
      <3>1. Own' = Own /\ (Registered(p)' <=> Registered(p)) /\ (Unblocked(p)' <=> Unblocked(p))
        BY <1>2, <2>3, OwnSame DEF Registered, Unblocked
      <3>. QED
        BY <1>2, <2>1, <2>2, <2>3, <3>1 DEF k
    <2>4. CASE Fork \/ StorePid
      <3>1. mpc' \in {"store", "fork"} \/ (mpc' = "clear" /\ i' = 0)
        BY <2>4, Where DEF StorePid, Goes
      <3>. QED
        BY <2>1, <3>1 DEF Registered, Unblocked, Settled
    <2>5. CASE Clear
      <3>1. mpc = "clear" /\ mpc' = "register" /\ i' = i
        BY <2>5, Where DEF Clear
      <3>2. Own' = [Own EXCEPT !.player_id[i] = NoPid, !.is_blocked[i] = FALSE]
        BY <2>5, OwnWritten DEF Writes
      <3>3. /\ p # i => Own'.player_id[p] = Own.player_id[p] /\ Own'.is_blocked[p] = Own.is_blocked[p]
            /\ p = i => Own'.is_blocked[p] = FALSE
        BY <2>1, <3>2 DEF States, Flags
      <3>4. Registered(p)' => p < i
        BY <3>1 DEF Registered, Settled
      <3>5. Unblocked(p)' => p < i \/ p = i
        BY <2>1, <3>1 DEF Unblocked, Settled
      <3>6. p < i => Registered(p) /\ Unblocked(p) /\ p # i
        BY <2>1, <3>1 DEF Registered, Unblocked
      <3>7. kid' = kid /\ launch' = launch
        BY <2>5 DEF Clear
      <3>. QED
        BY <2>1, <3>3, <3>4, <3>5, <3>6, <3>7 DEF k
    <2>6. CASE Register
      <3>1. mpc = "register" /\ \/ mpc' = "place" /\ i + 1 = params.players
                                \/ mpc' = "clear" /\ i' = i + 1
        BY <2>6 DEF Register, Goes
      <3>2. Own' = [Own EXCEPT !.player_id[i] = <<launch, i>>]
        BY <2>6, OwnWritten DEF Writes
      <3>3. /\ p # i => Own'.player_id[p] = Own.player_id[p]
            /\ p = i => Own'.player_id[p] = k
            /\ Own'.is_blocked = Own.is_blocked
        BY <2>1, <3>2 DEF States, k
      <3>4. p < params.players /\ params.players \in Nat
        BY <2>1, PresentSlots DEF Present, IInv, Types
      <3>5. Registered(p)' \/ Unblocked(p)' => p <= i
        BY <2>1, <3>1, <3>4 DEF Registered, Unblocked, Settled
      <3>6. (p <= i => Unblocked(p)) /\ (p < i => Registered(p)) /\ (p <= i => p < i \/ p = i)
        BY <2>1, <3>1 DEF Registered, Unblocked
      <3>7. kid' = kid /\ launch' = launch
        BY <2>6 DEF Register
      <3>. QED
        BY <2>1, <3>3, <3>5, <3>6, <3>7 DEF k
    <2>7. CASE Place \/ GameEnd
      <3>1. Registered(p) /\ Unblocked(p) /\ kid' = kid /\ launch' = launch
        BY <2>7, Where DEF Place, GameEnd, Registered, Unblocked, Settled
      <3>2. Own'.player_id = Own.player_id /\ Own'.is_blocked = Own.is_blocked
        BY <2>1, <2>7, OwnWritten DEF Writes, States
      <3>. QED
        BY <2>1, <3>1, <3>2 DEF k
    <2>8. ASSUME NEW q \in Present, Disconnect(q)
          PROVE  /\ Registered(p)' => Own'.player_id[p] = <<launch', p>>
                 /\ Unblocked(p)' => (Own'.is_blocked[p] => kid'[<<launch', p>>].pc = "exited")
      <3>1. Registered(p) /\ Unblocked(p) /\ kid' = kid /\ launch' = launch /\ kid[<<launch, q>>].pc = "exited"
        BY <2>8, Where DEF Disconnect, masterVars, Registered, Unblocked, Settled
      <3>2. Own' = [Own EXCEPT !.is_blocked[q] = TRUE]
        BY <2>8, OwnWritten DEF Writes
      <3>3. /\ Own'.player_id = Own.player_id
            /\ p # q => Own'.is_blocked[p] = Own.is_blocked[p]
        BY <2>1, <3>2 DEF States, Flags
      <3>. QED
        BY <2>1, <3>1, <3>3 DEF k
    <2>9. CASE ClosePipes
      <3>1. Registered(p) /\ Unblocked(p) /\ kid' = kid /\ launch' = launch
        BY <2>9, Where DEF ClosePipes, Registered, Unblocked, Settled
      <3>2. Own' = Own
        <4>1. ~Writes
          BY <2>9, Where DEF Writes
        <4>. QED
          BY <1>2, <4>1, OwnSame
      <3>. QED
        BY <2>1, <3>1, <3>2 DEF k
    <2>10. \/ UNCHANGED <<i, mpc>> /\ ~Writes /\ ~Fork
           \/ Fork \/ StorePid \/ Clear \/ Register \/ Place \/ GameEnd \/ ClosePipes
           \/ \E q \in Present : Disconnect(q)
      <3>1. MasterStep => \/ \E q \in Present : Serve(q)
                          \/ Fork \/ StorePid \/ Clear \/ Register \/ Place \/ GameEnd \/ ClosePipes
                          \/ \E q \in Present : Disconnect(q)
        BY <1>2, Where DEF MasterStep, ParseOption, EndParse, InGame, Settling, Settled
      <3>2. (\E q \in Present : Serve(q)) => UNCHANGED <<i, mpc, state, kid>>
        BY DEF Serve, masterVars
      <3>3. UNCHANGED <<i, mpc, state>> => ~Writes \/ \E q \in Present : Disconnect(q)
        BY <2>1, Where DEF Writes, StorePid, Register, Goes
      <3>4. UNCHANGED <<i, mpc>> => ~Fork
        BY Where
      <3>. QED
        BY <1>2, <3>1, <3>2, <3>3, <3>4, StepCases, KidLeaves
           DEF StartMaster, Die, masterVars, InGame, Settling, Settled, vars
    <2>. QED
      BY <2>3, <2>4, <2>5, <2>6, <2>7, <2>8, <2>9, <2>10
  <1>. QED
    BY <1>1, <1>2, InGameStep

-----------------------------------------------------------------------------
(* The turns                                                               *)

(* A player of the running master plays, if it is there at all.            *)
LEMMA OwnAlive ==
  ASSUME IInv, NEW k \in Kids, OwnKid(k), kid[k].pc \notin {"none", "exited"}, mpc \notin Gone
  PROVE  mpc \in InGame
  <1>1. mpc \in Starting \union InGame \union Unlinking
    BY DEF IInv, Types, MasterPC, Starting, InGame, Settling, Settled, Unlinking, Gone
  <1>2. mpc \notin Starting
    BY NoKidTyped DEF IInv, Forks, Unforked
  <1>3. mpc \notin Unlinking
    BY DEF IInv, Forks
  <1>. QED
    BY <1>1, <1>2, <1>3

InPlay == InGame \union {"init_state"}

LEMMA InPlayStep ==
  ASSUME [Next]_vars, mpc' \in InPlay
  PROVE  \/ InitSync /\ mpc = "init_sync" /\ mpc' = "init_state"
         \/ mpc \in InPlay /\ UNCHANGED <<launch, params, mapped, names, haunted>>
  <1>1. CASE mpc' \in InGame
    BY <1>1, InGameStep, Where DEF InPlay
  <1>2. CASE mpc' = "init_state"
    <2>1. MasterStep => InitSync
      BY <1>2, Where DEF MasterStep, ParseOption, EndParse
    <2>. QED
      BY <1>2, <2>1, StepCases, KidLeaves, Where DEF StartMaster, Die, InPlay, masterVars, vars
  <1>. QED
    BY <1>1, <1>2 DEF InPlay

LEMMA HauntingStep ==
  ASSUME IInv, [Next]_vars
  PROVE  Haunting'
  <1> SUFFICES ASSUME mpc' \in InPlay, ~haunted' PROVE Orphans' = {}
    BY DEF Haunting, InPlay
  <1>1. CASE InitSync
    <2>1. Orphans = {} /\ UNCHANGED <<kid, launch>>
      BY <1>1 DEF InitSync
    <2>. QED
      BY <2>1 DEF Orphans
  <1>2. CASE mpc \in InPlay /\ UNCHANGED <<launch, params, mapped, names, haunted>>
    <2>1. Orphans = {}
      BY <1>2 DEF IInv, Haunting, InPlay
    <2>2. ASSUME NEW k \in Kids, kid'[k].pc \notin {"none", "exited"}, k[1] # launch
          PROVE  kid[k].pc \notin {"none", "exited"}
      <3>1. CASE Fork
        BY <2>2, <3>1, Forked
      <3>2. CASE UNCHANGED kid
        BY <2>2, <3>2
      <3>. QED
        BY <2>2, <3>1, <3>2, StepCases, MasterFrame, KidMoves, KidAlive DEF StartMaster, Die, vars
    <2>. QED
      BY <1>2, <2>1, <2>2 DEF Orphans
  <1>. QED
    BY <1>1, <1>2, InPlayStep

(* What a step leaves of the turns of one place.                           *)
LEMMA PlaceTyped ==
  ASSUME IInv, mpc \in InPlay, NEW p \in Slots
  PROVE  /\ <<launch, p>> \in Kids /\ OwnKid(<<launch, p>>) /\ mapped["sync"] \in Launches
         /\ turns[mapped["sync"]][p] \in Nat /\ pipe[<<launch, p>>] \in Nat
         /\ Thinking(<<launch, p>>) \in 0 .. 1 /\ Granted(p) \in 1 .. 2
         /\ Left(p) \in Nat /\ p \in Nat /\ params.players \in Nat
         /\ kid[<<launch, p>>] \in KidStates
  <1>1. launch \in Launches
    BY DEF IInv, Types, MasterAt, Objects, Launches, InPlay, InGame, Settling, Settled
  <1>2. <<launch, p>> \in Kids /\ OwnKid(<<launch, p>>)
    BY <1>1 DEF Kids, OwnKid
  <1>3. mapped["sync"] \in Launches
    BY MappedObjects DEF InPlay
  <1>4. turns[mapped["sync"]][p] \in Nat /\ pipe[<<launch, p>>] \in Nat /\ kid[<<launch, p>>] \in KidStates
    BY <1>2, <1>3 DEF IInv, Types
  <1>5. Thinking(<<launch, p>>) \in 0 .. 1 /\ Granted(p) \in 1 .. 2
    BY DEF Thinking, Granted
  <1>6. Left(p) \in Nat
    BY <1>4, <1>5 DEF Left
  <1>. QED
    BY <1>2, <1>3, <1>4, <1>5, <1>6, PresentSlots DEF IInv, Types, Slots

LEMMA KidTurnsLeft ==
  ASSUME IInv, mpc \in InPlay, NEW p \in Slots, NEW j \in Kids, KidStep(j) \/ KidDies(j)
  PROVE  /\ Left(p)' <= Left(p) /\ Left(p)' \in Nat
         /\ ~haunted /\ kid'[<<launch, p>>].pc # "exited" =>
              Left(p)' = Left(p) /\ kid[<<launch, p>>].pc # "exited"
  <1>. DEFINE k == <<launch, p>>
              m == mapped["sync"]
  <1>1. /\ k \in Kids /\ OwnKid(k) /\ k[1] = launch /\ k[2] = p /\ m \in Launches
        /\ turns[m][p] \in Nat /\ pipe[k] \in Nat /\ Thinking(k) \in 0 .. 1
        /\ kid[k].pc \notin {"none", "exited"} => mpc \in InGame
    BY PlaceTyped, OwnAlive DEF InPlay, InGame, Settling, Settled, Gone
  <1>2. UNCHANGED <<launch, mapped, haunted>>
    BY KidLeaves DEF masterVars
  <1>3. Left(p) = turns[m][p] + pipe[k] + Thinking(k) /\ Left(p)' = turns'[m][p] + pipe'[k] + Thinking(k)'
    BY <1>2 DEF Left, Thinking
  <1>4. /\ turns'[m][p] \in Nat /\ pipe'[k] \in Nat /\ turns'[m][p] <= turns[m][p]
        /\ j # k => pipe'[k] = pipe[k] /\ kid'[k] = kid[k]
    <2>. HIDE DEF k, m
    <2>1. turns'[m][p] \in Nat /\ turns'[m][p] <= turns[m][p]
      BY <1>1, KidTurns
    <2>2. pipe'[k] \in Nat
      BY <1>1, KidPipes
    <2>3. j # k => pipe'[k] = pipe[k]
      BY <1>1, KidPipes
    <2>4. j # k => kid'[k] = kid[k]
      BY <1>1, KidMoves
    <2>. QED
      BY <2>1, <2>2, <2>3, <2>4
  <1>. HIDE DEF k, m
  <1>5. CASE j = k
    <2>1. mpc \in InGame /\ kid[k].pc \notin {"none", "exited"}
      BY <1>1, <1>5, KidAlive
    <2>2. Attached(k) => kid[k].sync = m
      BY <1>1, <2>1 DEF IInv, Attachments, m
    <2>3. CASE FirstTurn(k) \/ NextTurn(k)
      <3>1. Attached(k) /\ Waits(k) /\ ~Send(k)
        BY <2>3 DEF Attached, Waits, FirstTurn, NextTurn, WaitTurn, KidGoes, Send
      <3>2. turns[m][p] > 0 /\ turns'[m][p] = turns[m][p] - 1
        BY <1>1, <1>5, <2>2, <3>1, KidTurns
      <3>3. pipe'[k] = pipe[k]
        BY <1>1, <1>5, <3>1, KidPipes
      <3>4. Thinking(k) = 0 /\ Thinking(k)' = 1
        <4>1. kid[k].pc \in {"first_turn", "next_turn"}
          BY <2>3 DEF FirstTurn, NextTurn, WaitTurn, KidGoes
        <4>2. kid'[k].pc \in {"look", "check"}
          <5>1. kid[k] \in KidStates
            BY <1>1 DEF IInv, Types
          <5>2. kid' = [kid EXCEPT ![k].pc = "look"] \/ kid' = [kid EXCEPT ![k].pc = "check"]
            BY <2>3 DEF FirstTurn, NextTurn, WaitTurn, KidGoes
          <5>3. kid'[k] = [kid[k] EXCEPT !.pc = "look"] \/ kid'[k] = [kid[k] EXCEPT !.pc = "check"]
            BY <1>1, <5>2 DEF IInv, Types
          <5>. QED
            BY <5>1, <5>3 DEF KidStates
        <4>3. k' = k
          BY <1>2 DEF k
        <4>. QED
          BY <4>1, <4>2, <4>3 DEF Thinking
      <3>. QED
        BY <1>1, <1>3, <2>1, <3>2, <3>3, <3>4 DEF k
    <2>4. CASE ~(FirstTurn(k) \/ NextTurn(k))
      <3>0. k' = k
        BY <1>2 DEF k
      <3>1. turns' = turns
        BY <1>1, <1>5, <2>4, KidTurns DEF Waits
      <3>2. CASE Send(k) /\ KidWas(k, "send", "next_turn")
        <4>1. pipe'[k] = pipe[k] + 1 /\ Thinking(k) = 1 /\ Thinking(k)' = 0
          BY <1>1, <1>5, <3>0, <3>2, KidPipes DEF KidWas, Thinking
        <4>. QED
          BY <1>1, <1>3, <2>1, <3>1, <4>1 DEF k
      <3>3. CASE ~Send(k)
        <4>1. pipe'[k] = pipe[k]
          BY <1>1, <1>5, <3>3, KidPipes
        <4>2. \/ kid'[k].pc # "exited" /\ Thinking(k)' = Thinking(k)
              \/ kid'[k].pc = "exited" /\ Thinking(k)' = 0
          BY <1>1, <1>5, <2>4, <3>0, <3>3, KidFields DEF KidWas, Thinking
        <4>. QED
          BY <1>1, <1>3, <2>1, <3>1, <4>1, <4>2 DEF k
      <3>4. Send(k) => KidWas(k, "send", "next_turn")
        <4>1. Send(k) => kid[k].pc = "send" /\ kid'[k].pc = "next_turn"
          <5>1. kid[k] \in KidStates /\ kid \in [Kids -> KidStates]
            BY <1>1 DEF IInv, Types
          <5>. QED
            BY <1>1, <5>1 DEF Send, KidGoes, KidStates
        <4>. QED
          BY <1>1, <1>5, <4>1, KidFields DEF KidWas
      <3>. QED
        BY <3>2, <3>3, <3>4
    <2>. QED
      BY <2>3, <2>4
  <1>6. CASE j # k
    <2>1. Thinking(k)' = Thinking(k) /\ kid'[k] = kid[k] /\ pipe'[k] = pipe[k]
      BY <1>2, <1>4, <1>6 DEF Thinking, k
    <2>2. CASE j[1] = launch
      <3>1. j[2] # p
        BY <1>6, <2>2, KidNames DEF k
      <3>2. turns'[m][p] = turns[m][p]
        BY <1>1, <3>1, KidTurns
      <3>. QED
        BY <1>1, <1>2, <1>3, <2>1, <3>2 DEF k
    <2>3. CASE j[1] # launch
      <3>1. j \in Orphans
        BY <2>3, KidAlive DEF Orphans
      <3>2. haunted
        BY <3>1 DEF IInv, Haunting, InPlay
      <3>. QED
        BY <1>1, <1>3, <1>4, <2>1, <3>2
    <2>. QED
      BY <2>2, <2>3
  <1>. QED
    BY <1>5, <1>6

(* The master's steps in a game.                                           *)
LEMMA MasterTurnsLeft ==
  ASSUME IInv, mpc \in InPlay, MasterStep, mpc' \in InPlay, NEW p \in Slots
  PROVE  /\ Left(p)' <= Granted(p)'
         /\ ~haunted' /\ kid'[<<launch', p>>].pc # "exited" => Left(p)' = Granted(p)'
  <1>. DEFINE k == <<launch, p>>
              m == mapped["sync"]
  <1>1. UNCHANGED <<launch, params, mapped, names, haunted>>
    <2>1. mpc # "init_sync" /\ [Next]_vars
      BY DEF InPlay, InGame, Settling, Settled, Next
    <2>. QED
      BY <2>1, InPlayStep
  <1>2. /\ k \in Kids /\ k[1] = launch /\ k[2] = p /\ m \in Launches /\ p \in Nat /\ params.players \in Nat
        /\ turns[m][p] \in Nat /\ pipe[k] \in Nat /\ Thinking(k) \in 0 .. 1 /\ Granted(p) \in 1 .. 2
    BY PlaceTyped
  <1>3. Left(p) = turns[m][p] + pipe[k] + Thinking(k) /\ Left(p)' = turns'[m][p] + pipe'[k] + Thinking(k)'
    BY <1>1 DEF Left, Thinking
  <1>4. /\ Left(p) <= Granted(p)
        /\ ~haunted /\ kid[k].pc # "exited" => Left(p) = Granted(p)
    BY DEF IInv, Turns, InPlay
  <1>5. k' = k
    BY <1>1
  <1>6. kid' = kid => Thinking(k)' = Thinking(k)
    BY <1>1 DEF Thinking
  <1>. HIDE DEF k, m
  <1>7. ASSUME NEW q \in Present, Serve(q)
        PROVE  /\ Left(p)' <= Granted(p)'
               /\ ~haunted' /\ kid'[k].pc # "exited" => Left(p)' = Granted(p)'
    <2>1. kid' = kid /\ mpc' = mpc
      BY <1>7, Where DEF Serve
    <2>2. Granted(p)' = Granted(p)
      BY <1>1, <2>1 DEF Granted
    <2>3. turns'[m][p] = turns[m][p] + IF p = q THEN 1 ELSE 0
      BY <1>7, MasterTurns DEF Grants, m
    <2>4. CASE p = q
      <3>1. pipe[k] > 0 /\ pipe'[k] = pipe[k] - 1
        BY <1>7, <2>4, MasterPipes DEF k
      <3>. QED
        BY <1>1, <1>2, <1>3, <1>4, <1>6, <2>1, <2>2, <2>3, <2>4, <3>1
    <2>5. CASE p # q
      <3>1. k # <<launch, q>>
        BY <2>5 DEF k
      <3>2. pipe'[k] = pipe[k]
        BY <1>2, <1>7, <3>1, MasterPipes
      <3>. QED
        BY <1>1, <1>2, <1>3, <1>4, <1>6, <2>1, <2>2, <2>3, <2>5, <3>2
    <2>. QED
      BY <2>4, <2>5
  <1>8. ASSUME GameEnd
        PROVE  /\ Left(p)' <= Granted(p)'
               /\ ~haunted' /\ kid'[k].pc # "exited" => Left(p)' = Granted(p)'
    <2>1. kid' = kid /\ pipe' = pipe /\ mpc = "loop" /\ mpc' = "close"
      BY <1>8, Where DEF GameEnd
    <2>2. turns'[m][p] = turns[m][p] + IF p \in Present THEN 1 ELSE 0
      BY <1>8, MasterTurns DEF Grants, m
    <2>3. p \in Present <=> p < params.players
      BY <1>2 DEF Present
    <2>4. Granted(p) = 1 /\ Granted(p)' = 1 + IF p \in Present THEN 1 ELSE 0
      BY <1>1, <2>1, <2>3 DEF Granted
    <2>. QED
      BY <1>1, <1>2, <1>3, <1>4, <1>6, <2>1, <2>2, <2>4
  <1>9. ASSUME Fork
        PROVE  /\ Left(p)' <= Granted(p)'
               /\ ~haunted' /\ kid'[k].pc # "exited" => Left(p)' = Granted(p)'
    <2>1. turns' = turns /\ pipe' = pipe /\ mpc = "fork" /\ mpc' = "store" /\ i \in Nat
      BY <1>9, Where DEF Fork, IInv, Types
    <2>2. Granted(p) = 1 /\ Granted(p)' = 1
      BY <2>1 DEF Granted
    <2>3. CASE p # i
      <3>1. k # <<launch, i>>
        BY <2>3 DEF k
      <3>2. kid'[k] = kid[k]
        BY <1>2, <1>9, <3>1, Forked
      <3>3. Thinking(k)' = Thinking(k)
        BY <1>5, <3>2 DEF Thinking
      <3>. QED
        BY <1>1, <1>2, <1>3, <1>4, <2>1, <2>2, <3>2, <3>3
    <2>4. CASE p = i
      <3>1. kid[k] = NoKid
        BY <1>2, <2>1, <2>4, PlaceTyped DEF IInv, Forks, Unforked, k
      <3>2. kid[k].pc = "none" /\ kid'[k].pc = "exec"
        BY <1>9, <2>4, <3>1, Forked, NoKidTyped DEF KidStates, k
      <3>3. Thinking(k)' = Thinking(k)
        BY <1>5, <3>2 DEF Thinking
      <3>. QED
        BY <1>1, <1>2, <1>3, <1>4, <2>1, <2>2, <3>2, <3>3
    <2>. QED
      BY <2>3, <2>4
  <1>10. ASSUME ~GameEnd, ~Fork, \A q \in Present : ~Serve(q)
         PROVE  /\ Left(p)' <= Granted(p)'
                /\ ~haunted' /\ kid'[k].pc # "exited" => Left(p)' = Granted(p)'
    <2>1. ~InitSync /\ ~UnlinkSync
      BY Where DEF InPlay, InGame, Settling, Settled
    <2>2. UNCHANGED <<turns, pipe, kid>>
      BY <1>10, <2>1, MasterFrame
    <2>3. mpc \in {"close", "reap"} <=> mpc' \in {"close", "reap"}
      <3>1. \/ mpc \in {"close", "reap"} /\ mpc' \in {"close", "reap"}
            \/ mpc \notin {"close", "reap"} /\ mpc' \notin {"close", "reap"}
        BY <1>10, Where DEF MasterStep, InPlay, InGame, Settling, Settled, ParseOption, EndParse
      <3>. QED
        BY <3>1
    <2>4. Granted(p)' = Granted(p)
      BY <1>1, <2>3 DEF Granted
    <2>. QED
      BY <1>1, <1>2, <1>3, <1>4, <1>6, <2>2, <2>4
  <1>. QED
    BY <1>5, <1>7, <1>8, <1>9, <1>10 DEF k

LEMMA TurnsStep ==
  ASSUME IInv, [Next]_vars
  PROVE  Turns'
  <1>1. ASSUME mpc' \in InPlay, NEW p \in Slots
        PROVE  /\ Left(p)' <= Granted(p)'
               /\ ~haunted' /\ kid'[<<launch', p>>].pc # "exited" => Left(p)' = Granted(p)'
    <2>1. CASE InitSync
      <3>1. /\ UNCHANGED <<launch, params, mapped, pipe, kid>> /\ mpc = "init_sync" /\ mpc' = "init_state"
        BY <2>1, Where DEF InitSync
      <3>2. <<launch, p>> \in Kids /\ launch \in Launches /\ OwnKid(<<launch, p>>)
        BY <3>1 DEF IInv, Types, MasterAt, Objects, Launches, Kids, OwnKid
      <3>3. kid[<<launch, p>>] = NoKid
        BY <3>1, <3>2, NoneYet
      <3>4. Thinking(<<launch, p>>)' = 0
        BY <3>1, <3>3, NoKidTyped DEF Thinking
      <3>5. pipe[<<launch, p>>] = 0
        BY <3>1, <3>2 DEF IInv, Pipes, InGame, Settling, Settled, Unlinking
      <3>6. turns'[mapped["sync"]][p] = 1
        BY <2>1, MasterTurns DEF Grants
      <3>7. Left(p)' = 1
        BY <3>1, <3>4, <3>5, <3>6 DEF Left, Thinking
      <3>8. Granted(p)' = 1
        BY <3>1 DEF Granted
      <3>. QED
        BY <3>7, <3>8
    <2>2. CASE mpc \in InPlay /\ UNCHANGED <<launch, params, mapped, names, haunted>>
      <3>0. /\ Left(p) <= Granted(p) /\ Left(p) \in Nat /\ Granted(p) \in 1 .. 2
            /\ ~haunted /\ kid[<<launch, p>>].pc # "exited" => Left(p) = Granted(p)
        BY <2>2, PlaceTyped DEF IInv, Turns, InPlay
      <3>1. ASSUME MasterStep
            PROVE  /\ Left(p)' <= Granted(p)'
                   /\ ~haunted' /\ kid'[<<launch', p>>].pc # "exited" => Left(p)' = Granted(p)'
        BY <1>1, <2>2, <3>1, MasterTurnsLeft
      <3>2. ASSUME NEW j \in Kids, KidStep(j) \/ KidDies(j)
            PROVE  /\ Left(p)' <= Granted(p)'
                   /\ ~haunted' /\ kid'[<<launch', p>>].pc # "exited" => Left(p)' = Granted(p)'
        <4>1. mpc' = mpc
          BY <3>2, KidLeaves DEF masterVars
        <4>2. Granted(p)' = Granted(p)
          BY <2>2, <4>1 DEF Granted
        <4>. QED
          BY <2>2, <3>0, <3>2, <4>2, KidTurnsLeft
      <3>3. CASE UNCHANGED vars
        <4>1. Left(p)' = Left(p) /\ Granted(p)' = Granted(p) /\ UNCHANGED <<kid, launch, haunted>>
          BY <3>3 DEF vars, masterVars, Left, Granted, Thinking
        <4>. QED
          BY <3>0, <4>1
      <3>4. ~Die /\ \A l \in CommandLines : ~StartMaster(l)
        BY <1>1 DEF Die, StartMaster, InPlay, InGame, Settling, Settled
      <3>. QED
        BY <3>1, <3>2, <3>3, <3>4, StepCases
    <2>. QED
      BY <1>1, <2>1, <2>2, InPlayStep
  <1>2. ASSUME NEW o \in Launches, NEW p \in Slots PROVE turns'[o][p] <= 2
    <2>1. turns[o][p] \in Nat /\ turns[o][p] <= 2
      BY DEF IInv, Types, Turns
    <2>2. CASE turns' = turns
      BY <2>1, <2>2
    <2>3. CASE Grants
      <3>1. CASE o # mapped["sync"]
        BY <2>1, <2>3, <3>1, MasterTurns
      <3>2. CASE o = mapped["sync"]
        <4>1. mpc' \in InPlay /\ mapped' = mapped /\ launch' = launch /\ [Next]_vars
          <5>1. MasterStep
            BY <2>3 DEF Grants, MasterStep
          <5>2. mpc' \in InPlay
            BY <2>3, Where DEF Grants, InPlay, InGame, Settling, Settled
          <5>. QED
            BY <2>3, <5>1, <5>2, MasterTurns, MasterFrame
        <4>2. Left(p)' <= Granted(p)'
          BY <1>1, <4>1
        <4>3. Granted(p)' \in 1 .. 2 /\ Thinking(<<launch, p>>)' \in 0 .. 1
          BY DEF Granted, Thinking
        <4>4. launch \in Launches /\ <<launch, p>> \in Kids
          <5>1. launch # 0
            BY <2>3, Where DEF Grants, IInv, MasterAt
          <5>. QED
            BY <5>1 DEF IInv, Types, Objects, Launches, Kids
        <4>5. pipe'[<<launch, p>>] \in Nat /\ turns'[o][p] \in Nat
          BY <4>1, <4>4, TypeStep DEF Types
        <4>6. Left(p)' = turns'[o][p] + pipe'[<<launch, p>>] + Thinking(<<launch, p>>)'
          BY <3>2, <4>1 DEF Left, Thinking
        <4>. QED
          BY <4>2, <4>3, <4>5, <4>6
      <3>. QED
        BY <3>1, <3>2
    <2>4. ASSUME NEW j \in Kids, KidStep(j) \/ KidDies(j) PROVE turns'[o][p] <= 2
      <3>1. turns'[o][p] <= turns[o][p] /\ turns'[o][p] \in Nat
        BY <2>4, KidTurns
      <3>. QED
        BY <2>1, <3>1
    <2>. QED
      BY <2>2, <2>3, <2>4, StepCases, MasterFrame DEF StartMaster, Die, Grants, vars
  <1>. QED
    BY <1>1, <1>2 DEF Turns, InPlay

-----------------------------------------------------------------------------
(* The pipes                                                               *)

(* A move is sent in a game that goes on, and into an empty pipe.          *)
LEMMA SendsWhenEmpty ==
  ASSUME IInv, NEW k \in Kids, KidStep(k) \/ KidDies(k), Send(k)
  PROVE  k[1] = launch /\ OwnKid(k) /\ mpc \in InGame /\ pipe[k] = 0 /\ pipe'[k] = 1
  <1>1. k[1] = launch /\ mpc \notin Gone /\ pipe'[k] = pipe[k] + 1
    BY KidPipes DEF PipeOpen
  <1>2. OwnKid(k) /\ kid[k].pc = "send"
    BY <1>1 DEF OwnKid, Send, KidGoes
  <1>3. mpc \in InGame
    BY <1>1, <1>2, OwnAlive
  <1>4. pipe[k] = 0
    BY <1>2, <1>3 DEF IInv, Pipes
  <1>. QED
    BY <1>1, <1>2, <1>3, <1>4

(* A player that looks again has had its move read.                        *)
LEMMA LooksWhenRead ==
  ASSUME IInv, mpc \in InGame, NEW k \in Kids, OwnKid(k), kid[k].pc = "check",
         ~state[kid[k].state].ended
  PROVE  pipe[k] = 0
  <1>. DEFINE p == k[2]
  <1>1. k = <<launch, p>> /\ p \in Slots
    BY KidNames DEF OwnKid
  <1>2. kid[k].state = mapped["state"]
    BY DEF IInv, Attachments
  <1>3. ~Own.ended
    BY <1>2 DEF Own
  <1>4. mpc \notin {"close", "reap"}
    BY <1>3 DEF IInv, Board
  <1>5. Granted(p) = 1 /\ Left(p) <= 1
    BY <1>1, <1>4 DEF IInv, Turns, InPlay, Granted
  <1>6. Thinking(k) = 1
    BY DEF Thinking
  <1>. HIDE DEF p
  <1>7. turns[mapped["sync"]][p] \in Nat /\ pipe[k] \in Nat
    BY <1>1, PlaceTyped DEF InPlay
  <1>8. Left(p) = turns[mapped["sync"]][p] + pipe[k] + Thinking(k)
    BY <1>1 DEF Left
  <1>. QED
    BY <1>5, <1>6, <1>7, <1>8

LEMMA PipesStep ==
  ASSUME IInv, [Next]_vars
  PROVE  Pipes'
  <1>0. /\ \A k \in Kids : pipe[k] \in Nat /\ pipe[k] <= 1
        /\ \A k \in Kids : pipe[k] # 0 => k[1] = launch /\ mpc \in InGame \union Unlinking
        /\ mpc \in InGame =>
             \A k \in Kids : OwnKid(k) /\ kid[k].pc \notin {"next_turn", "check", "exited"} => pipe[k] = 0
    BY DEF IInv, Types, Pipes
  <1>1. ASSUME NEW k \in Kids
        PROVE  pipe'[k] <= 1 /\ (pipe'[k] # 0 => k[1] = launch' /\ mpc' \in InGame \union Unlinking)
    <2>1. ASSUME NEW l \in CommandLines, StartMaster(l)
          PROVE  pipe'[k] = 0
      BY <1>0, <2>1 DEF StartMaster, Gone, InGame, Settling, Settled, Unlinking
    <2>2. ASSUME MasterStep
          PROVE  pipe'[k] <= 1 /\ (pipe'[k] # 0 => k[1] = launch' /\ mpc' \in InGame \union Unlinking)
      <3>1. pipe'[k] <= pipe[k] /\ pipe'[k] \in Nat /\ launch' = launch
        BY <2>2, MasterPipes, MasterFrame
      <3>2. CASE UnlinkSync
        BY <2>2, <3>2, MasterPipes
      <3>3. CASE ~UnlinkSync
        <4>1. mpc \in InGame \union Unlinking => mpc' \in InGame \union Unlinking
          BY <2>2, <3>3, Where DEF MasterStep, ParseOption, EndParse, InGame, Settling, Settled, Unlinking
        <4>. QED
          BY <1>0, <3>1, <4>1
      <3>. QED
        BY <3>2, <3>3
    <2>3. ASSUME Die PROVE pipe'[k] = 0
      BY <2>3 DEF Die
    <2>4. ASSUME NEW j \in Kids, KidStep(j) \/ KidDies(j)
          PROVE  pipe'[k] <= 1 /\ (pipe'[k] # 0 => k[1] = launch' /\ mpc' \in InGame \union Unlinking)
      <3>1. launch' = launch /\ mpc' = mpc
        BY <2>4, KidLeaves DEF masterVars
      <3>2. CASE pipe'[k] = pipe[k]
        BY <1>0, <3>1, <3>2
      <3>3. CASE j = k /\ Send(k)
        BY <2>4, <3>1, <3>3, SendsWhenEmpty
      <3>. QED
        BY <2>4, <3>2, <3>3, KidPipes
    <2>5. CASE UNCHANGED vars
      BY <1>0, <2>5 DEF vars, masterVars
    <2>. QED
      BY <2>1, <2>2, <2>3, <2>4, <2>5, StepCases
  <1>2. ASSUME mpc' \in InGame, NEW k \in Kids, OwnKid(k)',
               kid'[k].pc \notin {"next_turn", "check", "exited"}
        PROVE  pipe'[k] = 0
    <2>1. CASE InitState
      BY <1>0, <2>1, Where DEF InitState, InGame, Settling, Settled, Unlinking
    <2>2. CASE mpc \in InGame /\ UNCHANGED <<launch, params, mapped, names, haunted>>
      <3>1. OwnKid(k)
        BY <1>2, <2>2 DEF OwnKid
      <3>2. kid[k].pc \notin {"next_turn", "check", "exited"} => pipe[k] = 0
        BY <1>0, <2>2, <3>1
      <3>3. ASSUME MasterStep PROVE pipe'[k] = 0
        <4>1. pipe'[k] <= pipe[k] /\ pipe'[k] \in Nat /\ pipe[k] \in Nat
          BY <1>0, <3>3, MasterPipes
        <4>2. kid[k].pc \notin {"next_turn", "check", "exited"}
          <5>1. CASE Fork /\ k = <<launch, i>>
            <6>1. mpc = "fork" /\ k[2] = i /\ i \in Nat
              BY <5>1, Where DEF IInv, Types
            <6>2. kid[k] = NoKid
              BY <3>1, <6>1 DEF IInv, Forks, Unforked
            <6>. QED
              BY <6>2, NoKidTyped
          <5>2. CASE kid'[k] = kid[k]
            BY <1>2, <5>2
          <5>. QED
            BY <3>3, <5>1, <5>2, Forked, MasterFrame
        <4>. QED
          BY <3>2, <4>1, <4>2
      <3>4. ASSUME NEW j \in Kids, KidStep(j) \/ KidDies(j) PROVE pipe'[k] = 0
        <4>1. CASE j # k
          <5>1. kid'[k] = kid[k]
            BY <3>4, <4>1, KidMoves
          <5>2. pipe'[k] = pipe[k]
            BY <3>4, <4>1, KidPipes
          <5>. QED
            BY <1>2, <3>2, <5>1, <5>2
        <4>2. CASE j = k
          <5>1. ~Send(k)
            <6>1. Send(k) => kid'[k].pc = "next_turn"
              <7>1. kid \in [Kids -> KidStates] /\ kid[k] \in KidStates
                BY DEF IInv, Types
              <7>. QED
                BY <7>1 DEF Send, KidGoes, KidStates
            <6>. QED
              BY <1>2, <6>1
          <5>2. pipe'[k] = pipe[k]
            BY <3>4, <4>2, <5>1, KidPipes
          <5>3. \/ kid[k].pc \notin {"next_turn", "check", "exited"}
                \/ kid[k].pc = "check" /\ ~state[kid[k].state].ended
            BY <1>2, <3>4, <4>2, KidFields DEF KidWas
          <5>. QED
            BY <2>2, <3>1, <3>2, <5>2, <5>3, LooksWhenRead
        <4>. QED
          BY <4>1, <4>2
      <3>5. CASE UNCHANGED vars
        BY <1>2, <3>2, <3>5 DEF vars
      <3>6. ~Die /\ \A l \in CommandLines : ~StartMaster(l)
        BY <1>2 DEF Die, StartMaster, InGame, Settling, Settled
      <3>. QED
        BY <3>3, <3>4, <3>5, <3>6, StepCases
    <2>. QED
      BY <1>2, <2>1, <2>2, InGameStep
  <1>. QED
    BY <1>1, <1>2 DEF Pipes

-----------------------------------------------------------------------------
(* The first looks                                                         *)

FirstLook(k) ==
  /\ kid[k].pc \in {"none", "exec", "attach", "find", "first_turn", "look"} => kid[k].looks = 0
  /\ kid[k].pc = "send" => kid[k].looks = 1
  /\ kid[k].pc = "next_turn" => pipe[k] = 1
  /\ kid[k].pc # "check"

LEMMA FirstLooksStep ==
  ASSUME IInv, [Next]_vars
  PROVE  FirstLooks'
  <1> SUFFICES ASSUME mpc' \in Settling, NEW k \in Kids, OwnKid(k)' PROVE FirstLook(k)'
    BY DEF FirstLooks, FirstLook
  <1>1. k' = k
    OBVIOUS
  <1>2. CASE InitState
    <2>1. OwnKid(k) /\ mpc = "init_state" /\ kid'[k] = kid[k]
      BY <1>2, Where DEF InitState, OwnKid
    <2>. QED
      BY <2>1, NoneYet, NoKidTyped DEF FirstLook
  <1>3. CASE mpc \in InGame /\ UNCHANGED <<launch, params, mapped, names, haunted>>
    <2>1. OwnKid(k)
      BY <1>3 DEF OwnKid
    <2>2. mpc \in Settling
      <3>1. MasterStep => mpc \in Settling
        BY <1>3, Where DEF MasterStep, ParseOption, EndParse, InGame, Settling, Settled
      <3>2. ~Die /\ \A l \in CommandLines : ~StartMaster(l)
        BY DEF Die, StartMaster, Settling
      <3>. QED
        BY <3>1, <3>2, StepCases, KidLeaves DEF vars, masterVars
    <2>3. FirstLook(k)
      BY <2>1, <2>2 DEF IInv, FirstLooks, FirstLook
    <2>4. CASE kid'[k] = kid[k] /\ pipe'[k] = pipe[k]
      BY <2>3, <2>4 DEF FirstLook
    <2>5. ASSUME MasterStep PROVE FirstLook(k)'
      <3>1. pipe' = pipe
        BY <2>2, <2>5, MasterFrame, Where DEF Settling
      <3>2. CASE Fork /\ k = <<launch, i>>
        <4>1. kid'[k].pc = "exec" /\ kid'[k].looks = 0
          BY <3>2, Forked, NoKidTyped DEF KidStates
        <4>. QED
          BY <4>1 DEF FirstLook
      <3>. QED
        BY <2>4, <2>5, <3>1, <3>2, Forked, MasterFrame
    <2>6. ASSUME NEW j \in Kids, KidStep(j) \/ KidDies(j) PROVE FirstLook(k)'
      <3>1. CASE j # k
        <4>1. kid'[k] = kid[k]
          BY <2>6, <3>1, KidMoves
        <4>2. pipe'[k] = pipe[k]
          BY <2>6, <3>1, KidPipes
        <4>. QED
          BY <2>4, <4>1, <4>2
      <3>2. CASE j = k
        <4>1. ~NextTurn(k)
          <5>1. SUFFICES ASSUME NextTurn(k) PROVE FALSE
            OBVIOUS
          <5>2. kid[k].pc = "next_turn" /\ pipe[k] = 1 /\ Attached(k) /\ Waits(k)
            BY <2>3, <5>1 DEF NextTurn, WaitTurn, KidGoes, FirstLook, Attached, Waits
          <5>3. kid[k].sync = mapped["sync"]
            BY <1>3, <2>1, <5>2 DEF IInv, Attachments
          <5>4. k = <<launch, k[2]>> /\ k[2] \in Slots
            BY <2>1, KidNames DEF OwnKid
          <5>5. turns[mapped["sync"]][k[2]] > 0
            BY <2>6, <3>2, <5>2, <5>3, KidTurns
          <5>6. Left(k[2]) <= 1
            BY <2>2, <5>4 DEF IInv, Turns, Granted, InGame, Settling
          <5>7. Thinking(k) = 0 /\ turns[mapped["sync"]][k[2]] \in Nat
            BY <1>3, <5>2, <5>4, PlaceTyped DEF Thinking, InPlay
          <5>8. Left(k[2]) = turns[mapped["sync"]][k[2]] + pipe[k] + Thinking(k)
            BY <5>4 DEF Left
          <5>. QED
            BY <5>2, <5>5, <5>6, <5>7, <5>8
        <4>2. CASE Send(k) /\ KidWas(k, "send", "next_turn")
          <5>1. pipe'[k] = 1
            BY <2>6, <3>2, <4>2, SendsWhenEmpty
          <5>. QED
            BY <4>2, <5>1 DEF FirstLook, KidWas
        <4>3. CASE KidWas(k, "look", "send") /\ kid'[k].looks = kid[k].looks + 1
          BY <2>3, <4>3 DEF FirstLook, KidWas
        <4>4. CASE kid'[k].pc = "exited"
          BY <4>4 DEF FirstLook
        <4>5. CASE /\ kid'[k].looks = kid[k].looks /\ ~Send(k)
                   /\ kid[k].pc \in {"exec", "attach", "find", "first_turn"}
                   /\ kid'[k].pc \in {"attach", "find", "first_turn", "look"}
          BY <2>3, <4>5 DEF FirstLook
        <4>6. ~KidWas(k, "check", "look")
          BY <2>3 DEF FirstLook, KidWas
        <4>7. \/ Send(k) /\ KidWas(k, "send", "next_turn")
              \/ KidWas(k, "look", "send") /\ kid'[k].looks = kid[k].looks + 1
              \/ kid'[k].pc = "exited"
              \/ /\ kid'[k].looks = kid[k].looks /\ ~Send(k)
                 /\ kid[k].pc \in {"exec", "attach", "find", "first_turn"}
                 /\ kid'[k].pc \in {"attach", "find", "first_turn", "look"}
          <5>1. Send(k) => kid[k].pc = "send"
            BY DEF Send, KidGoes
          <5>. QED
            BY <2>6, <3>2, <4>1, <4>6, <5>1, KidFields DEF KidWas
        <4>. QED
          BY <4>2, <4>3, <4>4, <4>5, <4>7
      <3>. QED
        BY <3>1, <3>2
    <2>7. ~Die /\ \A l \in CommandLines : ~StartMaster(l)
      BY DEF Die, StartMaster, Settling
    <2>. QED
      BY <2>4, <2>5, <2>6, <2>7, StepCases DEF vars
  <1>. QED
    BY <1>2, <1>3, InGameStep DEF InGame

LEMMA EarlyStep ==
  ASSUME IInv, [Next]_vars
  PROVE  OnlyFirstLookEarly'
  <1> SUFFICES ASSUME NEW k \in Kids, k[1] = launch', mpc' \notin Gone,
                      kid'[k].pc = "send", kid'[k].early
               PROVE  kid'[k].looks = 1
    BY DEF OnlyFirstLookEarly, OwnKids, Running
  <1>1. ASSUME NEW l \in CommandLines, StartMaster(l) PROVE FALSE
    <2>1. k[1] > launch /\ kid' = kid
      BY <1>1 DEF StartMaster, IInv, Types, Objects
    <2>. QED
      BY <2>1, NoKidTyped DEF IInv, Forks
  <1>2. ~Die
    BY DEF Die, Gone
  <1>3. CASE kid'[k] = kid[k] /\ launch' = launch /\ mpc \notin Gone
    BY <1>3 DEF IInv, OnlyFirstLookEarly, OwnKids, Running
  <1>4. ASSUME MasterStep PROVE kid'[k].looks = 1
    <2>1. launch' = launch /\ mpc \notin Gone
      BY <1>4, MasterFrame, Where DEF MasterStep, ParseOption, EndParse, Gone
    <2>2. CASE Fork /\ k = <<launch, i>>
      BY <2>2, Forked, NoKidTyped DEF KidStates
    <2>. QED
      BY <1>3, <1>4, <2>1, <2>2, Forked, MasterFrame
  <1>5. ASSUME NEW j \in Kids, KidStep(j) \/ KidDies(j) PROVE kid'[k].looks = 1
    <2>1. launch' = launch /\ mpc' = mpc
      BY <1>5, KidLeaves DEF masterVars
    <2>2. CASE j # k
      <3>1. kid'[k] = kid[k]
        BY <1>5, <2>2, KidMoves
      <3>. QED
        BY <1>3, <2>1, <3>1
    <2>3. CASE j = k
      <3>1. KidWas(k, "look", "send") /\ kid'[k].looks = kid[k].looks + 1 /\ ~state[kid[k].state].placed
        BY <1>5, <2>3, KidFields DEF KidWas
      <3>2. OwnKid(k) /\ kid[k].pc = "look" /\ mpc \notin Gone
        BY <2>1, <3>1 DEF OwnKid, KidWas
      <3>3. mpc \in InGame
        BY <3>2, OwnAlive
      <3>4. ~Own.placed
        BY <3>1, <3>2, <3>3 DEF IInv, Attachments, Own
      <3>5. mpc \in Settling
        BY <3>3, <3>4 DEF IInv, Board, InGame
      <3>6. kid[k].looks = 0
        BY <3>2, <3>5 DEF IInv, FirstLooks
      <3>. QED
        BY <3>1, <3>6
    <2>. QED
      BY <2>2, <2>3
  <1>6. UNCHANGED vars => kid'[k] = kid[k] /\ launch' = launch /\ mpc \notin Gone
    BY DEF vars, masterVars
  <1>. QED
    BY <1>1, <1>2, <1>3, <1>4, <1>5, <1>6, StepCases

-----------------------------------------------------------------------------
(* The invariant                                                           *)

LEMMA InitIInv == Init => IInv
  <1> SUFFICES ASSUME Init PROVE IInv
    OBVIOUS
  <1>1. mpc = "ended" /\ launch = 0 /\ i = 0 /\ params = Defaults /\ line = <<>> /\ haunted = FALSE
    BY DEF Init
  <1>2. /\ names = [s \in Segments |-> 0] /\ mapped = [s \in Segments |-> 0]
        /\ \A o \in Launches : state[o] = FreshState
        /\ \A o \in Launches : \A p \in Slots : turns[o][p] = 0
        /\ \A k \in Kids : pipe[k] = 0 /\ kid[k] = NoKid
    BY DEF Init
  <1>3. FreshState \in States
    <2>1. 0 \in 0 .. UShort - 1 /\ 0 \in 0 .. MAX_PLAYERS
      BY Constants
    <2>2. [p \in Slots |-> NoPid] \in [Slots -> Pids] /\ [p \in Slots |-> FALSE] \in Flags
      BY DEF Pids, Flags
    <2>. QED
      BY <2>1, <2>2, Zenon DEF FreshState, States
  <1>4. Types
    <2>1. launch \in Objects /\ mpc \in MasterPC /\ i \in Nat /\ line \in Seq(Options) /\ params \in Parameters
      BY <1>1, NoOptions, DefaultsTyped, Constants DEF Objects, MasterPC
    <2>2. names \in [Segments -> 0 .. launch] /\ mapped \in [Segments -> 0 .. launch]
      BY <1>1, <1>2
    <2>3. state \in [Launches -> States]
      BY <1>3 DEF Init
    <2>4. turns \in [Launches -> [Slots -> Nat]] /\ pipe \in [Kids -> Nat]
      BY DEF Init
    <2>5. kid \in [Kids -> KidStates]
      BY NoKidTyped DEF Init
    <2>6. haunted \in BOOLEAN
      BY <1>1, Zenon
    <2>. QED
      BY <2>1, <2>2, <2>3, <2>4, <2>5, <2>6 DEF Types
  <1>5. MasterAt /\ ReadSoFar /\ ParsedAsGiven /\ Names
    <2>1. names["state"] = 0 /\ names["sync"] = 0
      BY <1>2 DEF Segments
    <2>. QED
      BY <1>1, <2>1 DEF MasterAt, ReadSoFar, ParsedAsGiven, Names, Gone, Settling, Settled, InGame
  <1>6. SameSize
    BY <1>1, DefaultSizes DEF SameSize
  <1>7. Forks /\ Attachments
    BY <1>1, <1>2, NoKidTyped DEF Forks, Attachments, Attached, InGame, Settling, Settled
  <1>8. Places
    <2>1. ASSUME NEW o \in Launches, NEW p \in Slots PROVE state[o].player_id[p] = NoPid
      BY <1>2 DEF FreshState
    <2>. QED
      BY <1>2, <2>1, NoKidTyped DEF Places, Attached
  <1>9. Board /\ Registrations /\ Haunting /\ FirstLooks
    BY <1>1 DEF Board, Registrations, Haunting, FirstLooks, InGame, Settling, Settled
  <1>10. Turns
    BY <1>1, <1>2 DEF Turns, InGame, Settling, Settled
  <1>11. Pipes
    BY <1>1, <1>2 DEF Pipes, InGame, Settling, Settled
  <1>12. OnlyFirstLookEarly
    BY <1>1 DEF OnlyFirstLookEarly, OwnKids, Running, Gone
  <1>. QED
    BY <1>4, <1>5, <1>6, <1>7, <1>8, <1>9, <1>10, <1>11, <1>12 DEF IInv

LEMMA NextIInv == IInv /\ [Next]_vars => IInv'
  <1> SUFFICES ASSUME IInv, [Next]_vars PROVE IInv'
    OBVIOUS
  <1>1. Types' /\ MasterAt' /\ ReadSoFar' /\ ParsedAsGiven' /\ SameSize'
    BY TypeStep, MasterAtStep, ReadSoFarStep, ParsedStep, SameSizeStep
  <1>2. Names' /\ Forks' /\ Attachments' /\ Places' /\ Board' /\ Registrations'
    BY NamesStep, ForksStep, AttachmentsStep, PlacesStep, BoardStep, RegistrationsStep
  <1>3. Haunting' /\ Turns' /\ Pipes' /\ FirstLooks' /\ OnlyFirstLookEarly'
    BY HauntingStep, TurnsStep, PipesStep, FirstLooksStep, EarlyStep
  <1>. QED
    BY <1>1, <1>2, <1>3 DEF IInv

THEOREM Invariance == Spec => []IInv
  BY InitIInv, NextIInv, PTL DEF Spec

-----------------------------------------------------------------------------
(* What follows from it                                                    *)

LEMMA TypesOK == IInv => TypeOK
  <1> SUFFICES ASSUME IInv PROVE TypeOK
    OBVIOUS
  <1>1. IF mpc = "parse" THEN i \in 0 .. Len(line) ELSE i \in Slots
    <2>1. CASE mpc = "parse"
      <3>1. i \in Nat /\ i <= Len(line) /\ line \in Seq(Options)
        BY <2>1 DEF IInv, Types, MasterAt
      <3>. QED
        BY <2>1, <3>1
    <2>2. CASE mpc # "parse" /\ mpc \in Settling \ {"place"}
      BY <2>2, PlaceAt DEF Settling
    <2>3. CASE mpc # "parse" /\ mpc \notin Settling \ {"place"}
      BY <2>3, Constants DEF IInv, MasterAt, Slots
    <2>. QED
      BY <2>1, <2>2, <2>3
  <1>2. turns \in [Launches -> [Slots -> 0 .. 2]]
    <2>1. ASSUME NEW o \in Launches PROVE turns[o] \in [Slots -> 0 .. 2]
      <3>1. turns[o] \in [Slots -> Nat]
        BY DEF IInv, Types
      <3>2. \A p \in Slots : turns[o][p] <= 2
        BY DEF IInv, Turns
      <3>. QED
        BY <3>1, <3>2
    <2>2. turns \in [Launches -> [Slots -> Nat]]
      BY DEF IInv, Types
    <2>. QED
      BY <2>1, <2>2
  <1>3. pipe \in [Kids -> 0 .. 1]
    <2>1. pipe \in [Kids -> Nat] /\ \A k \in Kids : pipe[k] <= 1
      BY DEF IInv, Types, Pipes
    <2>. QED
      BY <2>1
  <1>4. ASSUME NEW o \in Launches
        PROVE  /\ state[o].width \in 0 .. UShort - 1 /\ state[o].height \in 0 .. UShort - 1
               /\ state[o].players_count \in 0 .. MAX_PLAYERS
               /\ state[o].player_id \in [Slots -> Kids \union {NoPid}]
               /\ state[o].is_blocked \in [Slots -> BOOLEAN]
    <2>1. state[o] \in States
      BY DEF IInv, Types
    <2>. QED
      BY <2>1 DEF States, Pids, Flags
  <1>5. ASSUME NEW k \in Kids
        PROVE  kid[k].pc \in KidPC /\ kid[k].idx \in Slots /\ kid[k].looks \in 0 .. MaxLooks
    <2>1. kid[k] \in KidStates
      BY DEF IInv, Types
    <2>. QED
      BY <2>1 DEF KidStates
  <1>6. launch \in 0 .. MaxLaunches /\ mpc \in MasterPC
        /\ names \in [Segments -> 0 .. launch] /\ mapped \in [Segments -> 0 .. launch]
    BY DEF IInv, Types, Objects
  <1>. QED
    BY <1>1, <1>2, <1>3, <1>4, <1>5, <1>6 DEF TypeOK

LEMMA PlaceOwned == IInv => OwnPlace
  <1> SUFFICES ASSUME IInv, NEW k \in Kids, k[1] = launch, mpc \notin Gone, Attached(k)
               PROVE  /\ kid[k].state = mapped["state"] /\ kid[k].sync = mapped["sync"]
                      /\ kid[k].pc # "find" => kid[k].idx = k[2]
                      /\ Own.width = ParseUint16(kid[k].text["w"])
                      /\ Own.height = ParseUint16(kid[k].text["h"])
    BY DEF OwnPlace, OwnKids, Running
  <1>1. OwnKid(k) /\ kid[k].pc \notin {"none", "exec", "exited"}
    BY DEF OwnKid, Attached
  <1>2. mpc \in InGame
    BY <1>1, OwnAlive
  <1>3. kid[k].state = mapped["state"] /\ kid[k].sync = mapped["sync"] /\ kid[k].text = params.text
    BY <1>1, <1>2 DEF IInv, Attachments
  <1>4. kid[k].pc # "find" => kid[k].idx = k[2]
    BY DEF IInv, Places
  <1>5. params.status = {}
    BY <1>2 DEF IInv, MasterAt, Accepted, Gone, InGame, Settling, Settled
  <1>6. Width = ParseUint16(params.text["w"]) /\ Height = ParseUint16(params.text["h"])
    BY <1>5 DEF IInv, SameSize, Width, Height
  <1>7. Own.width = Width /\ Own.height = Height
    BY <1>2 DEF IInv, Board
  <1>. QED
    BY <1>3, <1>4, <1>6, <1>7

LEMMA GameFresh == IInv => FreshGame
  <1> SUFFICES ASSUME IInv, mpc = "loop"
               PROVE  /\ names = mapped /\ 0 \notin Range(names)
                      /\ Own.placed /\ ~Own.ended /\ Own.players_count = params.players
                      /\ \A p \in Present :
                           /\ Own.player_id[p] = <<launch, p>>
                           /\ Own.is_blocked[p] => kid[<<launch, p>>].pc = "exited"
    BY DEF FreshGame
  <1>1. mpc \in InGame /\ mpc \in Settled /\ mpc \notin {"close", "reap"}
    BY DEF InGame, Settled
  <1>2. /\ mapped["state"] = names["state"] /\ names["state"] # 0
        /\ mapped["sync"] = names["sync"] /\ names["sync"] # 0
    BY <1>1 DEF IInv, Names
  <1>3. DOMAIN names = Segments /\ names = mapped
    BY <1>2 DEF IInv, Types, Segments
  <1>4. 0 \notin Range(names)
    BY <1>2, <1>3 DEF Range, Segments
  <1>5. Own.placed /\ ~Own.ended /\ Own.players_count = params.players
    BY <1>1 DEF IInv, Board
  <1>6. ASSUME NEW p \in Present
        PROVE  Own.player_id[p] = <<launch, p>> /\ (Own.is_blocked[p] => kid[<<launch, p>>].pc = "exited")
    BY <1>1 DEF IInv, Registrations, Registered, Unblocked
  <1>. QED
    BY <1>3, <1>4, <1>5, <1>6

LEMMA TurnsKept == IInv => TurnsSurviveRestart
  <1> SUFFICES ASSUME IInv, mpc \in InGame, NEW p \in Present, kid[<<launch, p>>].pc # "exited"
               PROVE  LET granted == IF mpc \in {"close", "reap"} THEN 2 ELSE 1
                          left    == turns[mapped["sync"]][p] + pipe[<<launch, p>>]
                                       + (IF kid[<<launch, p>>].pc \in {"look", "send", "check"} THEN 1 ELSE 0)
                      IN  left <= granted /\ (~haunted => left = granted)
    BY DEF TurnsSurviveRestart, InGame, Settling, Settled
  <1>1. p \in Slots /\ p < params.players
    BY PresentSlots DEF IInv, Types, Present
  <1>2. Granted(p) = IF mpc \in {"close", "reap"} THEN 2 ELSE 1
    BY <1>1 DEF Granted
  <1>3. Left(p) <= Granted(p) /\ (~haunted => Left(p) = Granted(p))
    BY <1>1 DEF IInv, Turns
  <1>. QED
    BY <1>2, <1>3 DEF Left, Thinking

LEMMA NothingLeftBehind == IInv => LeavesNothing
  <1> SUFFICES ASSUME IInv, mpc = "ended"
               PROVE  /\ names = [s \in Segments |-> 0]
                      /\ \A k \in Kids : k[1] = launch => kid[k].pc \in {"none", "exited"}
    BY DEF LeavesNothing
  <1>1. names \in [Segments -> 0 .. launch] /\ names["state"] = 0 /\ names["sync"] = 0
    BY DEF IInv, Types, Names
  <1>2. names = [s \in Segments |-> 0]
    BY <1>1 DEF Segments
  <1>3. \A k \in Kids : k[1] = launch => kid[k].pc \in {"none", "exited"}
    BY DEF IInv, Forks, OwnKid
  <1>. QED
    BY <1>2, <1>3

(* The bounds of every variable: a place never has more than two turns to  *)
(* take, however many games the semaphores served, and a pipe never holds  *)
(* more than one move.                                                     *)
THEOREM LaunchTypes == Spec => []TypeOK
  BY Invariance, TypesOK, PTL

(* getopt's loop in parse leaves the parameters that the options, read as  *)
(* a whole, ask for, and stops at the first error: any sequence of options.*)
THEOREM CommandLineRead == Spec => []ParsedAsGiven
  <1>1. IInv => ParsedAsGiven
    BY DEF IInv
  <1>. QED
    BY <1>1, Invariance, PTL

(* find_player_index: a player that finds a place finds its own, in its    *)
(* own master's game, whatever pids earlier masters left there; and the    *)
(* size it read from its arguments is that of the board.                   *)
THEOREM EveryPlayerOwnPlace == Spec => []OwnPlace
  BY Invariance, PlaceOwned, PTL

(* A player that runs before the master has placed the players looks once  *)
(* and then waits for the loop to read its move.                           *)
THEOREM OnlyFirstLookIsEarly == Spec => []OnlyFirstLookEarly
  <1>1. IInv => OnlyFirstLookEarly
    BY DEF IInv
  <1>. QED
    BY <1>1, Invariance, PTL

(* master_run starts on a new game, also in segments taken over from a     *)
(* master that died at any step.                                           *)
THEOREM GameIsFresh == Spec => []FreshGame
  BY Invariance, GameFresh, PTL

(* game_sync_init resets the semaphores of a segment that was there, so    *)
(* the turns of a game are the same after any number of masters that died. *)
THEOREM TurnsSurvive == Spec => []TurnsSurviveRestart
  BY Invariance, TurnsKept, PTL

(* game_disconnect and wait_for_children: a master that ends its game      *)
(* leaves no name and no player.                                           *)
THEOREM NothingLeft == Spec => []LeavesNothing
  BY Invariance, NothingLeftBehind, PTL
=============================================================================
