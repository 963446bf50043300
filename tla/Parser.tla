------------------------------- MODULE Parser -------------------------------
(***************************************************************************)
(* The command lines: parse() of the master (utils/parser.c) and           *)
(* parse_board_args() of its children (argv_parser.c), which are given     *)
(* the text of -w and -h again and convert it on their own.                *)
(*                                                                         *)
(* The text of a number is what strtoull makes of it: the number it starts *)
(* with (0 if none) and whether something else follows.                    *)
(***************************************************************************)
EXTENDS Integers, SequencesExt

CONSTANTS UShort,         \* 2^16, the values of uint16_t
          ULong,          \* 2^64, the values of uint64_t
          MAX_PLAYERS

ASSUME WidthAssumption ==
  /\ UShort \in Nat /\ ULong \in Nat /\ MAX_PLAYERS \in Nat \ {0}
  /\ UShort > 10 /\ ULong > 0 /\ ULong % (2 * UShort) = 0

NumberFlags == {"w", "h", "d", "t", "s"}
Texts == [number : Int, junk : BOOLEAN]
Options == [flag : STRING, text : Texts]
Text(n) == [number |-> n, junk |-> FALSE]

(* The parameters main() starts from.  The seed is the time of day.        *)
Defaults ==
  [value |-> [f \in NumberFlags |-> CASE f = "d" -> 200 % ULong [] f = "s" -> 0 [] OTHER -> 10],
   text |-> [f \in {"w", "h"} |-> Text(10)],
   view |-> FALSE, players |-> 0, status |-> {}]

(* strtoull: a minus sign negates modulo 2^64; ERANGE beyond.              *)
InUnsignedRange(text) == text.number > -ULong /\ text.number < ULong
Strtoull(text) == IF InUnsignedRange(text) THEN text.number % ULong ELSE ULong - 1

(* Mutant: what follows the number is not looked at.                       *)
IntegerErrorsLax(text) == IF InUnsignedRange(text) THEN {} ELSE {"overflow"}
IntegerErrors(text) ==
  (IF text.junk THEN {"invalid_integer_type"} ELSE {})
    \union (IF InUnsignedRange(text) THEN {} ELSE {"overflow"})

ParseInteger(params, opt) ==
  [params EXCEPT !.value[opt.flag] = Strtoull(opt.text),
                 !.text = IF opt.flag \in DOMAIN @ THEN [@ EXCEPT ![opt.flag] = opt.text] ELSE @,
                 !.status = @ \union IntegerErrors(opt.text)]

AddPlayer(params) ==
  IF params.players = MAX_PLAYERS
    THEN [params EXCEPT !.status = @ \union {"exceeded_player_limit"}]
    ELSE [params EXCEPT !.players = @ + 1]

ParseArgument(params, opt) ==
  CASE opt.flag \in NumberFlags -> ParseInteger(params, opt)
    [] opt.flag = "v" -> [params EXCEPT !.view = TRUE]
    [] opt.flag = "p" -> AddPlayer(params)
    [] OTHER -> [params EXCEPT !.status = @ \union {"unknown_optional_flag"}]

Accepted(params) == params.status = {} /\ params.players > 0

(* parse_uint16: strtoll, then a conversion to uint16_t.                   *)
InSignedRange(text) == text.number >= -(ULong \div 2) /\ text.number < ULong \div 2
ParseUint16Ok(text) == InSignedRange(text) /\ ~text.junk
ParseUint16(text) == text.number % UShort
ParseBoardArgsOk(text) == ParseUint16Ok(text["w"]) /\ ParseUint16Ok(text["h"])
=============================================================================
