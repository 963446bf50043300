------------------------------ MODULE MCLaunch ------------------------------
(* Small integers for the widths of the C types, in the same order, and    *)
(* command lines for each way parse() can go.                              *)
EXTENDS Launch

Opt(f, n) == [flag |-> f, text |-> Text(n)]
P == Opt("p", 0)

MCCommandLines ==
  {<<P>>, <<Opt("w", 19), P, P>>,
   <<Opt("w", 5), Opt("w", 3), Opt("t", 0), P>>,
   <<Opt("h", -2), P>>,                       \* negative: wraps around
   <<Opt("w", 15), Opt("h", 15), P>>,         \* the size of the board overflows
   <<Opt("w", 511), P>>,                      \* refused by the children only
   <<Opt("w", 512), P>>, <<[flag |-> "h", text |-> [number |-> 3, junk |-> TRUE]], P>>,
   <<P, Opt("?", 0)>>, <<Opt("v", 0)>>, <<P, P, P>>}

(* The lines that start games which differ once they are parsed.           *)
GameLines == {<<P>>, <<Opt("w", 19), P, P>>}
=============================================================================
