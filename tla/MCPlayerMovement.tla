-------------------------- MODULE MCPlayerMovement --------------------------
(* The runs of PlayerMovement: one player with every strategy in turn, and  *)
(* one that may take any free cell and so reaches every board.             *)
EXTENDS PlayerMovement

EveryoneAgainstNaive == [p \in {0, 1} |-> IF p = 0 THEN AllStrategies ELSE {"NAIVE"}]

EveryoneGreedy == [p \in {0, 1} |-> {"GREEDY"}]
=============================================================================
