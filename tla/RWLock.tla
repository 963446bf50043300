------------------------------- MODULE RWLock -------------------------------
(***************************************************************************)
(* What game_sync.h promises of the lock around the shared game state:     *)
(* any number of readers, or one writer and nobody else.  How a process    *)
(* waits for its turn is left to the implementation (module GameSync).     *)
(***************************************************************************)
CONSTANTS Readers, Writers

VARIABLES reading,   \* the readers that hold the lock
          writing    \* the writers that hold the lock

vars == <<reading, writing>>

Init == reading = {} /\ writing = {}

(* "Acquire shared read access": several readers may hold the lock.        *)
BeginRead(r) ==
  /\ r \notin reading
  /\ writing = {}
  /\ reading' = reading \union {r}
  /\ UNCHANGED writing

EndRead(r) ==
  /\ r \in reading
  /\ reading' = reading \ {r}
  /\ UNCHANGED writing

(* "Blocks until no readers or other writers hold the lock."               *)
BeginWrite(w) ==
  /\ reading = {} /\ writing = {}
  /\ writing' = {w}
  /\ UNCHANGED reading

EndWrite(w) ==
  /\ w \in writing
  /\ writing' = writing \ {w}
  /\ UNCHANGED reading

Next ==
  \/ \E r \in Readers : BeginRead(r) \/ EndRead(r)
  \/ \E w \in Writers : BeginWrite(w) \/ EndWrite(w)

Spec == Init /\ [][Next]_vars
=============================================================================
