------------------------------ MODULE GameSync ------------------------------
(***************************************************************************)
(* The readers-writer lock of common/src/game_sync.c, one step per         *)
(* semaphore operation.  Readers are the player processes, the writer is   *)
(* the master; the header promises the lock for several writers, so the    *)
(* set is a parameter.  lpc[p] is how far process p is in the lock's       *)
(* entry and exit code; "idle" is everywhere outside of it.                *)
(***************************************************************************)
EXTENDS Naturals, FiniteSets

CONSTANTS Readers,   \* processes that call game_sync_reader_enter/_exit
          Writers    \* processes that call game_sync_writer_enter/_exit

ASSUME ProcessAssumption ==
  /\ IsFiniteSet(Readers)
  /\ Readers \intersect Writers = {}

VARIABLES master_writing,       \* turnstile semaphore
          gamestate_mutex,      \* held by the writer or by the group of readers
          readers_count_mutex,  \* protects readers_count
          readers_count,
          lpc

syncVars == <<master_writing, gamestate_mutex, readers_count_mutex,
              readers_count, lpc>>

ReaderPC == {"idle", "enter", "turnstile", "count", "counting", "first",
             "counted", "reading", "leave", "leaving", "last", "left"}
WriterPC == {"idle", "enter", "drain", "writing", "release"}

(* game_sync_init: the lock's three semaphores start unlocked.             *)
Init ==
  /\ master_writing = 1
  /\ gamestate_mutex = 1
  /\ readers_count_mutex = 1
  /\ readers_count = 0
  /\ lpc = [p \in Readers \union Writers |-> "idle"]

(* safe_sem_wait: sem_wait retried on EINTR, so a signal never lets a      *)
(* process through; it returns only with the semaphore decremented.        *)
SemWait(sem) == sem > 0 /\ sem' = sem - 1
SemPost(sem) == sem' = sem + 1

Goto(p, from, to) == lpc[p] = from /\ lpc' = [lpc EXCEPT ![p] = to]

-----------------------------------------------------------------------------
(* game_sync_reader_enter                                                  *)

(* Mutant: a reader that never looks at the turnstile.                     *)
ReaderCallBarging(r) ==
  /\ Goto(r, "idle", "count")
  /\ UNCHANGED <<master_writing, gamestate_mutex, readers_count_mutex, readers_count>>

ReaderCall(r) ==
  /\ Goto(r, "idle", "enter")
  /\ UNCHANGED <<master_writing, gamestate_mutex, readers_count_mutex, readers_count>>

(* Mutant: a reader that does not wait at the turnstile.                   *)
PassTurnstileOpen(r) ==
  /\ Goto(r, "enter", "count")
  /\ UNCHANGED <<master_writing, gamestate_mutex, readers_count_mutex, readers_count>>

PassTurnstile(r) ==
  /\ Goto(r, "enter", "turnstile")
  /\ SemWait(master_writing)
  /\ UNCHANGED <<gamestate_mutex, readers_count_mutex, readers_count>>

(* Mutant: the turnstile is not reopened.                                  *)
ReopenTurnstileForgotten(r) ==
  /\ Goto(r, "turnstile", "count")
  /\ UNCHANGED <<master_writing, gamestate_mutex, readers_count_mutex, readers_count>>

ReopenTurnstile(r) ==
  /\ Goto(r, "turnstile", "count")
  /\ SemPost(master_writing)
  /\ UNCHANGED <<gamestate_mutex, readers_count_mutex, readers_count>>

LockCount(r) ==
  /\ Goto(r, "count", "counting")
  /\ SemWait(readers_count_mutex)
  /\ UNCHANGED <<master_writing, gamestate_mutex, readers_count>>

(* Mutant: readers_count is set, as if it were a flag.                     *)
CountInAsFlag(r) ==
  /\ Goto(r, "counting", IF readers_count = 0 THEN "first" ELSE "counted")
  /\ readers_count' = 1
  /\ UNCHANGED <<master_writing, gamestate_mutex, readers_count_mutex>>

CountIn(r) ==
  /\ Goto(r, "counting", IF readers_count + 1 = 1 THEN "first" ELSE "counted")
  /\ readers_count' = readers_count + 1
  /\ UNCHANGED <<master_writing, gamestate_mutex, readers_count_mutex>>

FirstReaderLocks(r) ==
  /\ Goto(r, "first", "counted")
  /\ SemWait(gamestate_mutex)
  /\ UNCHANGED <<master_writing, readers_count_mutex, readers_count>>

StartReading(r) ==
  /\ Goto(r, "counted", "reading")
  /\ SemPost(readers_count_mutex)
  /\ UNCHANGED <<master_writing, gamestate_mutex, readers_count>>

(* game_sync_reader_exit                                                   *)

StopReading(r) ==
  /\ Goto(r, "reading", "leave")
  /\ UNCHANGED <<master_writing, gamestate_mutex, readers_count_mutex, readers_count>>

LockCountToLeave(r) ==
  /\ Goto(r, "leave", "leaving")
  /\ SemWait(readers_count_mutex)
  /\ UNCHANGED <<master_writing, gamestate_mutex, readers_count>>

CountOut(r) ==
  /\ Goto(r, "leaving", IF readers_count - 1 = 0 THEN "last" ELSE "left")
  /\ readers_count' = readers_count - 1
  /\ UNCHANGED <<master_writing, gamestate_mutex, readers_count_mutex>>

LastReaderUnlocks(r) ==
  /\ Goto(r, "last", "left")
  /\ SemPost(gamestate_mutex)
  /\ UNCHANGED <<master_writing, readers_count_mutex, readers_count>>

ReaderReturn(r) ==
  /\ Goto(r, "left", "idle")
  /\ SemPost(readers_count_mutex)
  /\ UNCHANGED <<master_writing, gamestate_mutex, readers_count>>

ReaderEnter(r) ==
  \/ PassTurnstile(r) \/ ReopenTurnstile(r) \/ LockCount(r)
  \/ CountIn(r) \/ FirstReaderLocks(r) \/ StartReading(r)

ReaderExit(r) ==
  LockCountToLeave(r) \/ CountOut(r) \/ LastReaderUnlocks(r) \/ ReaderReturn(r)

-----------------------------------------------------------------------------
(* game_sync_writer_enter and game_sync_writer_exit                        *)

WriterCall(w) ==
  /\ Goto(w, "idle", "enter")
  /\ UNCHANGED <<master_writing, gamestate_mutex, readers_count_mutex, readers_count>>

CloseTurnstile(w) ==
  /\ Goto(w, "enter", "drain")
  /\ SemWait(master_writing)
  /\ UNCHANGED <<gamestate_mutex, readers_count_mutex, readers_count>>

(* Mutant: sem_trywait, its failure ignored.                               *)
StartWritingImpatient(w) ==
  /\ Goto(w, "drain", "writing")
  /\ gamestate_mutex' = 0
  /\ UNCHANGED <<master_writing, readers_count_mutex, readers_count>>

StartWriting(w) ==
  /\ Goto(w, "drain", "writing")
  /\ SemWait(gamestate_mutex)
  /\ UNCHANGED <<master_writing, readers_count_mutex, readers_count>>

StopWriting(w) ==
  /\ Goto(w, "writing", "release")
  /\ SemPost(gamestate_mutex)
  /\ UNCHANGED <<master_writing, readers_count_mutex, readers_count>>

(* Mutant: the writer releases the same semaphore twice.                   *)
WriterReturnWrongSem(w) ==
  /\ Goto(w, "release", "idle")
  /\ SemPost(gamestate_mutex)
  /\ UNCHANGED <<master_writing, readers_count_mutex, readers_count>>

WriterReturn(w) ==
  /\ Goto(w, "release", "idle")
  /\ SemPost(master_writing)
  /\ UNCHANGED <<gamestate_mutex, readers_count_mutex, readers_count>>

WriterEnter(w) == CloseTurnstile(w) \/ StartWriting(w)
WriterExit(w)  == StopWriting(w) \/ WriterReturn(w)

-----------------------------------------------------------------------------
ReaderStep(r) == ReaderEnter(r) \/ StopReading(r) \/ ReaderExit(r)
WriterStep(w) == WriterEnter(w) \/ WriterExit(w)

Next ==
  \/ \E r \in Readers : ReaderCall(r) \/ ReaderStep(r)
  \/ \E w \in Writers : WriterCall(w) \/ WriterStep(w)

Spec == Init /\ [][Next]_syncVars

(* A process keeps running inside the lock's code and while it holds the   *)
(* lock, since no code there loops without bound.  A waiter is only        *)
(* guaranteed a semaphore that stays available (weak fairness): POSIX does *)
(* not order the waiters of a semaphore.  Calling is up to the process.    *)
FairSpec ==
  /\ Spec
  /\ \A r \in Readers : WF_syncVars(ReaderStep(r))
  /\ \A w \in Writers : WF_syncVars(WriterStep(w))

-----------------------------------------------------------------------------
TypeOK ==
  /\ master_writing \in {0, 1}
  /\ gamestate_mutex \in {0, 1}
  /\ readers_count_mutex \in {0, 1}
  /\ readers_count \in Nat
  /\ lpc \in [Readers \union Writers -> ReaderPC \union WriterPC]
  /\ \A r \in Readers : lpc[r] \in ReaderPC
  /\ \A w \in Writers : lpc[w] \in WriterPC

(* Who holds what, read off the program counters.                          *)
TurnstileHolders ==
  {r \in Readers : lpc[r] = "turnstile"}
    \union {w \in Writers : lpc[w] \in {"drain", "writing", "release"}}
CountHolders ==
  {r \in Readers : lpc[r] \in {"counting", "first", "counted", "leaving", "last", "left"}}
Counted ==
  {r \in Readers : lpc[r] \in {"first", "counted", "reading", "leave", "leaving"}}
ReaderGroup ==
  {r \in Readers : lpc[r] \in {"counted", "reading", "leave", "leaving", "last"}}
WritersInside == {w \in Writers : lpc[w] = "writing"}

(* Readers and a writer never hold the lock together, and no two writers   *)
(* do: game_sync_writer_enter "blocks until no readers or other writers    *)
(* hold the lock".  A reader holds it from the moment its group owns       *)
(* gamestate_mutex until the last of the group gives it back.              *)
MutualExclusion ==
  /\ \A w \in WritersInside : ReaderGroup = {}
  /\ \A v, w \in WritersInside : v = w

(* No semaphore is lost or duplicated: each is locked exactly while one    *)
(* process (or, for gamestate_mutex, one group of readers) holds it, so    *)
(* when everyone is out the lock is back at the initial values the unit    *)
(* tests look for after every balanced sequence.                           *)
ExactlyOneHolder(sem, holders) ==
  /\ (sem = 0) <=> (holders # {})
  /\ \A p, q \in holders : p = q

SemaphoresConserved ==
  /\ ExactlyOneHolder(master_writing, TurnstileHolders)
  /\ ExactlyOneHolder(readers_count_mutex, CountHolders)
  /\ (gamestate_mutex = 0) <=> (ReaderGroup \union WritersInside # {})

(* readers_count is the number of readers that counted themselves in, and  *)
(* the two branches on it see the truth: the reader that saw 1 is alone,   *)
(* the one that saw 0 leaves nobody behind.                                *)
CountExact ==
  /\ readers_count = Cardinality(Counted)
  /\ \A r \in Readers :
       /\ lpc[r] = "first" => Counted = {r}
       /\ lpc[r] = "last" => Counted = {}

(* Writer preference: once a writer has taken the turnstile, a reader that *)
(* has not passed it yet cannot get any further until the writer is done.  *)
WriterPreference ==
  [][\A r \in Readers, w \in Writers :
       lpc[r] = "enter" /\ lpc[w] \in {"drain", "writing"} => lpc'[r] = "enter"]_syncVars

(* The point of the turnstile: a writer that closed it gets the lock, even *)
(* when no semaphore favours anyone, because the readers ahead of it drain *)
(* and no new one joins them.                                              *)
WriterNotStarved ==
  \A w \in Writers : (lpc[w] = "drain") ~> (lpc[w] = "writing")

(* GameSync implements the abstract lock.                                  *)
Abstract == INSTANCE RWLock WITH
  reading <- {r \in Readers : lpc[r] = "reading"},
  writing <- WritersInside

ImplementsRWLock == Abstract!Spec
=============================================================================
