--------------------------- MODULE GameSyncProofs ---------------------------
(* Proofs about the readers-writer lock, for any finite set of readers and *)
(* any set of writers.                                                     *)
EXTENDS GameSync, FiniteSetTheorems, TLAPS

(* The inductive invariant: the lock excludes because gamestate_mutex is   *)
(* held by the writer or by a group of readers, which rests on             *)
(* readers_count being exact, which rests on readers_count_mutex being     *)
(* held by one process at a time.                                          *)
IInv == TypeOK /\ MutualExclusion /\ SemaphoresConserved /\ CountExact

(* The readers counted in are finitely many, so counting them makes sense. *)
LEMMA CountedFinite == IsFiniteSet(Counted) /\ Cardinality(Counted) \in Nat
  BY ProcessAssumption, FS_Subset, FS_CardinalityType DEF Counted

(* While somebody is counted in, readers_count is not zero: what makes the *)
(* decrement of game_sync_reader_exit safe on an unsigned counter.         *)
LEMMA CountedPositive ==
  ASSUME IInv, NEW r \in Counted
  PROVE  readers_count \in Nat \ {0}
  BY CountedFinite, FS_EmptySet DEF IInv, TypeOK, CountExact, Counted, ReaderPC

(* A reader about to count itself in finds either nobody counted, or a     *)
(* group of readers that owns gamestate_mutex.                             *)
LEMMA GroupWhenCounted ==
  ASSUME IInv, NEW r \in Readers, lpc[r] \in {"counting", "leaving"}
  PROVE  Counted \subseteq ReaderGroup
  BY DEF IInv, SemaphoresConserved, ExactlyOneHolder, CountHolders, Counted, ReaderGroup

(* game_sync_init establishes the invariant.                               *)
THEOREM InitIInv == Init => IInv
  <1> SUFFICES ASSUME Init PROVE IInv
    OBVIOUS
  <1>1. TypeOK
    BY ProcessAssumption DEF Init, TypeOK, ReaderPC, WriterPC
  <1>2. MutualExclusion
    BY DEF Init, MutualExclusion, WritersInside, ReaderGroup
  <1>3. SemaphoresConserved
    BY DEF Init, SemaphoresConserved, ExactlyOneHolder, TurnstileHolders, CountHolders,
           ReaderGroup, WritersInside
  <1>4. CountExact
    <2>1. Counted = {}
      BY DEF Init, Counted
    <2>. QED
      BY <2>1, FS_EmptySet DEF Init, CountExact
  <1>. QED
    BY <1>1, <1>2, <1>3, <1>4 DEF IInv

(* Every step keeps the types: a post never finds its semaphore at 1, and  *)
(* the decrement never finds the counter at 0.                             *)
LEMMA TypeStep == IInv /\ [Next]_syncVars => TypeOK'
  <1> SUFFICES ASSUME IInv, [Next]_syncVars PROVE TypeOK'
    OBVIOUS
  <1> USE ProcessAssumption DEF IInv, TypeOK, ReaderPC, WriterPC, Goto, SemWait, SemPost,
          SemaphoresConserved, ExactlyOneHolder, TurnstileHolders, CountHolders,
           ReaderGroup, WritersInside
  <1>1. ASSUME NEW r \in Readers, ReaderCall(r) PROVE TypeOK'
    BY <1>1 DEF ReaderCall
  <1>2. ASSUME NEW r \in Readers, PassTurnstile(r) PROVE TypeOK'
    BY <1>2 DEF PassTurnstile
  <1>3. ASSUME NEW r \in Readers, ReopenTurnstile(r) PROVE TypeOK'
    BY <1>3 DEF ReopenTurnstile
  <1>4. ASSUME NEW r \in Readers, LockCount(r) PROVE TypeOK'
    BY <1>4 DEF LockCount
  <1>5. ASSUME NEW r \in Readers, CountIn(r) PROVE TypeOK'
    BY <1>5 DEF CountIn
  <1>6. ASSUME NEW r \in Readers, FirstReaderLocks(r) PROVE TypeOK'
    BY <1>6 DEF FirstReaderLocks
  <1>7. ASSUME NEW r \in Readers, StartReading(r) PROVE TypeOK'
    BY <1>7 DEF StartReading
  <1>8. ASSUME NEW r \in Readers, StopReading(r) PROVE TypeOK'
    BY <1>8 DEF StopReading
  <1>9. ASSUME NEW r \in Readers, LockCountToLeave(r) PROVE TypeOK'
    BY <1>9 DEF LockCountToLeave
  <1>10. ASSUME NEW r \in Readers, CountOut(r) PROVE TypeOK'
    BY <1>10, CountedPositive DEF CountOut, Counted
  <1>11. ASSUME NEW r \in Readers, LastReaderUnlocks(r) PROVE TypeOK'
    BY <1>11 DEF LastReaderUnlocks
  <1>12. ASSUME NEW r \in Readers, ReaderReturn(r) PROVE TypeOK'
    BY <1>12 DEF ReaderReturn
  <1>13. ASSUME NEW w \in Writers, WriterCall(w) PROVE TypeOK'
    BY <1>13 DEF WriterCall
  <1>14. ASSUME NEW w \in Writers, CloseTurnstile(w) PROVE TypeOK'
    BY <1>14 DEF CloseTurnstile
  <1>15. ASSUME NEW w \in Writers, StartWriting(w) PROVE TypeOK'
    BY <1>15 DEF StartWriting
  <1>16. ASSUME NEW w \in Writers, StopWriting(w) PROVE TypeOK'
    BY <1>16 DEF StopWriting
  <1>17. ASSUME NEW w \in Writers, WriterReturn(w) PROVE TypeOK'
    BY <1>17 DEF WriterReturn
  <1>18. CASE UNCHANGED syncVars
    BY <1>18 DEF syncVars
  <1>. QED
    BY <1>1, <1>2, <1>3, <1>4, <1>5, <1>6, <1>7, <1>8, <1>9,
       <1>10, <1>11, <1>12, <1>13, <1>14, <1>15, <1>16, <1>17, <1>18
       DEF Next, ReaderStep, WriterStep, ReaderEnter, ReaderExit, WriterEnter, WriterExit

(* Every step keeps readers and the writer apart.                          *)
LEMMA ExclusionStep == IInv /\ [Next]_syncVars => MutualExclusion'
  <1> SUFFICES ASSUME IInv, [Next]_syncVars PROVE MutualExclusion'
    OBVIOUS
  <1> USE ProcessAssumption DEF IInv, TypeOK, ReaderPC, WriterPC, Goto, SemWait, SemPost,
         MutualExclusion, SemaphoresConserved, ExactlyOneHolder, CountHolders,
         ReaderGroup, WritersInside
  <1>1. ASSUME NEW r \in Readers, ReaderCall(r) PROVE MutualExclusion'
    BY <1>1 DEF ReaderCall
  <1>2. ASSUME NEW r \in Readers, PassTurnstile(r) PROVE MutualExclusion'
    BY <1>2 DEF PassTurnstile
  <1>3. ASSUME NEW r \in Readers, ReopenTurnstile(r) PROVE MutualExclusion'
    BY <1>3 DEF ReopenTurnstile
  <1>4. ASSUME NEW r \in Readers, LockCount(r) PROVE MutualExclusion'
    BY <1>4 DEF LockCount
  <1>5. ASSUME NEW r \in Readers, CountIn(r) PROVE MutualExclusion'
    <2>1. readers_count # 0 => Counted # {}
      BY FS_EmptySet DEF CountExact
    <2>2. Counted \subseteq ReaderGroup
      BY <1>5, GroupWhenCounted DEF CountIn
    <2>. QED
      BY <1>5, <2>1, <2>2 DEF CountIn
  <1>6. ASSUME NEW r \in Readers, FirstReaderLocks(r) PROVE MutualExclusion'
    BY <1>6 DEF FirstReaderLocks
  <1>7. ASSUME NEW r \in Readers, StartReading(r) PROVE MutualExclusion'
    BY <1>7 DEF StartReading
  <1>8. ASSUME NEW r \in Readers, StopReading(r) PROVE MutualExclusion'
    BY <1>8 DEF StopReading
  <1>9. ASSUME NEW r \in Readers, LockCountToLeave(r) PROVE MutualExclusion'
    BY <1>9 DEF LockCountToLeave
  <1>10. ASSUME NEW r \in Readers, CountOut(r) PROVE MutualExclusion'
    BY <1>10 DEF CountOut
  <1>11. ASSUME NEW r \in Readers, LastReaderUnlocks(r) PROVE MutualExclusion'
    BY <1>11 DEF LastReaderUnlocks
  <1>12. ASSUME NEW r \in Readers, ReaderReturn(r) PROVE MutualExclusion'
    BY <1>12 DEF ReaderReturn
  <1>13. ASSUME NEW w \in Writers, WriterCall(w) PROVE MutualExclusion'
    BY <1>13 DEF WriterCall
  <1>14. ASSUME NEW w \in Writers, CloseTurnstile(w) PROVE MutualExclusion'
    BY <1>14 DEF CloseTurnstile
  <1>15. ASSUME NEW w \in Writers, StartWriting(w) PROVE MutualExclusion'
    BY <1>15 DEF StartWriting
  <1>16. ASSUME NEW w \in Writers, StopWriting(w) PROVE MutualExclusion'
    BY <1>16 DEF StopWriting
  <1>17. ASSUME NEW w \in Writers, WriterReturn(w) PROVE MutualExclusion'
    BY <1>17 DEF WriterReturn
  <1>18. CASE UNCHANGED syncVars
    BY <1>18 DEF syncVars
  <1>. QED
    BY <1>1, <1>2, <1>3, <1>4, <1>5, <1>6, <1>7, <1>8, <1>9,
       <1>10, <1>11, <1>12, <1>13, <1>14, <1>15, <1>16, <1>17, <1>18
       DEF Next, ReaderStep, WriterStep, ReaderEnter, ReaderExit, WriterEnter, WriterExit

(* Every step keeps each semaphore locked exactly while it is held.        *)
LEMMA SemaphoreStep == IInv /\ [Next]_syncVars => SemaphoresConserved'
  <1> SUFFICES ASSUME IInv, [Next]_syncVars PROVE SemaphoresConserved'
    OBVIOUS
  <1> USE ProcessAssumption DEF IInv, TypeOK, ReaderPC, WriterPC, Goto, SemWait, SemPost,
         MutualExclusion, SemaphoresConserved, ExactlyOneHolder, TurnstileHolders,
         CountHolders, ReaderGroup, WritersInside
  <1>1. ASSUME NEW r \in Readers, ReaderCall(r) PROVE SemaphoresConserved'
    BY <1>1 DEF ReaderCall
  <1>2. ASSUME NEW r \in Readers, PassTurnstile(r) PROVE SemaphoresConserved'
    BY <1>2 DEF PassTurnstile
  <1>3. ASSUME NEW r \in Readers, ReopenTurnstile(r) PROVE SemaphoresConserved'
    BY <1>3 DEF ReopenTurnstile
  <1>4. ASSUME NEW r \in Readers, LockCount(r) PROVE SemaphoresConserved'
    BY <1>4 DEF LockCount
  <1>5. ASSUME NEW r \in Readers, CountIn(r) PROVE SemaphoresConserved'
    <2>1. readers_count # 0 => Counted # {}
      BY FS_EmptySet DEF CountExact
    <2>2. Counted \subseteq ReaderGroup
      BY <1>5, GroupWhenCounted DEF CountIn
    <2>. QED
      BY <1>5, <2>1, <2>2 DEF CountIn
  <1>6. ASSUME NEW r \in Readers, FirstReaderLocks(r) PROVE SemaphoresConserved'
    BY <1>6 DEF FirstReaderLocks
  <1>7. ASSUME NEW r \in Readers, StartReading(r) PROVE SemaphoresConserved'
    BY <1>7 DEF StartReading
  <1>8. ASSUME NEW r \in Readers, StopReading(r) PROVE SemaphoresConserved'
    BY <1>8 DEF StopReading
  <1>9. ASSUME NEW r \in Readers, LockCountToLeave(r) PROVE SemaphoresConserved'
    BY <1>9 DEF LockCountToLeave
  <1>10. ASSUME NEW r \in Readers, CountOut(r) PROVE SemaphoresConserved'
    <2>1. Counted # {} /\ Counted \subseteq ReaderGroup
      BY <1>10, GroupWhenCounted DEF CountOut, Counted
    <2>2. readers_count - 1 # 0 => Counted \ {r} # {}
      <3>1. r \in Counted
        BY <1>10 DEF CountOut, Counted
      <3>2. Cardinality(Counted \ {r}) = readers_count - 1
        BY <3>1, CountedFinite, FS_RemoveElement DEF CountExact
      <3>. QED
        BY <3>2, FS_EmptySet
    <2>3. \A q \in Counted \ {r} : q \in ReaderGroup'
      BY <1>10, <2>1 DEF CountOut, Counted
    <2>. QED
      BY <1>10, <2>1, <2>2, <2>3 DEF CountOut
  <1>11. ASSUME NEW r \in Readers, LastReaderUnlocks(r) PROVE SemaphoresConserved'
    <2>1. Counted = {}
      BY <1>11 DEF LastReaderUnlocks, CountExact
    <2>2. ReaderGroup = {r}
      BY <1>11, <2>1 DEF LastReaderUnlocks, Counted
    <2>. QED
      BY <1>11, <2>2 DEF LastReaderUnlocks
  <1>12. ASSUME NEW r \in Readers, ReaderReturn(r) PROVE SemaphoresConserved'
    BY <1>12 DEF ReaderReturn
  <1>13. ASSUME NEW w \in Writers, WriterCall(w) PROVE SemaphoresConserved'
    BY <1>13 DEF WriterCall
  <1>14. ASSUME NEW w \in Writers, CloseTurnstile(w) PROVE SemaphoresConserved'
    BY <1>14 DEF CloseTurnstile
  <1>15. ASSUME NEW w \in Writers, StartWriting(w) PROVE SemaphoresConserved'
    BY <1>15 DEF StartWriting
  <1>16. ASSUME NEW w \in Writers, StopWriting(w) PROVE SemaphoresConserved'
    BY <1>16 DEF StopWriting
  <1>17. ASSUME NEW w \in Writers, WriterReturn(w) PROVE SemaphoresConserved'
    BY <1>17 DEF WriterReturn
  <1>18. CASE UNCHANGED syncVars
    BY <1>18 DEF syncVars
  <1>. QED
    BY <1>1, <1>2, <1>3, <1>4, <1>5, <1>6, <1>7, <1>8, <1>9,
       <1>10, <1>11, <1>12, <1>13, <1>14, <1>15, <1>16, <1>17, <1>18
       DEF Next, ReaderStep, WriterStep, ReaderEnter, ReaderExit, WriterEnter, WriterExit

(* Every step keeps readers_count exact; the two steps that change it are  *)
(* the ones that add or remove one member of Counted.                      *)
LEMMA CountStep == IInv /\ [Next]_syncVars => CountExact'
  <1> SUFFICES ASSUME IInv, [Next]_syncVars PROVE CountExact'
    OBVIOUS
  <1> USE ProcessAssumption DEF IInv, TypeOK, ReaderPC, WriterPC, Goto, SemWait, SemPost, CountExact
  <1>1. ASSUME NEW r \in Readers, ReaderCall(r) PROVE CountExact'
    <2>1. Counted' = Counted
      BY <1>1 DEF ReaderCall, Counted
    <2>. QED
      BY <1>1, <2>1 DEF ReaderCall, SemaphoresConserved, ExactlyOneHolder, CountHolders
  <1>2. ASSUME NEW r \in Readers, PassTurnstile(r) PROVE CountExact'
    <2>1. Counted' = Counted
      BY <1>2 DEF PassTurnstile, Counted
    <2>. QED
      BY <1>2, <2>1 DEF PassTurnstile, SemaphoresConserved, ExactlyOneHolder, CountHolders
  <1>3. ASSUME NEW r \in Readers, ReopenTurnstile(r) PROVE CountExact'
    <2>1. Counted' = Counted
      BY <1>3 DEF ReopenTurnstile, Counted
    <2>. QED
      BY <1>3, <2>1 DEF ReopenTurnstile, SemaphoresConserved, ExactlyOneHolder, CountHolders
  <1>4. ASSUME NEW r \in Readers, LockCount(r) PROVE CountExact'
    <2>1. Counted' = Counted
      BY <1>4 DEF LockCount, Counted
    <2>. QED
      BY <1>4, <2>1 DEF LockCount, SemaphoresConserved, ExactlyOneHolder, CountHolders
  <1>5. ASSUME NEW r \in Readers, CountIn(r) PROVE CountExact'
    <2>1. Counted' = Counted \union {r} /\ r \notin Counted
      BY <1>5 DEF CountIn, Counted
    <2>2. Cardinality(Counted') = Cardinality(Counted) + 1
      BY <2>1, CountedFinite, FS_AddElement
    <2>3. readers_count = 0 => Counted' = {r}
      BY <2>1, CountedFinite, FS_EmptySet
    <2>. QED
      BY <1>5, <2>1, <2>2, <2>3 DEF CountIn, SemaphoresConserved, ExactlyOneHolder, CountHolders
  <1>6. ASSUME NEW r \in Readers, FirstReaderLocks(r) PROVE CountExact'
    <2>1. Counted' = Counted
      BY <1>6 DEF FirstReaderLocks, Counted
    <2>. QED
      BY <1>6, <2>1 DEF FirstReaderLocks, SemaphoresConserved, ExactlyOneHolder, CountHolders
  <1>7. ASSUME NEW r \in Readers, StartReading(r) PROVE CountExact'
    <2>1. Counted' = Counted
      BY <1>7 DEF StartReading, Counted
    <2>. QED
      BY <1>7, <2>1 DEF StartReading, SemaphoresConserved, ExactlyOneHolder, CountHolders
  <1>8. ASSUME NEW r \in Readers, StopReading(r) PROVE CountExact'
    <2>1. Counted' = Counted
      BY <1>8 DEF StopReading, Counted
    <2>. QED
      BY <1>8, <2>1 DEF StopReading, SemaphoresConserved, ExactlyOneHolder, CountHolders
  <1>9. ASSUME NEW r \in Readers, LockCountToLeave(r) PROVE CountExact'
    <2>1. Counted' = Counted
      BY <1>9 DEF LockCountToLeave, Counted
    <2>. QED
      BY <1>9, <2>1 DEF LockCountToLeave, SemaphoresConserved, ExactlyOneHolder, CountHolders
  <1>10. ASSUME NEW r \in Readers, CountOut(r) PROVE CountExact'
    <2>1. Counted' = Counted \ {r} /\ r \in Counted
      BY <1>10 DEF CountOut, Counted
    <2>2. Cardinality(Counted') = Cardinality(Counted) - 1 /\ IsFiniteSet(Counted')
      BY <2>1, CountedFinite, FS_RemoveElement
    <2>3. readers_count - 1 = 0 => Counted' = {}
      BY <2>2, FS_EmptySet
    <2>. QED
      BY <1>10, <2>2, <2>3 DEF CountOut, SemaphoresConserved, ExactlyOneHolder, CountHolders
  <1>11. ASSUME NEW r \in Readers, LastReaderUnlocks(r) PROVE CountExact'
    <2>1. Counted' = Counted
      BY <1>11 DEF LastReaderUnlocks, Counted
    <2>. QED
      BY <1>11, <2>1 DEF LastReaderUnlocks, SemaphoresConserved, ExactlyOneHolder, CountHolders
  <1>12. ASSUME NEW r \in Readers, ReaderReturn(r) PROVE CountExact'
    <2>1. Counted' = Counted
      BY <1>12 DEF ReaderReturn, Counted
    <2>. QED
      BY <1>12, <2>1 DEF ReaderReturn, SemaphoresConserved, ExactlyOneHolder, CountHolders
  <1>13. ASSUME NEW w \in Writers, WriterCall(w) PROVE CountExact'
    <2>1. Counted' = Counted
      BY <1>13 DEF WriterCall, Counted
    <2>. QED
      BY <1>13, <2>1 DEF WriterCall, SemaphoresConserved, ExactlyOneHolder, CountHolders
  <1>14. ASSUME NEW w \in Writers, CloseTurnstile(w) PROVE CountExact'
    <2>1. Counted' = Counted
      BY <1>14 DEF CloseTurnstile, Counted
    <2>. QED
      BY <1>14, <2>1 DEF CloseTurnstile, SemaphoresConserved, ExactlyOneHolder, CountHolders
  <1>15. ASSUME NEW w \in Writers, StartWriting(w) PROVE CountExact'
    <2>1. Counted' = Counted
      BY <1>15 DEF StartWriting, Counted
    <2>. QED
      BY <1>15, <2>1 DEF StartWriting, SemaphoresConserved, ExactlyOneHolder, CountHolders
  <1>16. ASSUME NEW w \in Writers, StopWriting(w) PROVE CountExact'
    <2>1. Counted' = Counted
      BY <1>16 DEF StopWriting, Counted
    <2>. QED
      BY <1>16, <2>1 DEF StopWriting, SemaphoresConserved, ExactlyOneHolder, CountHolders
  <1>17. ASSUME NEW w \in Writers, WriterReturn(w) PROVE CountExact'
    <2>1. Counted' = Counted
      BY <1>17 DEF WriterReturn, Counted
    <2>. QED
      BY <1>17, <2>1 DEF WriterReturn, SemaphoresConserved, ExactlyOneHolder, CountHolders
  <1>18. CASE UNCHANGED syncVars
    BY <1>18 DEF syncVars, Counted, SemaphoresConserved
  <1>. QED
    BY <1>1, <1>2, <1>3, <1>4, <1>5, <1>6, <1>7, <1>8, <1>9,
       <1>10, <1>11, <1>12, <1>13, <1>14, <1>15, <1>16, <1>17, <1>18
       DEF Next, ReaderStep, WriterStep, ReaderEnter, ReaderExit, WriterEnter, WriterExit

(* The invariant is inductive.                                             *)
THEOREM NextIInv == IInv /\ [Next]_syncVars => IInv'
  BY TypeStep, ExclusionStep, SemaphoreStep, CountStep DEF IInv

(* The invariant holds in every state the lock can reach.                  *)
THEOREM Invariance == Spec => []IInv
  BY InitIInv, NextIInv, PTL DEF Spec

(* The lock's variables keep their types: its semaphores are binary.       *)
THEOREM TypeCorrect == Spec => []TypeOK
  BY Invariance, PTL DEF IInv

(* Readers and a writer never hold the lock together, nor do two writers.  *)
THEOREM Exclusion == Spec => []MutualExclusion
  BY Invariance, PTL DEF IInv

(* No semaphore of the lock is lost or duplicated.                         *)
THEOREM Conservation == Spec => []SemaphoresConserved
  BY Invariance, PTL DEF IInv

(* readers_count always counts the readers inside.                         *)
THEOREM ExactCount == Spec => []CountExact
  BY Invariance, PTL DEF IInv

(* Who is inside sem_wait on a semaphore that is 0.                        *)
Waits(p) ==
  \/ lpc[p] = "enter" /\ master_writing = 0
  \/ lpc[p] \in {"count", "leave"} /\ readers_count_mutex = 0
  \/ lpc[p] \in {"first", "drain"} /\ gamestate_mutex = 0

(* However many use the lock, not everybody in it waits for the others: a  *)
(* reader may wait for the turnstile while a writer that has it waits for  *)
(* the group of readers, one of which waits for the mutex of the counter.  *)
SomebodyRuns ==
  (\E p \in Readers \union Writers : lpc[p] # "idle") =>
    \E p \in Readers \union Writers : lpc[p] # "idle" /\ ~Waits(p)

(* Whoever holds gamestate_mutex runs once nobody holds the counter's.     *)
LEMMA GameHolderRuns ==
  ASSUME IInv, gamestate_mutex = 0, readers_count_mutex = 1
  PROVE  \E p \in Readers \union Writers : lpc[p] # "idle" /\ ~Waits(p)
  <1>1. PICK p \in ReaderGroup \union WritersInside : TRUE
    BY DEF IInv, SemaphoresConserved
  <1>2. p \in Readers \union Writers /\ lpc[p] \in {"counted", "reading", "leave", "leaving", "last", "writing"}
    BY <1>1 DEF ReaderGroup, WritersInside
  <1>. QED
    BY <1>2 DEF Waits

(* Whoever holds the counter's mutex runs, unless it is the first reader   *)
(* of a group waiting for a writer, which then runs.                       *)
LEMMA CountHolderRuns ==
  ASSUME IInv, readers_count_mutex = 0
  PROVE  \E p \in Readers \union Writers : lpc[p] # "idle" /\ ~Waits(p)
  <1>1. PICK q \in CountHolders : TRUE
    BY DEF IInv, SemaphoresConserved, ExactlyOneHolder
  <1>2. q \in Readers /\ lpc[q] \in {"counting", "first", "counted", "leaving", "last", "left"}
    BY <1>1 DEF CountHolders
  <1>3. CASE lpc[q] # "first" \/ gamestate_mutex # 0
    BY <1>2, <1>3 DEF Waits
  <1>4. CASE lpc[q] = "first" /\ gamestate_mutex = 0
    <2>1. Counted = {q} /\ \A r \in CountHolders : r = q
      BY <1>1, <1>2, <1>4 DEF IInv, CountExact, SemaphoresConserved, ExactlyOneHolder
    <2>2. ReaderGroup = {}
      <3>1. SUFFICES ASSUME NEW r \in ReaderGroup PROVE FALSE
        OBVIOUS
      <3>2. r \in Counted \/ r \in CountHolders
        BY DEF ReaderGroup, Counted, CountHolders
      <3>3. r = q
        BY <2>1, <3>2
      <3>. QED
        BY <1>4, <3>3 DEF ReaderGroup
    <2>3. PICK w \in WritersInside : TRUE
      BY <1>4, <2>2 DEF IInv, SemaphoresConserved
    <2>. QED
      BY <2>3 DEF WritersInside, Waits
  <1>. QED
    BY <1>3, <1>4

LEMMA RunsInside == IInv => SomebodyRuns
  <1> SUFFICES ASSUME IInv, NEW p \in Readers \union Writers, lpc[p] # "idle"
               PROVE  \E q \in Readers \union Writers : lpc[q] # "idle" /\ ~Waits(q)
    BY DEF SomebodyRuns
  <1>1. CASE readers_count_mutex = 0
    BY <1>1, CountHolderRuns
  <1>2. CASE readers_count_mutex # 0 /\ gamestate_mutex = 0
    <2>1. readers_count_mutex = 1
      BY <1>2 DEF IInv, TypeOK
    <2>. QED
      BY <1>2, <2>1, GameHolderRuns
  <1>3. CASE readers_count_mutex # 0 /\ gamestate_mutex # 0 /\ master_writing = 0
    <2>1. PICK q \in TurnstileHolders : TRUE
      BY <1>3 DEF IInv, SemaphoresConserved, ExactlyOneHolder
    <2>2. q \in Readers \union Writers /\ lpc[q] \in {"turnstile", "drain", "writing", "release"}
      BY <2>1 DEF TurnstileHolders
    <2>. QED
      BY <1>3, <2>2 DEF Waits
  <1>4. CASE readers_count_mutex # 0 /\ gamestate_mutex # 0 /\ master_writing # 0
    BY <1>4 DEF Waits
  <1>. QED
    BY <1>1, <1>2, <1>3, <1>4

(* The lock never deadlocks, for any number of readers and writers.        *)
THEOREM NeverStuck == Spec => []SomebodyRuns
  BY RunsInside, Invariance, PTL

(* A reader that has not passed the turnstile waits for the writer that    *)
(* has: the turnstile is then at 0.                                        *)
THEOREM WriterGoesFirst == Spec => WriterPreference
  <1>1. IInv /\ [Next]_syncVars =>
          [\A r \in Readers, w \in Writers :
             lpc[r] = "enter" /\ lpc[w] \in {"drain", "writing"} => lpc'[r] = "enter"]_syncVars
    <2> SUFFICES ASSUME IInv, Next, NEW r \in Readers, NEW w \in Writers,
                        lpc[r] = "enter", lpc[w] \in {"drain", "writing"}
                 PROVE  lpc'[r] = "enter"
      OBVIOUS
    <2>1. master_writing = 0
      BY DEF IInv, SemaphoresConserved, ExactlyOneHolder, TurnstileHolders
    <2>. QED
      BY <2>1 DEF IInv, TypeOK, Next, ReaderStep, WriterStep, ReaderEnter, ReaderExit, WriterEnter,
         WriterExit, Goto, SemWait, ReaderCall, PassTurnstile, ReopenTurnstile, LockCount,
         CountIn, FirstReaderLocks, StartReading, StopReading, LockCountToLeave, CountOut,
         LastReaderUnlocks, ReaderReturn, WriterCall, CloseTurnstile, StartWriting,
         StopWriting, WriterReturn
  <1>. QED
    BY <1>1, Invariance, PTL DEF Spec, WriterPreference

(* Every step of the semaphores is a step of the abstract lock, or changes *)
(* nothing in it.                                                          *)
LEMMA AbstractStep == IInv /\ [Next]_syncVars => [Abstract!Next]_Abstract!vars
  <1> SUFFICES ASSUME IInv, [Next]_syncVars PROVE [Abstract!Next]_Abstract!vars
    OBVIOUS
  <1> USE ProcessAssumption DEF IInv, TypeOK, Goto, Abstract!vars, WritersInside
  <1>1. ASSUME NEW r \in Readers, ReaderCall(r) PROVE [Abstract!Next]_Abstract!vars
    BY <1>1 DEF ReaderCall
  <1>2. ASSUME NEW r \in Readers, PassTurnstile(r) PROVE [Abstract!Next]_Abstract!vars
    BY <1>2 DEF PassTurnstile
  <1>3. ASSUME NEW r \in Readers, ReopenTurnstile(r) PROVE [Abstract!Next]_Abstract!vars
    BY <1>3 DEF ReopenTurnstile
  <1>4. ASSUME NEW r \in Readers, LockCount(r) PROVE [Abstract!Next]_Abstract!vars
    BY <1>4 DEF LockCount
  <1>5. ASSUME NEW r \in Readers, CountIn(r) PROVE [Abstract!Next]_Abstract!vars
    BY <1>5 DEF CountIn
  <1>6. ASSUME NEW r \in Readers, FirstReaderLocks(r) PROVE [Abstract!Next]_Abstract!vars
    BY <1>6 DEF FirstReaderLocks
  <1>7. ASSUME NEW r \in Readers, StartReading(r) PROVE [Abstract!Next]_Abstract!vars
    <2>1. Abstract!BeginRead(r)
      BY <1>7 DEF StartReading, Abstract!BeginRead, MutualExclusion, ReaderGroup
    <2>. QED
      BY <2>1 DEF Abstract!Next
  <1>8. ASSUME NEW r \in Readers, StopReading(r) PROVE [Abstract!Next]_Abstract!vars
    <2>1. Abstract!EndRead(r)
      BY <1>8 DEF StopReading, Abstract!EndRead
    <2>. QED
      BY <2>1 DEF Abstract!Next
  <1>9. ASSUME NEW r \in Readers, LockCountToLeave(r) PROVE [Abstract!Next]_Abstract!vars
    BY <1>9 DEF LockCountToLeave
  <1>10. ASSUME NEW r \in Readers, CountOut(r) PROVE [Abstract!Next]_Abstract!vars
    BY <1>10 DEF CountOut
  <1>11. ASSUME NEW r \in Readers, LastReaderUnlocks(r) PROVE [Abstract!Next]_Abstract!vars
    BY <1>11 DEF LastReaderUnlocks
  <1>12. ASSUME NEW r \in Readers, ReaderReturn(r) PROVE [Abstract!Next]_Abstract!vars
    BY <1>12 DEF ReaderReturn
  <1>13. ASSUME NEW w \in Writers, WriterCall(w) PROVE [Abstract!Next]_Abstract!vars
    BY <1>13 DEF WriterCall
  <1>14. ASSUME NEW w \in Writers, CloseTurnstile(w) PROVE [Abstract!Next]_Abstract!vars
    BY <1>14 DEF CloseTurnstile
  <1>15. ASSUME NEW w \in Writers, StartWriting(w) PROVE [Abstract!Next]_Abstract!vars
    <2>1. Abstract!BeginWrite(w)
      BY <1>15 DEF StartWriting, Abstract!BeginWrite, SemWait, SemaphoresConserved, ReaderGroup
    <2>. QED
      BY <2>1 DEF Abstract!Next
  <1>16. ASSUME NEW w \in Writers, StopWriting(w) PROVE [Abstract!Next]_Abstract!vars
    <2>1. Abstract!EndWrite(w)
      BY <1>16 DEF StopWriting, Abstract!EndWrite
    <2>. QED
      BY <2>1 DEF Abstract!Next
  <1>17. ASSUME NEW w \in Writers, WriterReturn(w) PROVE [Abstract!Next]_Abstract!vars
    BY <1>17 DEF WriterReturn
  <1>18. CASE UNCHANGED syncVars
    BY <1>18 DEF syncVars
  <1>. QED
    BY <1>1, <1>2, <1>3, <1>4, <1>5, <1>6, <1>7, <1>8, <1>9,
       <1>10, <1>11, <1>12, <1>13, <1>14, <1>15, <1>16, <1>17, <1>18
       DEF Next, ReaderStep, WriterStep, ReaderEnter, ReaderExit, WriterEnter, WriterExit

(* The semaphores of game_sync.c implement the abstract lock.              *)
THEOREM Refinement == Spec => ImplementsRWLock
  <1>1. Init => Abstract!Init
    BY ProcessAssumption DEF Init, Abstract!Init, WritersInside
  <1>. QED
    BY <1>1, Invariance, AbstractStep, PTL DEF Spec, ImplementsRWLock, Abstract!Spec
=============================================================================
