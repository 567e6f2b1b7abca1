---------------------------- MODULE ReadersWriters ----------------------------
(***************************************************************************)
(* semaphore/reader_writer: reader and writer threads that share a message *)
(* buffer.  Readers count themselves under sem_mutex; the first one in     *)
(* takes sem_write for all of them and the last one out gives it back.     *)
(* The buffer is read and written in two halves, so that a read that       *)
(* overlaps a write shows.  Threads are modelled from the moment they      *)
(* exist: a thread main has not created yet is one that has not moved.     *)
(*                                                                         *)
(* The label of a thread is the step it takes next; sleeps are not steps.  *)
(***************************************************************************)
EXTENDS Integers, FiniteSets

CONSTANTS
  Readers, Writers,
  Kinds            \* messages of one writer that can be told apart

ASSUME ThreadAssumption ==
  /\ IsFiniteSet(Readers) /\ IsFiniteSet(Writers)
  /\ Readers \cap Writers = {}
  /\ Kinds \in Nat \ {0}

VARIABLES
  readers,               \* shared.readers
  buffer,                \* shared.buffer, its two halves
  sem_mutex, sem_write,
  pc,
  count,                 \* each writer's count, modulo Kinds
  seen,                  \* each reader's first half of what it reads
  exited                 \* the SIGINT handler ended the process

vars == <<readers, buffer, sem_mutex, sem_write, pc, count, seen, exited>>

Threads == Readers \cup Writers

Initial == <<"initial", 0>>
Messages == {Initial} \cup (Writers \X (0 .. Kinds - 1))

ReaderLabels ==
  {"lock_in", "count_in", "first", "unlock_in", "read_1", "read_2",
   "lock_out", "count_out", "last", "unlock_out"}
WriterLabels == {"lock", "write_1", "write_2", "unlock"}

\* create_resource
Init ==
  /\ readers = 0
  /\ buffer = <<Initial, Initial>>
  /\ sem_mutex = 1 /\ sem_write = 1
  /\ pc = [t \in Threads |-> IF t \in Readers THEN "lock_in" ELSE "lock"]
  /\ count = [w \in Writers |-> 0]
  /\ seen = [r \in Readers |-> Initial]
  /\ exited = FALSE

Goto(t, from, to) == ~exited /\ pc[t] = from /\ pc' = [pc EXCEPT ![t] = to]

sem_wait(sem) == sem > 0 /\ sem' = sem - 1
sem_post(sem) == sem' = sem + 1

-------------------------------------------------------------------------------
\* Mutants: the wrong reader waits for the writer, the last one never lets it in,
\* a writer that does not wait or writes only half

IsFirstOff == readers = 2
LastNeverPosts(r) ==
  /\ Goto(r, "last", "unlock_out")
  /\ UNCHANGED <<readers, buffer, sem_mutex, sem_write, count, seen, exited>>
AcquireUnchecked(w) ==
  /\ Goto(w, "lock", "write_1")
  /\ sem_write' = 0
  /\ UNCHANGED <<readers, buffer, sem_mutex, count, seen, exited>>
WriteHalf(w) ==
  /\ Goto(w, "write_2", "unlock")
  /\ UNCHANGED <<readers, buffer, sem_mutex, sem_write, count, seen, exited>>

-------------------------------------------------------------------------------
\* create_reader

IsFirst == readers = 1
IsLast == readers = 0

LockIn(r) ==
  /\ Goto(r, "lock_in", "count_in")
  /\ sem_wait(sem_mutex)
  /\ UNCHANGED <<readers, buffer, sem_write, count, seen, exited>>

CountIn(r) ==
  /\ Goto(r, "count_in", "first")
  /\ readers' = readers + 1
  /\ UNCHANGED <<buffer, sem_mutex, sem_write, count, seen, exited>>

First(r) ==
  /\ Goto(r, "first", "unlock_in")
  /\ IF IsFirst THEN sem_wait(sem_write) ELSE UNCHANGED sem_write
  /\ UNCHANGED <<readers, buffer, sem_mutex, count, seen, exited>>

UnlockIn(r) ==
  /\ Goto(r, "unlock_in", "read_1")
  /\ sem_post(sem_mutex)
  /\ UNCHANGED <<readers, buffer, sem_write, count, seen, exited>>

Read1(r) ==
  /\ Goto(r, "read_1", "read_2")
  /\ seen' = [seen EXCEPT ![r] = buffer[1]]
  /\ UNCHANGED <<readers, buffer, sem_mutex, sem_write, count, exited>>

Read2(r) ==
  /\ Goto(r, "read_2", "lock_out")
  /\ seen' = [seen EXCEPT ![r] = Initial]
  /\ UNCHANGED <<readers, buffer, sem_mutex, sem_write, count, exited>>

LockOut(r) ==
  /\ Goto(r, "lock_out", "count_out")
  /\ sem_wait(sem_mutex)
  /\ UNCHANGED <<readers, buffer, sem_write, count, seen, exited>>

CountOut(r) ==
  /\ Goto(r, "count_out", "last")
  /\ readers' = readers - 1
  /\ UNCHANGED <<buffer, sem_mutex, sem_write, count, seen, exited>>

Last(r) ==
  /\ Goto(r, "last", "unlock_out")
  /\ IF IsLast THEN sem_post(sem_write) ELSE UNCHANGED sem_write
  /\ UNCHANGED <<readers, buffer, sem_mutex, count, seen, exited>>

UnlockOut(r) ==
  /\ Goto(r, "unlock_out", "lock_in")
  /\ sem_post(sem_mutex)
  /\ UNCHANGED <<readers, buffer, sem_write, count, seen, exited>>

Reader(r) ==
  \/ LockIn(r) \/ CountIn(r) \/ First(r) \/ UnlockIn(r) \/ Read1(r)
  \/ Read2(r) \/ LockOut(r) \/ CountOut(r) \/ Last(r) \/ UnlockOut(r)

-------------------------------------------------------------------------------
\* create_writer

Acquire(w) ==
  /\ Goto(w, "lock", "write_1")
  /\ sem_wait(sem_write)
  /\ UNCHANGED <<readers, buffer, sem_mutex, count, seen, exited>>

Write1(w) ==
  /\ Goto(w, "write_1", "write_2")
  /\ count' = [count EXCEPT ![w] = (@ + 1) % Kinds]
  /\ buffer' = [buffer EXCEPT ![1] = <<w, count'[w]>>]
  /\ UNCHANGED <<readers, sem_mutex, sem_write, seen, exited>>

Write2(w) ==
  /\ Goto(w, "write_2", "unlock")
  /\ buffer' = [buffer EXCEPT ![2] = <<w, count[w]>>]
  /\ UNCHANGED <<readers, sem_mutex, sem_write, count, seen, exited>>

Release(w) ==
  /\ Goto(w, "unlock", "lock")
  /\ sem_post(sem_write)
  /\ UNCHANGED <<readers, buffer, sem_mutex, count, seen, exited>>

Writer(w) == Acquire(w) \/ Write1(w) \/ Write2(w) \/ Release(w)

-------------------------------------------------------------------------------
\* handle_siginit, on whichever thread the signal arrives: the semaphores are
\* destroyed, which changes no value, and the process ends with every thread.
Interrupt ==
  /\ ~exited
  /\ exited' = TRUE
  /\ UNCHANGED <<readers, buffer, sem_mutex, sem_write, pc, count, seen>>

\* Lets TLC tell the end of the process from a deadlock.
Exited == exited /\ UNCHANGED vars

Next ==
  \/ \E r \in Readers : Reader(r)
  \/ \E w \in Writers : Writer(w)
  \/ Interrupt \/ Exited

SafeSpec == Init /\ [][Next]_vars

\* Every thread runs.  A thread in sem_wait is woken in the end when the
\* semaphore is posted again and again: the kernel wakes its waiters in the
\* order in which they came, and who posts then sleeps for seconds.
Fairness ==
  /\ \A r \in Readers : /\ WF_vars(Reader(r))
                        /\ SF_vars(LockIn(r) \/ First(r) \/ LockOut(r))
  /\ \A w \in Writers : WF_vars(Writer(w)) /\ SF_vars(Acquire(w))

Spec == SafeSpec /\ Fairness

-------------------------------------------------------------------------------
\* Every variable keeps its type; both semaphores stay binary.
TypeOK ==
  /\ readers \in 0 .. Cardinality(Readers)
  /\ buffer \in Messages \X Messages
  /\ sem_mutex \in {0, 1} /\ sem_write \in {0, 1}
  /\ pc \in [Threads -> ReaderLabels \cup WriterLabels]
  /\ \A t \in Threads : pc[t] \in IF t \in Readers THEN ReaderLabels ELSE WriterLabels
  /\ count \in [Writers -> 0 .. Kinds - 1]
  /\ seen \in [Readers -> Messages]
  /\ exited \in BOOLEAN

Reading == {r \in Readers : pc[r] \in {"read_1", "read_2"}}
Writing == {w \in Writers : pc[w] \in {"write_1", "write_2", "unlock"}}

\* What a reader prints is one message, never half of one and half of another,
\* and a message at rest is whole.
NoTornRead ==
  /\ \A r \in Readers : pc[r] = "read_2" => buffer[2] = seen[r]
  /\ Writing = {} => buffer[1] = buffer[2]

\* Readers that shared.readers counts.
Counted ==
  {r \in Readers : pc[r] \in {"first", "unlock_in", "read_1", "read_2",
                              "lock_out", "count_out"}}

\* main.cpp:29, :35: readers is the number of readers inside, and sem_write is
\* taken exactly while a writer or the group of counted readers owns it, the
\* first reader after, the last one before its own step on it.
CountAndOwner ==
  /\ readers = Cardinality(Counted)
  /\ sem_write = 0 <=>
       \/ Writing # {}
       \/ \E r \in Counted : pc[r] # "first"
       \/ \E r \in Readers : pc[r] = "last" /\ readers = 0

Lock == INSTANCE ReadWriteLock WITH reading <- Reading, writing <- Writing

\* main.cpp:22-28: the threads implement a read-write lock.  In particular no
\* reader and no other writer is inside while a writer writes.
ImplementsLock == Lock!Spec

\* main.cpp:30: no thread deadlocks, and a reader that wants to read does.
\* (Writers have no such guarantee: readers that overlap keep them out.)
ReadersServed == \A r \in Readers : pc[r] = "lock_in" ~> (r \in Reading \/ exited)
===============================================================================
