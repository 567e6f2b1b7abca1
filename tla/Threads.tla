-------------------------------- MODULE Threads --------------------------------
(***************************************************************************)
(* thread/main.cpp.  ec2: threads add to a shared counter, first without a *)
(* lock and then each time under a lock_guard; main starts them all, joins *)
(* them all and prints.  ec3: a consumer waits on a condition variable for *)
(* the flag a producer sets.  The builds do not optimise: counter++ is a   *)
(* load and a store, and a data race is their interleaving.                *)
(***************************************************************************)
EXTENDS Integers, Sequences

CONSTANTS
  N,            \* NUMER_THREAD, 100 in the code
  Rounds,       \* additions of each thread, 1000 in the code
  MaxSpurious   \* bound on spurious wakeups

ASSUME ThreadsAssumption ==
  N \in Nat \ {0} /\ Rounds \in Nat \ {0} /\ MaxSpurious \in Nat

VARIABLES
  phase,             \* of ec2: without the lock, with it, over; or ec3
  created, joined,   \* threads of this phase that main has started and joined
  pc,                \* each thread's next step
  left,              \* its additions still to make
  tmp,               \* what it has loaded
  counter, owner,    \* the shared counter; who holds the mutex
  stores,            \* history: additions in this phase
  printed,           \* history: what main printed
  ready, waiting,    \* ec3: the flag; the consumer is in the condition's queue
  spurious

counterVars == <<created, joined, left, tmp, counter, stores, printed>>
readyVars == <<ready, waiting, spurious>>
vars == <<phase, pc, owner, counterVars, readyVars>>

Workers == 1 .. N
Consumer == N + 1
Producer == N + 2
Threads == 1 .. N + 2
Nobody == 0

Init ==
  /\ phase \in {"racy", "ec3"}
  /\ created = 0 /\ joined = 0
  /\ pc = [t \in Threads |-> IF phase = "ec3" /\ t \notin Workers THEN "lock" ELSE "none"]
  /\ left = [t \in Workers |-> 0] /\ tmp = [t \in Workers |-> 0]
  /\ counter = 0 /\ stores = 0 /\ printed = <<>>
  /\ owner = Nobody
  /\ ready = FALSE /\ waiting = FALSE /\ spurious = 0

Goto(t, from, to) == pc[t] = from /\ pc' = [pc EXCEPT ![t] = to]
Take(t) == owner = Nobody /\ owner' = t

-------------------------------------------------------------------------------
\* Mutants: no second round of joins, no lock, a condition that is not tested
\* again, a flag set without the mutex

JoinOnce ==
  /\ created = N /\ joined < N
  /\ pc[joined + 1] = "ended" \/ phase = "locked"
  /\ joined' = joined + 1
  /\ UNCHANGED <<phase, pc, owner, created, left, tmp, counter, stores, printed, readyVars>>
JoinNone ==
  /\ created = N /\ joined < N
  /\ joined' = joined + 1
  /\ UNCHANGED <<phase, pc, owner, created, left, tmp, counter, stores, printed, readyVars>>
LockNothing(t) ==
  /\ Goto(t, "lock", "load")
  /\ UNCHANGED <<phase, owner, counterVars, readyVars>>
RelockUntested ==
  /\ Goto(Consumer, "relock", "go_on") /\ Take(Consumer)
  /\ UNCHANGED <<phase, counterVars, readyVars>>
SetUnlocked ==
  /\ Goto(Producer, "lock", "notify")
  /\ ready' = TRUE
  /\ UNCHANGED <<phase, owner, counterVars, waiting, spurious>>

-------------------------------------------------------------------------------
\* ec2: main

Create ==
  /\ phase \in {"racy", "locked"} /\ created < N
  /\ created' = created + 1
  /\ pc' = [pc EXCEPT ![created'] = IF phase = "racy" THEN "load" ELSE "lock"]
  /\ left' = [left EXCEPT ![created'] = Rounds]
  /\ UNCHANGED <<phase, owner, joined, tmp, counter, stores, printed, readyVars>>

Join ==
  /\ created = N /\ joined < N
  /\ pc[joined + 1] = "ended"
  /\ joined' = joined + 1
  /\ UNCHANGED <<phase, pc, owner, created, left, tmp, counter, stores, printed, readyVars>>

\* The counter is printed; it and the pool of threads start anew.
Report ==
  /\ joined = N
  /\ printed' = Append(printed, counter)
  /\ phase' = IF phase = "racy" THEN "locked" ELSE "over"
  /\ counter' = 0 /\ stores' = 0 /\ created' = 0 /\ joined' = 0
  /\ pc' = [t \in Threads |-> "none"]
  /\ UNCHANGED <<owner, left, tmp, readyVars>>

\* ec2: the threads

Lock(t) ==
  /\ Goto(t, "lock", "load") /\ Take(t)
  /\ UNCHANGED <<phase, counterVars, readyVars>>

Load(t) ==
  /\ Goto(t, "load", "store")
  /\ tmp' = [tmp EXCEPT ![t] = counter]
  /\ UNCHANGED <<phase, owner, created, joined, left, counter, stores, printed, readyVars>>

Store(t) ==
  /\ Goto(t, "store", IF phase = "locked" THEN "unlock"
                      ELSE IF left[t] = 1 THEN "ended" ELSE "load")
  /\ counter' = tmp[t] + 1
  /\ stores' = stores + 1
  /\ left' = [left EXCEPT ![t] = @ - 1]
  /\ UNCHANGED <<phase, owner, created, joined, tmp, printed, readyVars>>

\* The lock_guard goes out of scope.
Unlock(t) ==
  /\ Goto(t, "unlock", IF left[t] = 0 THEN "ended" ELSE "lock")
  /\ owner' = Nobody
  /\ UNCHANGED <<phase, counterVars, readyVars>>

Worker(t) == Lock(t) \/ Load(t) \/ Store(t) \/ Unlock(t)

-------------------------------------------------------------------------------
\* ec3: the consumer.  wait tests the flag under the mutex, and while it is not
\* set gives the mutex up and joins the condition's queue in one step.

LockConsumer ==
  /\ Goto(Consumer, "lock", "test") /\ Take(Consumer)
  /\ UNCHANGED <<phase, counterVars, readyVars>>

Test ==
  /\ Goto(Consumer, "test", IF ready THEN "go_on" ELSE "block")
  /\ UNCHANGED <<phase, owner, counterVars, readyVars>>

Block ==
  /\ Goto(Consumer, "block", "blocked")
  /\ owner' = Nobody /\ waiting' = TRUE
  /\ UNCHANGED <<phase, counterVars, ready, spurious>>

WakeUp ==
  /\ Goto(Consumer, "blocked", "relock")
  /\ \/ ~waiting /\ UNCHANGED <<waiting, spurious>>
     \/ /\ waiting /\ spurious < MaxSpurious
        /\ spurious' = spurious + 1 /\ waiting' = FALSE
  /\ UNCHANGED <<phase, owner, counterVars, ready>>

Relock ==
  /\ Goto(Consumer, "relock", "test") /\ Take(Consumer)
  /\ UNCHANGED <<phase, counterVars, readyVars>>

\* "consumer continue ...", and the unique_lock goes out of scope
GoOn ==
  /\ Goto(Consumer, "go_on", "ended")
  /\ owner' = Nobody
  /\ UNCHANGED <<phase, counterVars, readyVars>>

ConsumerStep == LockConsumer \/ Test \/ Block \/ WakeUp \/ Relock \/ GoOn

\* ec3: the producer, which notifies before it gives the mutex back

LockProducer ==
  /\ Goto(Producer, "lock", "set") /\ Take(Producer)
  /\ UNCHANGED <<phase, counterVars, readyVars>>

SetReady ==
  /\ Goto(Producer, "set", "notify")
  /\ ready' = TRUE
  /\ UNCHANGED <<phase, owner, counterVars, waiting, spurious>>

notify_one ==
  /\ Goto(Producer, "notify", "unlock")
  /\ waiting' = FALSE
  /\ UNCHANGED <<phase, owner, counterVars, ready, spurious>>

UnlockProducer ==
  /\ Goto(Producer, "unlock", "ended")
  /\ owner' = Nobody
  /\ UNCHANGED <<phase, counterVars, readyVars>>

ProducerStep == LockProducer \/ SetReady \/ notify_one \/ UnlockProducer

Over ==
  \/ phase = "over"
  \/ phase = "ec3" /\ pc[Consumer] = "ended" /\ pc[Producer] = "ended"

Next ==
  \/ Create \/ Join \/ Report \/ (\E t \in Workers : Worker(t))
  \/ ConsumerStep \/ ProducerStep

SafeSpec == Init /\ [][Next]_vars

\* Every thread runs.  Nobody takes the mutex for ever, so that a thread that
\* waits for it finds it free in the end, even if it is never the first.
Spec ==
  /\ SafeSpec
  /\ WF_vars(Create \/ Join \/ Report)
  /\ \A t \in Workers : WF_vars(Worker(t))
  /\ WF_vars(ConsumerStep) /\ WF_vars(ProducerStep)

-------------------------------------------------------------------------------
Labels ==
  {"none", "lock", "load", "store", "unlock", "ended", "test", "block", "blocked",
   "relock", "go_on", "set", "notify"}

\* Every variable keeps its type.
TypeOK ==
  /\ phase \in {"racy", "locked", "over", "ec3"}
  /\ created \in 0 .. N /\ joined \in 0 .. N
  /\ pc \in [Threads -> Labels]
  /\ left \in [Workers -> 0 .. Rounds] /\ tmp \in [Workers -> Nat]
  /\ counter \in Nat /\ stores \in Nat /\ printed \in Seq(Nat)
  /\ owner \in {Nobody} \cup Threads
  /\ ready \in BOOLEAN /\ waiting \in BOOLEAN /\ spurious \in 0 .. MaxSpurious

\* main.cpp:48: under the lock no addition is lost, and so what a thread has
\* loaded is still the counter when it stores.
NoneLost == phase = "locked" => counter = stores

\* main.cpp:48: with the lock what is printed is right.
LockedExact == Len(printed) = 2 => printed[2] = N * Rounds

\* main.cpp:47: how far off the result may be without the lock.  A thread may
\* overwrite all that the others did, but its own last store is of a value it
\* loaded after its first; so two additions are left, not one.
Least == IF N = 1 THEN Rounds ELSE IF Rounds = 1 THEN 1 ELSE 2
RacyBounds == printed # <<>> => printed[1] \in Least .. N * Rounds

\* main.cpp:97: the consumer goes on only when the flag is set, whatever wakes it.
GoesOnWhenReady == pc[Consumer] = "go_on" => ready

\* The threads end and main joins them: no notification is lost, no lock kept.
Ends == <>Over
===============================================================================
