--------------------------- MODULE ProducerConsumer ---------------------------
(***************************************************************************)
(* The child processes of semaphore/producer_consumer: producers and       *)
(* consumers that share a RingBuffer under a mutex semaphore and the two   *)
(* counting semaphores sem_empty and sem_full.  Each sem_wait, each        *)
(* sem_post and each half of push and pop is one step of one process.      *)
(*                                                                         *)
(* pc of a process: "acquire" (before its sem_wait on sem_empty or         *)
(* sem_full), "lock" (before sem_wait(sem_mutex)), "access" and "advance"  *)
(* (inside push or pop), "unlock" (before sem_post(sem_mutex)), "release"  *)
(* (before its sem_post on sem_full or sem_empty), "exited".               *)
(***************************************************************************)
EXTENDS RingBuffer, FiniteSets

CONSTANTS
  Producers,     \* processes running the loop of create_producer
  Consumers,     \* processes running the loop of create_consumer
  LOOP_VALUE     \* 10000 in the code

ASSUME ProcessAssumption ==
  /\ IsFiniteSet(Producers)
  /\ IsFiniteSet(Consumers)
  /\ Producers \cap Consumers = {}
  /\ LOOP_VALUE \in Nat

VARIABLES
  sem_mutex, sem_full, sem_empty,
  pc,
  i,             \* loop counter of each process
  value,         \* last value each consumer popped
  queue,         \* history: values logged as added, not yet popped, in order
  dropped        \* history: number of pushes refused because the ring was full

semVars == <<sem_mutex, sem_full, sem_empty>>
history == <<queue, dropped>>
coreVars == <<ringVars, semVars, pc, i, value, history>>

Children == Producers \cup Consumers

Labels == {"acquire", "lock", "access", "advance", "unlock", "release", "exited"}

-------------------------------------------------------------------------------
\* Mutants: a loop bound without equality, a loop without its increment, the
\* mutex taken without waiting, the wrong semaphore posted, a consumer that
\* tries sem_full and does not look at the result

LoopAgainStrict(p) ==
  i[p] + 1 < IF p \in Producers THEN LOOP_VALUE ELSE 3 * LOOP_VALUE
IterateForever(p) ==
  /\ pc[p] = "release"
  /\ pc' = [pc EXCEPT ![p] = "acquire"]
  /\ UNCHANGED i
LockUnchecked(p) ==
  /\ pc[p] = "lock"
  /\ pc' = [pc EXCEPT ![p] = "access"]
  /\ sem_mutex' = 0
  /\ UNCHANGED <<ringVars, sem_full, sem_empty, i, value, history>>
ReleaseEmptyInstead(p) ==
  /\ pc[p] = "release"
  /\ pc' = [pc EXCEPT ![p] = IF i[p] < LOOP_VALUE THEN "acquire" ELSE "exited"]
  /\ i' = [i EXCEPT ![p] = @ + 1]
  /\ sem_empty' = sem_empty + 1
  /\ UNCHANGED <<ringVars, sem_mutex, sem_full, value, history>>
AcquireFullUnchecked(c) ==
  /\ pc[c] = "acquire"
  /\ pc' = [pc EXCEPT ![c] = "lock"]
  /\ sem_full' = IF sem_full > 0 THEN sem_full - 1 ELSE 0
  /\ UNCHANGED <<ringVars, sem_mutex, sem_empty, i, value, history>>

-------------------------------------------------------------------------------
sem_wait(sem) == sem > 0 /\ sem' = sem - 1

sem_post(sem) == sem' = sem + 1

Goto(p, from, to) == pc[p] = from /\ pc' = [pc EXCEPT ![p] = to]

\* The loop test for (i = 0; i <= bound; ++i) after an iteration.
LoopAgain(p) ==
  i[p] + 1 <= IF p \in Producers THEN LOOP_VALUE ELSE 3 * LOOP_VALUE

Iterate(p) ==
  /\ Goto(p, "release", IF LoopAgain(p) THEN "acquire" ELSE "exited")
  /\ i' = [i EXCEPT ![p] = @ + 1]

Init ==
  /\ RingInit
  /\ sem_mutex = 1
  /\ sem_full = 0
  /\ sem_empty = BUF_SIZE
  /\ pc = [p \in Children |-> "acquire"]
  /\ i = [p \in Children |-> 0]
  /\ value = [c \in Consumers |-> 0]
  /\ queue = <<>>
  /\ dropped = 0

-------------------------------------------------------------------------------
\* Steps common to both loops

Lock(p) ==
  /\ Goto(p, "lock", "access")
  /\ sem_wait(sem_mutex)
  /\ UNCHANGED <<ringVars, sem_full, sem_empty, i, value, history>>

Unlock(p) ==
  /\ Goto(p, "unlock", "release")
  /\ sem_post(sem_mutex)
  /\ UNCHANGED <<ringVars, sem_full, sem_empty, i, value, history>>

\* create_producer

AcquireEmpty(p) ==
  /\ Goto(p, "acquire", "lock")
  /\ sem_wait(sem_empty)
  /\ UNCHANGED <<ringVars, sem_mutex, sem_full, i, value, history>>

\* push on a full ring returns without storing; the caller logs and posts
\* exactly as it does after a store.
PushRefused(p) ==
  /\ Goto(p, "access", "unlock")
  /\ is_full
  /\ queue' = Append(queue, i[p])
  /\ dropped' = dropped + 1
  /\ UNCHANGED <<ringVars, semVars, i, value>>

PushStore(p) ==
  /\ Goto(p, "access", "advance")
  /\ ~is_full
  /\ Store(i[p])
  /\ UNCHANGED <<semVars, i, value, history>>

PushAdvance(p) ==
  /\ Goto(p, "advance", "unlock")
  /\ AdvanceWrite
  /\ queue' = Append(queue, i[p])
  /\ UNCHANGED <<semVars, i, value, dropped>>

ReleaseFull(p) ==
  /\ Iterate(p)
  /\ sem_post(sem_full)
  /\ UNCHANGED <<ringVars, sem_mutex, sem_empty, value, history>>

Producer(p) ==
  \/ AcquireEmpty(p) \/ Lock(p) \/ PushRefused(p) \/ PushStore(p)
  \/ PushAdvance(p) \/ Unlock(p) \/ ReleaseFull(p)

\* create_consumer

AcquireFull(c) ==
  /\ Goto(c, "acquire", "lock")
  /\ sem_wait(sem_full)
  /\ UNCHANGED <<ringVars, sem_mutex, sem_empty, i, value, history>>

PopRead(c) ==
  /\ Goto(c, "access", "advance")
  /\ value' = [value EXCEPT ![c] = Front]
  /\ UNCHANGED <<ringVars, semVars, i, history>>

\* pop moves the index whether or not there is a value; such a pop would leave
\* the history alone and hand the consumer a value, which FlowControl forbids.
PopAdvance(c) ==
  /\ Goto(c, "advance", "unlock")
  /\ AdvanceRead
  /\ queue' = IF queue = <<>> THEN queue ELSE Tail(queue)
  /\ UNCHANGED <<semVars, i, value, dropped>>

ReleaseEmpty(c) ==
  /\ Iterate(c)
  /\ sem_post(sem_empty)
  /\ UNCHANGED <<ringVars, sem_mutex, sem_full, value, history>>

Consumer(c) ==
  \/ AcquireFull(c) \/ Lock(c) \/ PopRead(c)
  \/ PopAdvance(c) \/ Unlock(c) \/ ReleaseEmpty(c)

-------------------------------------------------------------------------------
AllExited == \A p \in Children : pc[p] = "exited"

\* Lets TLC tell the normal end from a deadlock.
Terminated == AllExited /\ UNCHANGED coreVars

Next ==
  \/ \E p \in Producers : Producer(p)
  \/ \E c \in Consumers : Consumer(c)
  \/ Terminated

SafeSpec == Init /\ [][Next]_coreVars

\* The scheduler never stops running a process that can run.
Fairness ==
  /\ \A p \in Producers : WF_coreVars(Producer(p))
  /\ \A c \in Consumers : WF_coreVars(Consumer(c))

Spec == SafeSpec /\ Fairness

-------------------------------------------------------------------------------
\* Every variable keeps its type; the semaphore values are never negative.
TypeOK ==
  /\ RingTypeOK
  /\ sem_mutex \in {0, 1}
  /\ sem_full \in 0 .. BUF_SIZE
  /\ sem_empty \in 0 .. BUF_SIZE
  /\ pc \in [Children -> Labels]
  /\ i \in [Children -> Nat]
  /\ value \in [Consumers -> Int]
  /\ dropped \in Nat

InRing(p) == pc[p] \in {"access", "advance", "unlock"}

\* push and pop of main.cpp:60 and :83 never overlap, and the mutex is free
\* exactly when nobody is between sem_wait(sem_mutex) and sem_post(sem_mutex).
MutualExclusion ==
  /\ \A p, q \in Children : InRing(p) /\ InRing(q) => p = q
  /\ sem_mutex = 1 <=> ~ \E p \in Children : InRing(p)

\* Processes that own one unit of sem_full or of sem_empty: taken from one
\* semaphore and not yet posted to the other.
ItemHolders ==
  {p \in Producers : pc[p] \in {"unlock", "release"}}
    \cup {c \in Consumers : pc[c] \in {"lock", "access", "advance"}}

SlotHolders ==
  {p \in Producers : pc[p] \in {"lock", "access", "advance"}}
    \cup {c \in Consumers : pc[c] \in {"unlock", "release"}}

\* No semaphore unit is lost or duplicated, whatever the interleaving: values
\* added and not popped are counted by sem_full plus the processes that carry
\* one, and the rest of BUF_SIZE by sem_empty plus those that carry a slot.
Accounting ==
  /\ Len(queue) = sem_full + Cardinality(ItemHolders)
  /\ BUF_SIZE = Len(queue) + sem_empty + Cardinality(SlotHolders)

\* Until a push is refused, the ring is the FIFO queue of the values logged as
\* added, same values, same order, nothing overwritten, and the value that a
\* consumer takes out is the oldest one.
RingIsQueue == dropped = 0 => Contents = queue
ConsumedInOrder ==
  \A c \in Consumers : dropped = 0 /\ pc[c] = "advance" => value[c] = Head(queue)
FifoUntilFirstDrop == RingIsQueue /\ ConsumedInOrder

\* What a refused push does to the ring for good: its two indices stay behind
\* the semaphores by the number of refusals, so later pops return stale slots.
RingDrift ==
  (write_index - read_index) % BUF_SIZE = (Len(queue) - dropped) % BUF_SIZE

\* The loops i <= LOOP_VALUE and i <= 3 * LOOP_VALUE do not match: three
\* producers make 3 * LOOP_VALUE + 3 posts, one consumer takes all but two.
LeftoverAtExit ==
  AllExited => Len(queue) = 2 /\ sem_full = 2 /\ sem_empty = BUF_SIZE - 2

\* Every child leaves its loop: no producer and no consumer stays blocked.
Termination == <>AllExited

\* The ring and the semaphores are one bounded channel, as FlowControl asks:
\* never more than BUF_SIZE values are outstanding, every pop of main.cpp:85
\* finds one that was added, the values come out in the order they went in
\* until one is lost, and one is lost exactly when it is added on top of
\* BUF_SIZE - 1 others, which push refuses and its caller logs as added.
Flow == INSTANCE FlowControl WITH
  Capacity <- BUF_SIZE, Values <- 0 .. LOOP_VALUE, Takers <- Consumers,
  intact <- dropped = 0,
  delivered <- [c \in Consumers |->
                  IF pc[c] \in {"unlock", "release"} THEN <<value[c]>> ELSE <<>>]

ImplementsFlowControl == Flow!Spec
===============================================================================
