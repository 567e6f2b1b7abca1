----------------------------- MODULE ThreadsProofs -----------------------------
(***************************************************************************)
(* Proofs about Threads, for every number of threads, of rounds and of     *)
(* spurious wakeups: types, no addition lost under the lock and an exact   *)
(* result, no consumer that goes on without the flag.                      *)
(***************************************************************************)
EXTENDS Threads, FiniteSetTheorems, TLAPS

\* Where a worker of ec2 can be, and who of ec3 is there at all.
Places ==
  /\ \A t \in Workers : pc[t] \in {"none", "lock", "load", "store", "unlock", "ended"}
  /\ phase = "ec3" => \A t \in Workers : pc[t] = "none"
  /\ phase # "ec3" => pc[Consumer] = "none" /\ pc[Producer] = "none"

\* A worker that has not made its last addition has one to make.
MoreToDo == \A t \in Workers : pc[t] \in {"lock", "load", "store"} => left[t] >= 1

\* The steps between taking the mutex and giving it back; the threads of the
\* first round take none.
Inside == {"load", "store", "unlock", "test", "block", "go_on", "set", "notify"}
Holder == phase # "racy" => \A t \in Threads : pc[t] \in Inside => owner = t

\* Under the lock what a thread has loaded is still the counter.
Fresh == phase = "locked" => \A t \in Workers : pc[t] = "store" => tmp[t] = counter

IInv == TypeOK /\ Places /\ MoreToDo /\ Holder /\ NoneLost /\ Fresh /\ GoesOnWhenReady

-------------------------------------------------------------------------------
LEMMA InitIInv == Init => IInv
<1> SUFFICES ASSUME Init PROVE IInv
  OBVIOUS
<1>1. pc \in [Threads -> {"lock", "none"}]
  BY DEF Init
<1>2. \A t \in Threads : pc[t] = "lock" => phase = "ec3" /\ t \notin Workers
  BY DEF Init
<1> USE ThreadsAssumption DEF Init, Threads, Workers,
     Consumer, Producer, Nobody
<1>3. left \in [Workers -> 0 .. Rounds] /\ tmp \in [Workers -> Nat]
  OBVIOUS
<1>4. TypeOK
  <2>1. ready \in BOOLEAN /\ waiting \in BOOLEAN
    BY Zenon
  <2>2. printed \in Seq(Nat) /\ owner \in {Nobody} \cup Threads
    OBVIOUS
  <2> QED
    BY <1>1, <1>3, <2>1, <2>2 DEF TypeOK, Labels
<1>5. Places /\ MoreToDo
  <2>1. /\ Consumer \in Threads \ Workers /\ Producer \in Threads \ Workers
       /\ Workers \subseteq Threads
    OBVIOUS
  <2>2. \A t \in Workers : pc[t] = "none"
    BY <1>1, <1>2, <2>1
  <2>3. phase # "ec3" => pc[Consumer] = "none" /\ pc[Producer] = "none"
    BY <1>1, <1>2, <2>1
  <2> QED
    BY <2>2, <2>3 DEF Places, MoreToDo
<1>6. Holder /\ NoneLost /\ Fresh /\ GoesOnWhenReady
  BY <1>1 DEF Holder, Inside, NoneLost, Fresh, GoesOnWhenReady
<1> QED
  BY <1>4, <1>5, <1>6 DEF IInv

\* Types: an addition left to make is what keeps left from falling below zero.
LEMMA TypeStep ==
  ASSUME IInv, [Next]_vars
  PROVE  TypeOK'
<1> USE ThreadsAssumption DEF IInv, counterVars, readyVars, Goto, Threads, Workers,
     Consumer, Producer, Nobody, Take, TypeOK, Labels, Places, MoreToDo
<1>1. CASE Create
  BY <1>1 DEF Create
<1>2. CASE Join
  BY <1>2 DEF Join
<1>3. CASE Report
  BY <1>3 DEF Report
<1>4. ASSUME NEW t \in Workers, Worker(t)
      PROVE  TypeOK'
  <2>1. CASE Lock(t)
    BY <2>1 DEF Lock
  <2>2. CASE Load(t)
    BY <2>2 DEF Load
  <2>3. CASE Store(t)
    <3>1. left[t] \in 1 .. Rounds /\ left' = [left EXCEPT ![t] = left[t] - 1]
      BY <2>3 DEF Store
    <3>2. left' \in [Workers -> 0 .. Rounds]
      BY <3>1
    <3>3. counter' \in Nat /\ stores' \in Nat
      BY <2>3 DEF Store
    <3>4. pc' \in [Threads -> Labels]
      BY <2>3 DEF Store
    <3>5. UNCHANGED <<phase, owner, created, joined, tmp, printed, readyVars>>
      BY <2>3 DEF Store
    <3>6. ready' \in BOOLEAN /\ waiting' \in BOOLEAN
      BY <3>5, Zenon
    <3>7. /\ created' \in 0 .. N /\ joined' \in 0 .. N
          /\ tmp' \in [Workers -> Nat] /\ printed' \in Seq(Nat)
          /\ owner' \in {Nobody} \cup Threads /\ spurious' \in 0 .. MaxSpurious
          /\ phase' \in {"racy", "locked", "over", "ec3"}
      BY <3>5
    <3> QED
      BY <3>2, <3>3, <3>4, <3>6, <3>7, Zenon
  <2>4. CASE Unlock(t)
    BY <2>4 DEF Unlock
  <2> QED
    BY <1>4, <2>1, <2>2, <2>3, <2>4 DEF Worker
<1>5. CASE ConsumerStep
  <2>1. CASE LockConsumer
    BY <2>1 DEF LockConsumer
  <2>2. CASE Test
    BY <2>2 DEF Test
  <2>3. CASE Block
    BY <2>3 DEF Block
  <2>4. CASE WakeUp
    <3>1. spurious' \in 0 .. MaxSpurious
      BY <2>4 DEF WakeUp
    <3>2. waiting' \in BOOLEAN
      <4>1. CASE ~waiting /\ UNCHANGED <<waiting, spurious>>
        BY <4>1
      <4>2. CASE waiting' = FALSE
        BY <4>2
      <4> QED
        BY <2>4, <4>1, <4>2, Zenon DEF WakeUp
    <3>3. pc' \in [Threads -> Labels]
      BY <2>4 DEF WakeUp
    <3> QED
      BY <2>4, <3>1, <3>2, <3>3 DEF WakeUp
  <2>5. CASE Relock
    BY <2>5 DEF Relock
  <2>6. CASE GoOn
    BY <2>6 DEF GoOn
  <2> QED
    BY <1>5, <2>1, <2>2, <2>3, <2>4, <2>5, <2>6 DEF ConsumerStep
<1>6. CASE ProducerStep
  <2>1. CASE LockProducer
    BY <2>1 DEF LockProducer
  <2>2. CASE SetReady
    BY <2>2 DEF SetReady
  <2>3. CASE notify_one
    BY <2>3 DEF notify_one
  <2>4. CASE UnlockProducer
    BY <2>4 DEF UnlockProducer
  <2> QED
    BY <1>6, <2>1, <2>2, <2>3, <2>4 DEF ProducerStep
<1>7. CASE UNCHANGED vars
  BY <1>7 DEF vars
<1> QED
  BY <1>1, <1>2, <1>3, <1>4, <1>5, <1>6, <1>7 DEF Next

\* Where the threads are does not depend on what they computed.
LEMMA PlacesStep ==
  ASSUME IInv, [Next]_vars
  PROVE  Places' /\ MoreToDo'
<1> USE ThreadsAssumption DEF IInv, counterVars, readyVars, Goto, Threads, Workers,
     Consumer, Producer, Nobody, TypeOK, Places, MoreToDo
<1>1. CASE Create
  BY <1>1 DEF Create
<1>2. CASE Join
  BY <1>2 DEF Join
<1>3. CASE Report
  BY <1>3 DEF Report
<1>4. ASSUME NEW t \in Workers, Worker(t)
      PROVE  Places' /\ MoreToDo'
  <2>1. CASE Lock(t)
    BY <2>1 DEF Lock
  <2>2. CASE Load(t)
    BY <2>2 DEF Load
  <2>3. CASE Store(t)
    BY <2>3 DEF Store
  <2>4. CASE Unlock(t)
    BY <2>4 DEF Unlock
  <2> QED
    BY <1>4, <2>1, <2>2, <2>3, <2>4 DEF Worker
<1>5. CASE ConsumerStep
  <2>1. CASE LockConsumer
    BY <2>1 DEF LockConsumer
  <2>2. CASE Test
    BY <2>2 DEF Test
  <2>3. CASE Block
    BY <2>3 DEF Block
  <2>4. CASE WakeUp
    BY <2>4 DEF WakeUp
  <2>5. CASE Relock
    BY <2>5 DEF Relock
  <2>6. CASE GoOn
    BY <2>6 DEF GoOn
  <2> QED
    BY <1>5, <2>1, <2>2, <2>3, <2>4, <2>5, <2>6 DEF ConsumerStep
<1>6. CASE ProducerStep
  <2>1. CASE LockProducer
    BY <2>1 DEF LockProducer
  <2>2. CASE SetReady
    BY <2>2 DEF SetReady
  <2>3. CASE notify_one
    BY <2>3 DEF notify_one
  <2>4. CASE UnlockProducer
    BY <2>4 DEF UnlockProducer
  <2> QED
    BY <1>6, <2>1, <2>2, <2>3, <2>4 DEF ProducerStep
<1>7. CASE UNCHANGED vars
  BY <1>7 DEF vars
<1> QED
  BY <1>1, <1>2, <1>3, <1>4, <1>5, <1>6, <1>7 DEF Next

\* A thread gets inside only when nobody holds the mutex.
LEMMA HolderStep ==
  ASSUME IInv, [Next]_vars
  PROVE  Holder'
<1> USE ThreadsAssumption DEF IInv, counterVars, readyVars, Goto, Threads, Workers,
     Consumer, Producer, Nobody, Take, TypeOK, Places, Holder, Inside
<1>1. CASE Create
  BY <1>1 DEF Create
<1>2. CASE Join
  BY <1>2 DEF Join
<1>3. CASE Report
  BY <1>3 DEF Report
<1>4. ASSUME NEW t \in Workers, Worker(t)
      PROVE  Holder'
  <2>1. CASE Lock(t)
    BY <2>1 DEF Lock
  <2>2. CASE Load(t)
    BY <2>2 DEF Load
  <2>3. CASE Store(t)
    BY <2>3 DEF Store
  <2>4. CASE Unlock(t)
    BY <2>4 DEF Unlock
  <2> QED
    BY <1>4, <2>1, <2>2, <2>3, <2>4 DEF Worker
<1>5. CASE ConsumerStep
  <2>1. CASE LockConsumer
    BY <2>1 DEF LockConsumer
  <2>2. CASE Test
    BY <2>2 DEF Test
  <2>3. CASE Block
    BY <2>3 DEF Block
  <2>4. CASE WakeUp
    BY <2>4 DEF WakeUp
  <2>5. CASE Relock
    BY <2>5 DEF Relock
  <2>6. CASE GoOn
    BY <2>6 DEF GoOn
  <2> QED
    BY <1>5, <2>1, <2>2, <2>3, <2>4, <2>5, <2>6 DEF ConsumerStep
<1>6. CASE ProducerStep
  <2>1. CASE LockProducer
    BY <2>1 DEF LockProducer
  <2>2. CASE SetReady
    BY <2>2 DEF SetReady
  <2>3. CASE notify_one
    BY <2>3 DEF notify_one
  <2>4. CASE UnlockProducer
    BY <2>4 DEF UnlockProducer
  <2> QED
    BY <1>6, <2>1, <2>2, <2>3, <2>4 DEF ProducerStep
<1>7. CASE UNCHANGED vars
  BY <1>7 DEF vars
<1> QED
  BY <1>1, <1>2, <1>3, <1>4, <1>5, <1>6, <1>7 DEF Next

\* Only a thread inside changes the counter, and nobody else is inside then.
LEMMA CounterStep ==
  ASSUME IInv, [Next]_vars
  PROVE  NoneLost' /\ Fresh'
<1> USE ThreadsAssumption DEF IInv, counterVars, readyVars, Goto, Threads, Workers,
     Consumer, Producer, Nobody, TypeOK, Places, Holder, Inside, NoneLost, Fresh
<1>1. CASE Create
  BY <1>1 DEF Create
<1>2. CASE Join
  BY <1>2 DEF Join
<1>3. CASE Report
  BY <1>3 DEF Report
<1>4. ASSUME NEW t \in Workers, Worker(t)
      PROVE  NoneLost' /\ Fresh'
  <2>1. CASE Lock(t)
    BY <2>1 DEF Lock
  <2>2. CASE Load(t)
    BY <2>2 DEF Load
  <2>3. CASE Store(t)
    BY <2>3 DEF Store
  <2>4. CASE Unlock(t)
    BY <2>4 DEF Unlock
  <2> QED
    BY <1>4, <2>1, <2>2, <2>3, <2>4 DEF Worker
<1>5. CASE ConsumerStep
  <2>1. CASE LockConsumer
    BY <2>1 DEF LockConsumer
  <2>2. CASE Test
    BY <2>2 DEF Test
  <2>3. CASE Block
    BY <2>3 DEF Block
  <2>4. CASE WakeUp
    BY <2>4 DEF WakeUp
  <2>5. CASE Relock
    BY <2>5 DEF Relock
  <2>6. CASE GoOn
    BY <2>6 DEF GoOn
  <2> QED
    BY <1>5, <2>1, <2>2, <2>3, <2>4, <2>5, <2>6 DEF ConsumerStep
<1>6. CASE ProducerStep
  <2>1. CASE LockProducer
    BY <2>1 DEF LockProducer
  <2>2. CASE SetReady
    BY <2>2 DEF SetReady
  <2>3. CASE notify_one
    BY <2>3 DEF notify_one
  <2>4. CASE UnlockProducer
    BY <2>4 DEF UnlockProducer
  <2> QED
    BY <1>6, <2>1, <2>2, <2>3, <2>4 DEF ProducerStep
<1>7. CASE UNCHANGED vars
  BY <1>7 DEF vars
<1> QED
  BY <1>1, <1>2, <1>3, <1>4, <1>5, <1>6, <1>7 DEF Next

\* The flag is never taken back, and tested after every wakeup.
LEMMA ReadyStep ==
  ASSUME IInv, [Next]_vars
  PROVE  GoesOnWhenReady'
<1> USE ThreadsAssumption DEF IInv, counterVars, readyVars, Goto, Threads, Workers,
     Consumer, Producer, Nobody, TypeOK, Places, GoesOnWhenReady
<1>1. CASE Create
  BY <1>1 DEF Create
<1>2. CASE Join
  BY <1>2 DEF Join
<1>3. CASE Report
  BY <1>3 DEF Report
<1>4. ASSUME NEW t \in Workers, Worker(t)
      PROVE  GoesOnWhenReady'
  <2>1. CASE Lock(t)
    BY <2>1 DEF Lock
  <2>2. CASE Load(t)
    BY <2>2 DEF Load
  <2>3. CASE Store(t)
    BY <2>3 DEF Store
  <2>4. CASE Unlock(t)
    BY <2>4 DEF Unlock
  <2> QED
    BY <1>4, <2>1, <2>2, <2>3, <2>4 DEF Worker
<1>5. CASE ConsumerStep
  <2>1. CASE LockConsumer
    BY <2>1 DEF LockConsumer
  <2>2. CASE Test
    BY <2>2 DEF Test
  <2>3. CASE Block
    BY <2>3 DEF Block
  <2>4. CASE WakeUp
    BY <2>4 DEF WakeUp
  <2>5. CASE Relock
    BY <2>5 DEF Relock
  <2>6. CASE GoOn
    BY <2>6 DEF GoOn
  <2> QED
    BY <1>5, <2>1, <2>2, <2>3, <2>4, <2>5, <2>6 DEF ConsumerStep
<1>6. CASE ProducerStep
  <2>1. CASE LockProducer
    BY <2>1 DEF LockProducer
  <2>2. CASE SetReady
    BY <2>2 DEF SetReady
  <2>3. CASE notify_one
    BY <2>3 DEF notify_one
  <2>4. CASE UnlockProducer
    BY <2>4 DEF UnlockProducer
  <2> QED
    BY <1>6, <2>1, <2>2, <2>3, <2>4 DEF ProducerStep
<1>7. CASE UNCHANGED vars
  BY <1>7 DEF vars
<1> QED
  BY <1>1, <1>2, <1>3, <1>4, <1>5, <1>6, <1>7 DEF Next

LEMMA Invariance == SafeSpec => []IInv
<1>1. IInv /\ [Next]_vars => IInv'
  BY TypeStep, PlacesStep, HolderStep, CounterStep, ReadyStep DEF IInv
<1> QED
  BY InitIInv, <1>1, PTL DEF SafeSpec

-------------------------------------------------------------------------------
\* Every variable of thread/main.cpp's model keeps its type, whatever the number
\* of threads and rounds: in particular no thread adds more often than it should.
THEOREM TypeCorrect == SafeSpec => []TypeOK
  BY Invariance, PTL DEF IInv

\* main.cpp:77: with the lock_guard, counter++ of one thread never overwrites
\* that of another.
THEOREM NoneLostHolds == SafeSpec => []NoneLost
  BY Invariance, PTL DEF IInv

\* main.cpp:108: after any number of spurious wakeups, and also when the producer
\* was first, the consumer goes on only with the flag set.
THEOREM GoesOnWhenReadyHolds == SafeSpec => []GoesOnWhenReady
  BY Invariance, PTL DEF IInv

-------------------------------------------------------------------------------
\* The result with the lock.  The additions made so far are those whose number
\* is above what the thread has left; once all threads have ended they are all
\* there are, and the cardinality of a product is known.
Done == {d \in Workers \X (1 .. Rounds) : d[1] <= created /\ d[2] > left[d[1]]}
Counted == stores = Cardinality(Done)

\* Threads that run were created, in this round those only; one that was joined
\* had ended, and one that has ended is done.
Started ==
  /\ \A t \in Workers : pc[t] # "none" => t <= created
  /\ \A t \in Workers : pc[t] = "ended" => left[t] = 0
  /\ joined > 0 => created = N
  /\ \A t \in Workers : t <= joined => pc[t] = "ended"
  /\ phase \in {"over", "ec3"} => created = 0 /\ joined = 0

\* What was printed in each phase.
Lines ==
  /\ phase \in {"racy", "ec3"} => printed = <<>>
  /\ phase = "locked" => Len(printed) = 1
  /\ phase = "over" => Len(printed) = 2 /\ printed[2] = N * Rounds

CInv == Counted /\ Started /\ Lines

LEMMA Appended ==
  ASSUME NEW s \in Seq(Nat), NEW e \in Nat
  PROVE  Len(Append(s, e)) = Len(s) + 1 /\ Append(s, e)[Len(s) + 1] = e
  OBVIOUS

LEMMA DoneFinite ==
  IsFiniteSet(Done) /\ IsFiniteSet(Workers \X (1 .. Rounds))
<1>1. IsFiniteSet(Workers) /\ IsFiniteSet(1 .. Rounds)
  BY ThreadsAssumption, FS_Interval DEF Workers
<1>2. IsFiniteSet(Workers \X (1 .. Rounds))
  BY <1>1, FS_Product
<1>3. Done \in SUBSET (Workers \X (1 .. Rounds))
  BY DEF Done
<1> QED
  BY <1>2, <1>3, FS_Subset

LEMMA InitCInv == Init => CInv
<1> SUFFICES ASSUME Init PROVE CInv
  OBVIOUS
<1>1. Done = {}
  BY ThreadsAssumption DEF Init, Done, Workers
<1>2. Counted
  BY <1>1, FS_EmptySet DEF Init, Counted
<1>3. \A t \in Workers : pc[t] = "none"
  BY ThreadsAssumption DEF Init, Workers, Threads
<1>4. created = 0 /\ joined = 0 /\ phase \in {"racy", "ec3"} /\ printed = <<>>
  BY DEF Init
<1>5. Started
  BY <1>3, <1>4, ThreadsAssumption DEF Started, Workers
<1>6. Lines
  BY <1>4 DEF Lines
<1> QED
  BY <1>2, <1>5, <1>6 DEF CInv

\* The step that makes an addition.
LEMMA StoreCounts ==
  ASSUME IInv, Counted, Started, NEW t \in Workers, Store(t)
  PROVE  Counted'
<1> USE ThreadsAssumption DEF Workers
<1>1. left[t] \in 1 .. Rounds /\ left' = [left EXCEPT ![t] = left[t] - 1] /\ created' = created
  BY DEF IInv, TypeOK, MoreToDo, Store, Goto
<1>2. t <= created /\ created \in Nat
  BY DEF IInv, TypeOK, Started, Store, Goto
<1>3. left \in [Workers -> Int]
  BY DEF IInv, TypeOK
<1>4. Done' = Done \cup {<<t, left[t]>>}
  BY <1>1, <1>2, <1>3 DEF Done
<1>5. <<t, left[t]>> \notin Done
  BY <1>1 DEF Done
<1>6. stores' = stores + 1
  BY DEF Store
<1> QED
  BY <1>4, <1>5, <1>6, DoneFinite, FS_AddElement DEF Counted

\* When every thread was joined, every addition was made.
LEMMA AllDone ==
  ASSUME IInv, Counted, Started, joined = N
  PROVE  stores = N * Rounds
<1> USE ThreadsAssumption DEF Workers
<1>1. created = N /\ \A t \in Workers : left[t] = 0
  BY DEF Started
<1>2. Done = Workers \X (1 .. Rounds)
  BY <1>1 DEF Done
<1>3. Cardinality(Workers) = N /\ IsFiniteSet(Workers)
  BY FS_Interval
<1>4. Cardinality(1 .. Rounds) = Rounds /\ IsFiniteSet(1 .. Rounds)
  BY FS_Interval
<1>5. Cardinality(Workers \X (1 .. Rounds)) = N * Rounds
  BY <1>3, <1>4, FS_Product
<1> QED
  BY <1>2, <1>5 DEF Counted

LEMMA CountStep ==
  ASSUME IInv, CInv, [Next]_vars
  PROVE  CInv'
<1> USE ThreadsAssumption DEF Workers, Threads
<1>0. /\ created \in Nat /\ joined \in Nat /\ left \in [Workers -> Int]
      /\ pc \in [Threads -> Labels] /\ printed \in Seq(Nat) /\ counter \in Nat
  BY DEF IInv, TypeOK
<1>1. CASE Create
  <2>1. /\ created' = created + 1 /\ created' \in Workers
        /\ left' = [left EXCEPT ![created'] = Rounds]
    BY <1>0, <1>1 DEF Create
  <2>2. Done' = Done
    BY <1>0, <2>1 DEF Done
  <2>3. Counted'
    BY <1>1, <2>2 DEF Create, CInv, Counted
  <2>4. joined = 0 /\ phase \in {"racy", "locked"}
    BY <1>0, <1>1 DEF Create, CInv, Started
  <2>5. \A t \in Workers : pc'[t] = IF t = created' THEN (IF phase = "racy" THEN "load" ELSE "lock") ELSE pc[t]
    BY <1>0, <1>1, <2>1 DEF Create
  <2>6. Started'
    BY <1>0, <1>1, <2>1, <2>4, <2>5 DEF Create, CInv, Started
  <2>7. Lines'
    BY <1>1 DEF Create, CInv, Lines
  <2> QED
    BY <2>3, <2>6, <2>7 DEF CInv
<1>2. CASE Join
  <2>1. Done' = Done
    BY <1>2 DEF Join, Done
  <2>2. Counted'
    BY <1>2, <2>1 DEF Join, CInv, Counted
  <2>3. joined' = joined + 1 /\ joined + 1 \in Workers /\ pc[joined + 1] = "ended"
    BY <1>0, <1>2 DEF Join
  <2>4. phase \notin {"over", "ec3"}
    BY <1>2 DEF Join, CInv, Started
  <2>5. Started'
    BY <1>0, <1>2, <2>3, <2>4 DEF Join, CInv, Started
  <2>6. Lines'
    BY <1>2 DEF Join, CInv, Lines
  <2> QED
    BY <2>2, <2>5, <2>6 DEF CInv
<1>3. CASE Report
  <2>1. Done' = {}
    BY <1>0, <1>3 DEF Report, Done
  <2>2. Counted'
    BY <1>3, <2>1, FS_EmptySet DEF Report, Counted
  <2>3. Started'
    BY <1>3 DEF Report, Started
  <2>4. phase \in {"racy", "locked"}
    BY <1>3 DEF Report, CInv, Started, IInv, TypeOK
  <2>5. CASE phase = "racy"
    <3>1. Len(printed) = 0 /\ printed' = Append(printed, counter) /\ phase' = "locked"
      BY <1>3, <2>5 DEF Report, CInv, Lines
    <3>2. Lines'
      BY <1>0, <3>1, Appended DEF Lines
    <3> QED
      BY <2>2, <2>3, <3>2 DEF CInv
  <2>6. CASE phase = "locked"
    <3>1. counter = N * Rounds
      BY <1>3, <2>6, AllDone DEF Report, CInv, IInv, NoneLost
    <3>2. printed' = Append(printed, counter) /\ Len(printed) = 1
      BY <1>3, <2>6 DEF Report, CInv, Lines
    <3>. DEFINE L == Len(printed)
    <3>3. Len(printed') = L + 1 /\ printed'[L + 1] = counter
      BY <1>0, <3>2, Appended
    <3>4. Len(printed') = 2 /\ printed'[2] = counter
      BY <3>2, <3>3
    <3>5. phase' = "over"
      BY <1>3, <2>6 DEF Report
    <3>6. Lines'
      BY <3>1, <3>4, <3>5 DEF Lines
    <3> QED
      BY <2>2, <2>3, <3>6 DEF CInv
  <2> QED
    BY <2>2, <2>3, <2>4, <2>5, <2>6 DEF CInv
<1>4. ASSUME NEW t \in Workers, Worker(t)
      PROVE  CInv'
  <2>1. CASE Lock(t)
    <3>1. Done' = Done /\ Counted'
      BY <2>1 DEF Lock, counterVars, Done, CInv, Counted
    <3>2. Started' /\ Lines'
      BY <1>0, <2>1 DEF Lock, counterVars, Goto, CInv, Started, Lines
    <3> QED
      BY <3>1, <3>2 DEF CInv
  <2>2. CASE Load(t)
    <3>1. Done' = Done /\ Counted'
      BY <2>2 DEF Load, counterVars, Done, CInv, Counted
    <3>2. Started' /\ Lines'
      BY <1>0, <2>2 DEF Load, counterVars, Goto, CInv, Started, Lines
    <3> QED
      BY <3>1, <3>2 DEF CInv
  <2>3. CASE Store(t)
    <3>1. Counted'
      BY <2>3, StoreCounts DEF CInv
    <3>2. Started' /\ Lines'
      BY <1>0, <2>3 DEF Store, Goto, CInv, Started, Lines, IInv, MoreToDo
    <3> QED
      BY <3>1, <3>2 DEF CInv
  <2>4. CASE Unlock(t)
    <3>1. Done' = Done /\ Counted'
      BY <2>4 DEF Unlock, counterVars, Done, CInv, Counted
    <3>2. Started' /\ Lines'
      BY <1>0, <2>4 DEF Unlock, counterVars, Goto, CInv, Started, Lines
    <3> QED
      BY <3>1, <3>2 DEF CInv
  <2> QED
    BY <1>4, <2>1, <2>2, <2>3, <2>4 DEF Worker
\* Nothing of ec2 moves in ec3.
<1>5. CASE ConsumerStep \/ ProducerStep
  <2>1. UNCHANGED <<phase, counterVars>> /\ \A t \in Workers : pc'[t] = pc[t]
    BY <1>0, <1>5
       DEF ConsumerStep, ProducerStep, Goto, Consumer, Producer, counterVars,
           LockConsumer, Test, Block, WakeUp, Relock, GoOn,
           LockProducer, SetReady, notify_one, UnlockProducer
  <2>2. Done' = Done /\ Counted'
    BY <2>1 DEF counterVars, Done, CInv, Counted
  <2>3. Started' /\ Lines'
    BY <2>1 DEF counterVars, CInv, Started, Lines
  <2> QED
    BY <2>2, <2>3 DEF CInv
<1>6. CASE UNCHANGED vars
  BY <1>6 DEF vars, counterVars, CInv, Counted, Done, Started, Lines
<1> QED
  BY <1>1, <1>2, <1>3, <1>4, <1>5, <1>6 DEF Next

\* main.cpp:48 and 89: with the lock the number printed is the number of threads
\* times the rounds of each, whatever the schedule.
THEOREM LockedExactHolds == SafeSpec => []LockedExact
<1>1. IInv /\ CInv /\ [Next]_vars => CInv'
  BY CountStep
<1>2. IInv /\ CInv => LockedExact
  <2>1. Lines /\ phase \in {"racy", "ec3"} => Len(printed) = 0
    BY DEF Lines
  <2>2. Lines /\ phase = "locked" => Len(printed) = 1
    BY DEF Lines
  <2>3. Lines /\ phase = "over" => printed[2] = N * Rounds
    BY DEF Lines
  <2>4. TypeOK => phase \in {"racy", "locked", "over", "ec3"}
    BY DEF TypeOK
  <2> QED
    BY <2>1, <2>2, <2>3, <2>4 DEF IInv, CInv, LockedExact
<1> QED
  BY Invariance, InitCInv, <1>1, <1>2, PTL DEF SafeSpec

-------------------------------------------------------------------------------
\* The result without the lock.  Whatever is overwritten, nobody writes more than the
\* number of additions made, and only a thread at its first addition can write less
\* than two: it alone can have loaded before the first store.
AtMostStores == counter <= stores /\ \A t \in Workers : tmp[t] <= stores
PositiveOnce ==
  /\ stores >= 1 => counter >= 1
  /\ \A t \in Workers : pc[t] # "none" /\ left[t] < Rounds => stores >= 1
  /\ \A t \in Workers : pc[t] = "store" /\ left[t] < Rounds => tmp[t] >= 1
LastNotFirst ==
  Rounds >= 2 /\ created = N /\ (\A t \in Workers : left[t] = 0) => counter >= 2
AloneExact == N = 1 => counter = stores /\ (pc[1] = "store" => tmp[1] = counter)
Overwritten == AtMostStores /\ PositiveOnce /\ LastNotFirst /\ AloneExact

RInv == (phase = "racy" => Overwritten) /\ RacyBounds

LEMMA InitRInv == Init => RInv
<1> SUFFICES ASSUME Init PROVE RInv
  OBVIOUS
<1>1. /\ counter = 0 /\ stores = 0 /\ created = 0 /\ printed = <<>>
      /\ \A t \in Workers : tmp[t] = 0
  BY DEF Init
<1>a. \A t \in Workers : pc[t] = "none"
  BY ThreadsAssumption DEF Init, Workers, Threads
<1>2. AtMostStores /\ PositiveOnce /\ LastNotFirst
  BY <1>1, <1>a, ThreadsAssumption DEF AtMostStores, PositiveOnce, LastNotFirst
<1>3. AloneExact
  BY <1>1 DEF AloneExact, Workers
<1> QED BY <1>1, <1>2, <1>3 DEF RInv, Overwritten, RacyBounds

\* What the steps of the racy round keep.
LEMMA CreateOverwritten ==
  ASSUME IInv, Overwritten, Create, phase = "racy"
  PROVE  Overwritten'
<1> USE ThreadsAssumption DEF Workers, Threads
<1>0. /\ created \in Nat /\ left \in [Workers -> Int] /\ pc \in [Threads -> Labels]
  BY DEF IInv, TypeOK
<1>1. /\ created' = created + 1 /\ created' \in Workers
      /\ left' = [left EXCEPT ![created'] = Rounds] /\ pc' = [pc EXCEPT ![created'] = "load"]
      /\ UNCHANGED <<tmp, counter, stores>>
  BY <1>0 DEF Create
<1>2. \A t \in Workers :
        /\ left'[t] = IF t = created' THEN Rounds ELSE left[t]
        /\ pc'[t] = IF t = created' THEN "load" ELSE pc[t]
  BY <1>0, <1>1
<1>3. AtMostStores' /\ PositiveOnce'
  BY <1>1, <1>2 DEF Overwritten, AtMostStores, PositiveOnce
<1>4. LastNotFirst'
  BY <1>1, <1>2 DEF LastNotFirst
<1>5. AloneExact'
  BY <1>1, <1>2 DEF Overwritten, AloneExact
<1> QED BY <1>3, <1>4, <1>5 DEF Overwritten

LEMMA LoadOverwritten ==
  ASSUME IInv, Overwritten, NEW t \in Workers, Load(t), phase = "racy"
  PROVE  Overwritten'
<1> USE ThreadsAssumption DEF Workers, Threads
<1>0. /\ tmp \in [Workers -> Nat] /\ pc \in [Threads -> Labels] /\ counter \in Nat /\ stores \in Nat
      /\ left \in [Workers -> 0 .. Rounds]
  BY DEF IInv, TypeOK
<1>1. /\ pc[t] = "load" /\ pc' = [pc EXCEPT ![t] = "store"] /\ tmp' = [tmp EXCEPT ![t] = counter]
      /\ UNCHANGED <<created, left, counter, stores>>
  BY DEF Load, Goto
<1>2. \A u \in Workers :
        /\ tmp'[u] = IF u = t THEN counter ELSE tmp[u]
        /\ pc'[u] = IF u = t THEN "store" ELSE pc[u]
  BY <1>0, <1>1
<1>3. AtMostStores'
  BY <1>0, <1>1, <1>2 DEF Overwritten, AtMostStores
<1>4. PositiveOnce'
  <2>1. left[t] < Rounds => counter >= 1
    BY <1>1 DEF Overwritten, PositiveOnce
  <2> QED BY <1>1, <1>2, <2>1 DEF Overwritten, PositiveOnce
<1>5. LastNotFirst'
  BY <1>1 DEF Overwritten, LastNotFirst
<1>6. AloneExact'
  BY <1>1, <1>2 DEF Overwritten, AloneExact
<1> QED BY <1>3, <1>4, <1>5, <1>6 DEF Overwritten

LEMMA StoreOverwritten ==
  ASSUME IInv, Overwritten, NEW t \in Workers, Store(t), phase = "racy"
  PROVE  Overwritten'
<1> USE ThreadsAssumption DEF Workers, Threads
<1>0. /\ tmp \in [Workers -> Nat] /\ pc \in [Threads -> Labels] /\ counter \in Nat /\ stores \in Nat
      /\ left \in [Workers -> Int] /\ left[t] \in 1 .. Rounds
  BY DEF IInv, TypeOK, MoreToDo, Store, Goto
<1>1. /\ pc[t] = "store" /\ counter' = tmp[t] + 1 /\ stores' = stores + 1
      /\ left' = [left EXCEPT ![t] = left[t] - 1]
      /\ pc'[t] # "store" /\ \A u \in Workers \ {t} : pc'[u] = pc[u]
      /\ UNCHANGED <<created, tmp>>
  BY <1>0 DEF Store, Goto
<1>2. \A u \in Workers : left'[u] = IF u = t THEN left[t] - 1 ELSE left[u]
  BY <1>0, <1>1
<1>3. AtMostStores'
  BY <1>0, <1>1 DEF Overwritten, AtMostStores
<1>4. PositiveOnce'
  BY <1>0, <1>1, <1>2 DEF Overwritten, PositiveOnce
<1>5. LastNotFirst'
  <2> SUFFICES ASSUME Rounds >= 2, \A u \in Workers : left'[u] = 0
               PROVE  counter' >= 2
    BY DEF LastNotFirst
  <2>a. left'[t] = 0 /\ left'[t] = left[t] - 1
    BY <1>2
  <2>b. left[t] \in Int
    BY <1>0
  <2>1. left[t] = 1
    BY <2>a, <2>b
  <2>2. tmp[t] >= 1
    BY <1>1, <2>1 DEF Overwritten, PositiveOnce
  <2> QED BY <1>0, <1>1, <2>2
<1>6. AloneExact'
  BY <1>0, <1>1 DEF Overwritten, AloneExact
<1> QED BY <1>3, <1>4, <1>5, <1>6 DEF Overwritten

\* What is printed first is the racy counter once all have been joined.
LEMMA RacyReport ==
  ASSUME IInv, CInv, RInv, Report
  PROVE  RInv'
<1>0. counter \in Nat /\ printed \in Seq(Nat) /\ stores \in Nat
  BY DEF IInv, TypeOK
<1>1. printed' = Append(printed, counter) /\ phase' \in {"locked", "over"} /\ joined = N
  BY DEF Report
<1>2. phase \in {"racy", "locked"}
  BY <1>1, ThreadsAssumption DEF Report, CInv, Started, IInv, TypeOK
<1>3. CASE phase = "locked"
  <2>1. Len(printed) = 1 /\ printed # <<>>
    BY <1>3 DEF CInv, Lines
  <2>2. printed'[1] = printed[1] /\ printed' # <<>>
    BY <1>0, <1>1, <2>1
  <2> QED BY <1>1, <2>1, <2>2 DEF RInv, RacyBounds
<1>4. CASE phase = "racy"
  <2>1. stores = N * Rounds /\ Overwritten
    BY <1>1, <1>4, AllDone DEF CInv, RInv
  <2>2. created = N /\ \A t \in Workers : left[t] = 0
    BY <1>1, ThreadsAssumption DEF CInv, Started, Workers
  <2>3. counter <= N * Rounds
    BY <2>1 DEF Overwritten, AtMostStores
  <2>4. counter >= Least
    <3>1. CASE N = 1
      BY <2>1, <3>1, ThreadsAssumption DEF Least, Overwritten, AloneExact
    <3>2. CASE N # 1 /\ Rounds = 1
      BY <2>1, <3>2, ThreadsAssumption DEF Least, Overwritten, PositiveOnce
    <3>3. CASE N # 1 /\ Rounds # 1
      BY <2>1, <2>2, <3>3, ThreadsAssumption DEF Least, Overwritten, LastNotFirst
    <3> QED BY <3>1, <3>2, <3>3
  <2>5. printed'[1] = counter
    <3>1. Len(printed) = 0
      BY <1>4 DEF CInv, Lines
    <3> QED BY <1>0, <1>1, <3>1, Appended
  <2>6. Least \in Int /\ N * Rounds \in Int
    BY ThreadsAssumption DEF Least
  <2> QED BY <1>0, <1>1, <2>3, <2>4, <2>5, <2>6 DEF RInv, RacyBounds
<1> QED BY <1>2, <1>3, <1>4

LEMMA RacyStep ==
  ASSUME IInv, CInv, RInv, [Next]_vars
  PROVE  RInv'
<1>0. pc \in [Threads -> Labels]
  BY DEF IInv, TypeOK
<1>1. CASE Report
  BY <1>1, RacyReport
<1>2. CASE Create
  <2>1. UNCHANGED <<phase, printed>>
    BY <1>2 DEF Create
  <2> QED BY <1>2, <2>1, CreateOverwritten DEF RInv, RacyBounds
<1>3. CASE Join
  BY <1>3 DEF Join, RInv, RacyBounds, Overwritten, AtMostStores, PositiveOnce, LastNotFirst, AloneExact
<1>4. ASSUME NEW t \in Workers, Worker(t)
      PROVE  RInv'
  <2>1. CASE Load(t)
    <3>1. UNCHANGED <<phase, printed>>
      BY <2>1 DEF Load
    <3> QED BY <2>1, <3>1, LoadOverwritten DEF RInv, RacyBounds
  <2>2. CASE Store(t)
    <3>1. UNCHANGED <<phase, printed>>
      BY <2>2 DEF Store
    <3> QED BY <2>2, <3>1, StoreOverwritten DEF RInv, RacyBounds
  \* Without the lock nobody takes it or gives it back.
  <2>3. CASE Lock(t) \/ Unlock(t)
    <3>1. UNCHANGED <<phase, counterVars>> /\ pc[t] \in {"lock", "unlock"}
          /\ pc'[t] \in {"load", "lock", "ended"} /\ \A u \in Workers \ {t} : pc'[u] = pc[u]
      BY <1>0, <2>3, ThreadsAssumption DEF Lock, Unlock, Goto, Workers, Threads
    <3>2. \A u \in Workers : pc'[u] = "store" => pc[u] = "store"
      BY <3>1
    <3>3. \A u \in Workers : pc[u] = "none" => pc'[u] = "none"
      BY <3>1
    <3>4. 1 \in Workers
      BY ThreadsAssumption DEF Workers
    <3>5. Overwritten => Overwritten'
      BY <3>1, <3>2, <3>3, <3>4
         DEF counterVars, Overwritten, AtMostStores, PositiveOnce, LastNotFirst, AloneExact
    <3> QED BY <3>1, <3>5 DEF RInv, RacyBounds, counterVars
  <2> QED BY <1>4, <2>1, <2>2, <2>3 DEF Worker
<1>5. CASE ConsumerStep \/ ProducerStep
  <2>1. UNCHANGED <<phase, counterVars>> /\ \A t \in Workers : pc'[t] = pc[t]
    BY <1>0, <1>5, ThreadsAssumption
       DEF ConsumerStep, ProducerStep, Goto, Consumer, Producer, counterVars, Workers, Threads,
           LockConsumer, Test, Block, WakeUp, Relock, GoOn,
           LockProducer, SetReady, notify_one, UnlockProducer
  <2>2. 1 \in Workers
    BY ThreadsAssumption DEF Workers
  <2>3. Overwritten => Overwritten'
    BY <2>1, <2>2
       DEF counterVars, Overwritten, AtMostStores, PositiveOnce, LastNotFirst, AloneExact
  <2> QED BY <2>1, <2>3 DEF RInv, RacyBounds, counterVars
<1>6. CASE UNCHANGED vars
  BY <1>6 DEF vars, counterVars, RInv, RacyBounds, Overwritten, AtMostStores, PositiveOnce,
     LastNotFirst, AloneExact
<1> QED
  BY <1>1, <1>2, <1>3, <1>4, <1>5, <1>6 DEF Next

\* main.cpp:47: however the threads overwrite each other, two additions are left (one,
\* if each makes only one; all, if there is one thread), for every N and Rounds.
THEOREM RacyBoundsHold == SafeSpec => []RacyBounds
  BY Invariance, InitCInv, CountStep, InitRInv, RacyStep, PTL DEF SafeSpec, RInv
===============================================================================
