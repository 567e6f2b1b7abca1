------------------------- MODULE ReadersWritersProofs -------------------------
(***************************************************************************)
(* Proofs about ReadersWriters, for every finite number of readers and of  *)
(* writers: the shared count, who owns sem_write, whole messages, and that *)
(* the threads implement ReadWriteLock.                                    *)
(***************************************************************************)
EXTENDS ReadersWriters, FiniteSetTheorems, TLAPS

\* TypeOK but for the bounds of readers, which follow from what it counts.
Types ==
  /\ readers \in Int
  /\ buffer \in Messages \X Messages
  /\ sem_mutex \in {0, 1} /\ sem_write \in {0, 1}
  /\ pc \in [Threads -> ReaderLabels \cup WriterLabels]
  /\ \A r \in Readers : pc[r] \in ReaderLabels
  /\ \A w \in Writers : pc[w] \in WriterLabels
  /\ count \in [Writers -> 0 .. Kinds - 1]
  /\ seen \in [Readers -> Messages]
  /\ exited \in BOOLEAN

\* The readers between sem_wait and sem_post of sem_mutex: one at most, and one
\* exactly while it is taken.
InMutex ==
  {r \in Readers : pc[r] \in {"count_in", "first", "unlock_in",
                               "count_out", "last", "unlock_out"}}
Mutex ==
  /\ \A r, s \in InMutex : r = s
  /\ sem_mutex = 0 <=> InMutex # {}

Counting == readers = Cardinality(Counted)

\* The readers own sem_write as a group; if they do no writer does, and of the
\* writers one at most.
Group ==
  \/ \E r \in Counted : pc[r] # "first"
  \/ \E r \in Readers : pc[r] = "last" /\ readers = 0
Owner ==
  /\ \A v, w \in Writing : v = w
  /\ ~(Writing # {} /\ Group)
  /\ sem_write = 0 <=> Writing # {} \/ Group

\* What the buffer holds while a writer is inside.
Whole ==
  /\ NoTornRead
  /\ \A w \in Writers :
       /\ pc[w] \in {"write_1", "unlock"} => buffer[1] = buffer[2]
       /\ pc[w] = "write_2" => buffer[1] = <<w, count[w]>>

IInv == Types /\ Mutex /\ Counting /\ Owner /\ Whole

-------------------------------------------------------------------------------
LEMMA CountedFinite == IsFiniteSet(Counted) /\ Cardinality(Counted) \in 0 .. Cardinality(Readers)
<1>1. Counted \in SUBSET Readers
  BY DEF Counted
<1> QED
  BY <1>1, ThreadAssumption, FS_Subset, FS_CardinalityType

\* With a count other than one, a counted reader is not alone.
LEMMA NotAlone ==
  ASSUME Counting, NEW r \in Counted, readers # 1
  PROVE  \E s \in Counted : s # r
<1>1. SUFFICES ASSUME \A s \in Counted : s = r PROVE FALSE
  OBVIOUS
<1>2. Counted = {r}
  BY <1>1
<1> QED
  BY <1>2, FS_Singleton DEF Counting

LEMMA NobodyCounted == Counting => (readers = 0 <=> Counted = {})
  BY CountedFinite, FS_EmptySet DEF Counting

\* A writer inside and a reader inside exclude each other.
LEMMA Exclusion ==
  ASSUME Owner
  PROVE  /\ Writing # {} => Reading = {}
         /\ \A r \in Readers : pc[r] = "unlock_in" => Writing = {}
  BY DEF Owner, Group, Counted, Reading

-------------------------------------------------------------------------------
\* What the step of one thread leaves alone.
LEMMA ReaderMoves ==
  ASSUME Types, NEW r \in Readers, NEW from, NEW to, Goto(r, from, to)
  PROVE  /\ pc[r] = from /\ pc'[r] = to
         /\ \A x \in Threads \ {r} : pc'[x] = pc[x]
         /\ \A w \in Writers : pc'[w] = pc[w]
         /\ Writing' = Writing
<1>1. /\ pc[r] = from /\ pc'[r] = to
      /\ \A x \in Threads \ {r} : pc'[x] = pc[x]
  BY DEF Types, Goto, Threads
<1>2. \A w \in Writers : pc'[w] = pc[w]
  BY <1>1, ThreadAssumption DEF Threads
<1>3. Writing' = Writing
  BY <1>2 DEF Writing
<1> QED
  BY <1>1, <1>2, <1>3

LEMMA WriterMoves ==
  ASSUME Types, NEW w \in Writers, NEW from, NEW to, Goto(w, from, to)
  PROVE  /\ pc[w] = from /\ pc'[w] = to
         /\ \A x \in Threads \ {w} : pc'[x] = pc[x]
         /\ \A r \in Readers : pc'[r] = pc[r]
         /\ Reading' = Reading /\ Counted' = Counted
<1>1. /\ pc[w] = from /\ pc'[w] = to
      /\ \A x \in Threads \ {w} : pc'[x] = pc[x]
  BY DEF Types, Goto, Threads
<1>2. \A r \in Readers : pc'[r] = pc[r]
  BY <1>1, ThreadAssumption DEF Threads
<1>3. Reading' = Reading /\ Counted' = Counted
  BY <1>2 DEF Reading, Counted
<1> QED
  BY <1>1, <1>2, <1>3

-------------------------------------------------------------------------------
LEMMA InitIInv == Init => IInv
<1> SUFFICES ASSUME Init PROVE IInv
  OBVIOUS
<1>1. /\ \A r \in Readers : pc[r] = "lock_in"
      /\ \A w \in Writers : pc[w] = "lock"
  BY ThreadAssumption DEF Init, Threads
<1>2. Counted = {} /\ InMutex = {} /\ Writing = {}
  BY <1>1 DEF Counted, InMutex, Writing
<1>3. Types
  <2>1. pc \in [Threads -> ReaderLabels \cup WriterLabels]
    BY DEF Init, ReaderLabels, WriterLabels
  <2>2. exited \in BOOLEAN
    BY Zenon DEF Init
  <2> QED
    BY <1>1, <2>1, <2>2, ThreadAssumption DEF Init, Types, Messages, ReaderLabels, WriterLabels
<1>4. Mutex
  BY <1>2 DEF Init, Mutex
<1>5. Counting
  BY <1>2, FS_EmptySet DEF Init, Counting
<1>6. Owner
  BY <1>1, <1>2 DEF Init, Owner, Group
<1>7. Whole
  BY <1>1 DEF Init, Whole, NoTornRead
<1> QED
  BY <1>3, <1>4, <1>5, <1>6, <1>7 DEF IInv

\* Types: that the semaphores stay binary takes Mutex and Owner.
LEMMA TypesStep ==
  ASSUME IInv, [Next]_vars
  PROVE  Types'
<1> USE ThreadAssumption DEF IInv, Types, Goto, Threads, ReaderLabels, WriterLabels,
     sem_wait, sem_post, Mutex, InMutex, Owner, Group, Counted, Writing, IsFirst, IsLast
<1>1. ASSUME NEW r \in Readers, Reader(r)
      PROVE  Types'
  <2>1. CASE LockIn(r)
    BY <2>1 DEF LockIn
  <2>2. CASE CountIn(r)
    BY <2>2 DEF CountIn
  <2>3. CASE First(r)
    BY <2>3 DEF First
  <2>4. CASE UnlockIn(r)
    BY <2>4 DEF UnlockIn
  <2>5. CASE Read1(r)
    BY <2>5 DEF Read1
  <2>6. CASE Read2(r)
    BY <2>6 DEF Read2, Messages
  <2>7. CASE LockOut(r)
    BY <2>7 DEF LockOut
  <2>8. CASE CountOut(r)
    BY <2>8 DEF CountOut
  <2>9. CASE Last(r)
    BY <2>9 DEF Last
  <2>10. CASE UnlockOut(r)
    BY <2>10 DEF UnlockOut
  <2> QED
    BY <1>1, <2>1, <2>2, <2>3, <2>4, <2>5, <2>6, <2>7, <2>8, <2>9, <2>10 DEF Reader
<1>2. ASSUME NEW w \in Writers, Writer(w)
      PROVE  Types'
  <2>1. CASE Acquire(w)
    BY <2>1 DEF Acquire
  <2>2. CASE Write1(w)
    <3>1. count' \in [Writers -> 0 .. Kinds - 1]
      BY <2>2 DEF Write1
    <3>2. <<w, count'[w]>> \in Messages
      BY <3>1 DEF Messages
    <3>3. buffer' \in Messages \X Messages
      BY <2>2, <3>2 DEF Write1
    <3> QED
      BY <2>2, <3>1, <3>3 DEF Write1
  <2>3. CASE Write2(w)
    <3>1. <<w, count[w]>> \in Messages
      BY DEF Messages
    <3>2. buffer' \in Messages \X Messages
      BY <2>3, <3>1 DEF Write2
    <3> QED
      BY <2>3, <3>2 DEF Write2
  <2>4. CASE Release(w)
    BY <2>4 DEF Release
  <2> QED
    BY <1>2, <2>1, <2>2, <2>3, <2>4 DEF Writer
<1>3. CASE Interrupt
  BY <1>3 DEF Interrupt
<1>4. CASE UNCHANGED vars
  BY <1>4 DEF vars
<1> QED
  BY <1>1, <1>2, <1>3, <1>4 DEF Next, Exited

\* Only a reader that found sem_mutex free gets in.
LEMMA MutexStep ==
  ASSUME IInv, [Next]_vars
  PROVE  Mutex'
<1> USE ThreadAssumption DEF IInv, Types, Goto, Threads, ReaderLabels, WriterLabels,
     sem_wait, sem_post, Mutex, InMutex
<1>1. ASSUME NEW r \in Readers, Reader(r)
      PROVE  Mutex'
  <2>1. CASE LockIn(r)
    BY <2>1 DEF LockIn
  <2>2. CASE CountIn(r)
    BY <2>2 DEF CountIn
  <2>3. CASE First(r)
    BY <2>3 DEF First
  <2>4. CASE UnlockIn(r)
    BY <2>4 DEF UnlockIn
  <2>5. CASE Read1(r)
    BY <2>5 DEF Read1
  <2>6. CASE Read2(r)
    BY <2>6 DEF Read2
  <2>7. CASE LockOut(r)
    BY <2>7 DEF LockOut
  <2>8. CASE CountOut(r)
    BY <2>8 DEF CountOut
  <2>9. CASE Last(r)
    BY <2>9 DEF Last
  <2>10. CASE UnlockOut(r)
    BY <2>10 DEF UnlockOut
  <2> QED
    BY <1>1, <2>1, <2>2, <2>3, <2>4, <2>5, <2>6, <2>7, <2>8, <2>9, <2>10 DEF Reader
<1>2. ASSUME NEW w \in Writers, Writer(w)
      PROVE  Mutex'
  <2>1. CASE Acquire(w)
    BY <2>1 DEF Acquire
  <2>2. CASE Write1(w)
    BY <2>2 DEF Write1
  <2>3. CASE Write2(w)
    BY <2>3 DEF Write2
  <2>4. CASE Release(w)
    BY <2>4 DEF Release
  <2> QED
    BY <1>2, <2>1, <2>2, <2>3, <2>4 DEF Writer
<1>3. CASE Interrupt
  BY <1>3 DEF Interrupt
<1>4. CASE UNCHANGED vars
  BY <1>4 DEF vars
<1> QED
  BY <1>1, <1>2, <1>3, <1>4 DEF Next, Exited

\* CountIn adds a reader to Counted, CountOut takes one out; no other step moves one.
LEMMA CountingStep ==
  ASSUME IInv, [Next]_vars
  PROVE  Counting'
<1> USE ThreadAssumption DEF IInv, Types, Goto, Threads, Counting
<1>1. ASSUME NEW r \in Readers, Reader(r)
      PROVE  Counting'
  <2>1. CASE LockIn(r)
    BY <2>1 DEF LockIn, Counted
  <2>2. CASE CountIn(r)
    <3>1. Counted' = Counted \cup {r} /\ r \notin Counted
      BY <2>2 DEF CountIn, Counted
    <3> QED
      BY <2>2, <3>1, CountedFinite, FS_AddElement DEF CountIn
  <2>3. CASE First(r)
    BY <2>3 DEF First, Counted
  <2>4. CASE UnlockIn(r)
    BY <2>4 DEF UnlockIn, Counted
  <2>5. CASE Read1(r)
    BY <2>5 DEF Read1, Counted
  <2>6. CASE Read2(r)
    BY <2>6 DEF Read2, Counted
  <2>7. CASE LockOut(r)
    BY <2>7 DEF LockOut, Counted
  <2>8. CASE CountOut(r)
    <3>1. Counted' = Counted \ {r} /\ r \in Counted
      BY <2>8 DEF CountOut, Counted
    <3> QED
      BY <2>8, <3>1, CountedFinite, FS_RemoveElement DEF CountOut
  <2>9. CASE Last(r)
    BY <2>9 DEF Last, Counted
  <2>10. CASE UnlockOut(r)
    BY <2>10 DEF UnlockOut, Counted
  <2> QED
    BY <1>1, <2>1, <2>2, <2>3, <2>4, <2>5, <2>6, <2>7, <2>8, <2>9, <2>10 DEF Reader
<1>2. ASSUME NEW w \in Writers, Writer(w)
      PROVE  Counting'
  <2>1. CASE Acquire(w)
    BY <2>1 DEF Acquire, Counted
  <2>2. CASE Write1(w)
    BY <2>2 DEF Write1, Counted
  <2>3. CASE Write2(w)
    BY <2>3 DEF Write2, Counted
  <2>4. CASE Release(w)
    BY <2>4 DEF Release, Counted
  <2> QED
    BY <1>2, <2>1, <2>2, <2>3, <2>4 DEF Writer
<1>3. CASE Interrupt
  BY <1>3 DEF Interrupt, Counted
<1>4. CASE UNCHANGED vars
  BY <1>4 DEF vars, Counted
<1> QED
  BY <1>1, <1>2, <1>3, <1>4 DEF Next, Exited

\* The first reader takes sem_write for the group and the last gives it back.
LEMMA OwnerStep ==
  ASSUME IInv, [Next]_vars
  PROVE  Owner'
<1> USE ThreadAssumption DEF IInv, Types, Goto, Threads, ReaderLabels, WriterLabels,
     sem_wait, sem_post, Mutex, InMutex, Owner, Group, Counted, Writing
<1>1. ASSUME NEW r \in Readers, Reader(r)
      PROVE  Owner'
  <2>1. CASE LockIn(r)
    BY <2>1 DEF LockIn
  <2>2. CASE CountIn(r)
    BY <2>2 DEF CountIn
  <2>3. CASE First(r)
    <3>1. Writing' = Writing /\ Group'
      BY <2>3, ReaderMoves DEF First
    <3>2. CASE readers = 1
      BY <2>3, <3>1, <3>2 DEF First, IsFirst
    <3>3. CASE readers # 1
      <4>1. PICK s \in Counted : s # r
        BY <2>3, <3>3, NotAlone DEF First
      <4>2. s \notin InMutex
        BY <2>3, <4>1 DEF First
      <4>3. Group
        BY <4>1, <4>2
      <4> QED
        BY <2>3, <3>1, <3>3, <4>3 DEF First, IsFirst
    <3> QED
      BY <3>2, <3>3
  <2>4. CASE UnlockIn(r)
    BY <2>4 DEF UnlockIn
  <2>5. CASE Read1(r)
    BY <2>5 DEF Read1
  <2>6. CASE Read2(r)
    BY <2>6 DEF Read2
  <2>7. CASE LockOut(r)
    BY <2>7 DEF LockOut
  <2>8. CASE CountOut(r)
    <3>1. Writing' = Writing /\ pc[r] = "count_out" /\ pc'[r] = "last"
      BY <2>8, ReaderMoves DEF CountOut
    <3>2. Group
      BY <3>1
    <3>3. CASE readers = 1
      BY <2>8, <3>1, <3>2, <3>3 DEF CountOut
    <3>4. CASE readers # 1
      <4>1. PICK s \in Counted : s # r
        BY <3>1, <3>4, NotAlone
      <4>2. s \notin InMutex
        BY <3>1, <4>1
      <4>3. s \in Counted' /\ pc'[s] # "first"
        BY <2>8, <4>1, <4>2 DEF CountOut
      <4> QED
        BY <2>8, <3>1, <3>2, <4>3 DEF CountOut
    <3> QED
      BY <3>3, <3>4
  <2>9. CASE Last(r)
    <3>1. /\ Writing' = Writing /\ pc[r] = "last" /\ pc'[r] = "unlock_out"
          /\ Counted' = Counted
      BY <2>9, ReaderMoves DEF Last
    <3>2. CASE readers = 0
      <4>1. Counted' = {} /\ Group
        BY <3>1, <3>2, NobodyCounted
      <4>2. ~Group'
        BY <2>9, <3>1, <4>1 DEF Last
      <4> QED
        BY <2>9, <3>1, <3>2, <4>1, <4>2 DEF Last, IsLast
    <3>3. CASE readers # 0
      <4>1. PICK s \in Counted : TRUE
        BY <3>3, NobodyCounted
      <4>2. s \notin InMutex
        BY <3>1, <4>1
      <4>3. Group /\ Group'
        BY <2>9, <3>1, <4>1, <4>2 DEF Last
      <4> QED
        BY <2>9, <3>1, <3>3, <4>3 DEF Last, IsLast
    <3> QED
      BY <3>2, <3>3
  <2>10. CASE UnlockOut(r)
    BY <2>10 DEF UnlockOut
  <2> QED
    BY <1>1, <2>1, <2>2, <2>3, <2>4, <2>5, <2>6, <2>7, <2>8, <2>9, <2>10 DEF Reader
<1>2. ASSUME NEW w \in Writers, Writer(w)
      PROVE  Owner'
  <2>1. CASE Acquire(w)
    <3>1. Writing = {} /\ ~Group
      BY <2>1 DEF Acquire
    <3>2. Group' = Group
      BY <2>1, WriterMoves DEF Acquire
    <3>3. Writing' = {w}
      BY <2>1, <3>1 DEF Acquire
    <3>4. sem_write' = 0
      BY <2>1 DEF Acquire
    <3> QED
      BY <3>1, <3>2, <3>3, <3>4
  <2>2. CASE Write1(w)
    BY <2>2 DEF Write1
  <2>3. CASE Write2(w)
    BY <2>3 DEF Write2
  <2>4. CASE Release(w)
    BY <2>4 DEF Release
  <2> QED
    BY <1>2, <2>1, <2>2, <2>3, <2>4 DEF Writer
<1>3. CASE Interrupt
  BY <1>3 DEF Interrupt
<1>4. CASE UNCHANGED vars
  BY <1>4 DEF vars
<1> QED
  BY <1>1, <1>2, <1>3, <1>4 DEF Next, Exited

\* Only a writer that is alone changes the buffer.
LEMMA WholeStep ==
  ASSUME IInv, [Next]_vars
  PROVE  Whole'
<1> USE ThreadAssumption DEF IInv, Types, Goto, Threads, ReaderLabels, WriterLabels,
     Whole, NoTornRead, Owner, Group, Counted, Writing
<1>1. ASSUME NEW r \in Readers, Reader(r)
      PROVE  Whole'
  <2>1. CASE LockIn(r)
    BY <2>1 DEF LockIn
  <2>2. CASE CountIn(r)
    BY <2>2 DEF CountIn
  <2>3. CASE First(r)
    BY <2>3 DEF First
  <2>4. CASE UnlockIn(r)
    BY <2>4 DEF UnlockIn
  <2>5. CASE Read1(r)
    BY <2>5 DEF Read1
  <2>6. CASE Read2(r)
    BY <2>6 DEF Read2
  <2>7. CASE LockOut(r)
    BY <2>7 DEF LockOut
  <2>8. CASE CountOut(r)
    BY <2>8 DEF CountOut
  <2>9. CASE Last(r)
    BY <2>9 DEF Last
  <2>10. CASE UnlockOut(r)
    BY <2>10 DEF UnlockOut
  <2> QED
    BY <1>1, <2>1, <2>2, <2>3, <2>4, <2>5, <2>6, <2>7, <2>8, <2>9, <2>10 DEF Reader
<1>2. ASSUME NEW w \in Writers, Writer(w)
      PROVE  Whole'
  <2>1. CASE Acquire(w)
    <3>1. Writing = {}
      BY <2>1 DEF Acquire, sem_wait
    <3>2. buffer[1] = buffer[2]
      BY <3>1
    <3> QED
      BY <2>1, <3>2 DEF Acquire
  <2>2. CASE Write1(w)
    BY <2>2 DEF Write1
  <2>3. CASE Write2(w)
    BY <2>3 DEF Write2
  <2>4. CASE Release(w)
    BY <2>4 DEF Release
  <2> QED
    BY <1>2, <2>1, <2>2, <2>3, <2>4 DEF Writer
<1>3. CASE Interrupt
  BY <1>3 DEF Interrupt
<1>4. CASE UNCHANGED vars
  BY <1>4 DEF vars
<1> QED
  BY <1>1, <1>2, <1>3, <1>4 DEF Next, Exited

LEMMA Invariance == SafeSpec => []IInv
<1>1. IInv /\ [Next]_vars => IInv'
  BY TypesStep, MutexStep, CountingStep, OwnerStep, WholeStep DEF IInv
<1> QED
  BY InitIInv, <1>1, PTL DEF SafeSpec

-------------------------------------------------------------------------------
\* Every variable keeps its type, both semaphores stay binary and readers never
\* exceeds the number of reader threads.
THEOREM TypeCorrect == SafeSpec => []TypeOK
<1>1. IInv => TypeOK
  BY CountedFinite, ThreadAssumption DEF IInv, Types, Counting, TypeOK, Threads
<1> QED
  BY Invariance, <1>1, PTL

\* A reader prints one whole message, whoever writes in between.
THEOREM NoTornReadHolds == SafeSpec => []NoTornRead
  BY Invariance, PTL DEF IInv, Whole

\* The count is right and sem_write is taken exactly while a writer or the group
\* of readers owns it.
THEOREM CountAndOwnerHolds == SafeSpec => []CountAndOwner
<1>1. IInv => CountAndOwner
  BY DEF IInv, Counting, Owner, Group, CountAndOwner
<1> QED
  BY Invariance, <1>1, PTL

-------------------------------------------------------------------------------
\* The threads implement the read-write lock: a reader starts to read with
\* UnlockIn and ends with Read2, a writer with Acquire and Release.
THEOREM Refinement == SafeSpec => ImplementsLock
<1>1. Init => Lock!Init
  BY ThreadAssumption DEF Init, Lock!Init, Reading, Writing, Threads
<1>2. ASSUME IInv, [Next]_vars
      PROVE  [Lock!Next]_<<Reading, Writing>>
  <2> USE <1>2 DEF IInv
  <2>1. ASSUME NEW r \in Readers, UnlockIn(r)
        PROVE  Lock!StartRead(r)
    <3>1. r \notin Reading /\ Writing = {}
      BY <2>1, Exclusion DEF UnlockIn, Goto, Reading
    <3>2. Reading' = Reading \cup {r} /\ Writing' = Writing
      BY <2>1, ReaderMoves DEF UnlockIn, Reading, Threads
    <3> QED
      BY <3>1, <3>2 DEF Lock!StartRead
  <2>2. ASSUME NEW r \in Readers, Read2(r)
        PROVE  Lock!EndRead(r)
    <3>1. r \in Reading /\ Reading' = Reading \ {r} /\ Writing' = Writing
      BY <2>2, ReaderMoves DEF Read2, Reading, Threads
    <3> QED
      BY <3>1 DEF Lock!EndRead
  <2>3. ASSUME NEW w \in Writers, Acquire(w)
        PROVE  Lock!StartWrite(w)
    <3>1. ~Group /\ Writing = {}
      BY <2>3 DEF Acquire, sem_wait, Owner
    <3>2. Reading = {}
      BY <3>1 DEF Group, Counted, Reading
    <3>3. Reading' = Reading /\ Writing' = {w}
      BY <2>3, <3>1, WriterMoves DEF Acquire, Writing, Threads
    <3> QED
      BY <3>1, <3>2, <3>3 DEF Lock!StartWrite
  <2>4. ASSUME NEW w \in Writers, Release(w)
        PROVE  Lock!EndWrite(w)
    <3>1. w \in Writing /\ Reading' = Reading /\ Writing' = Writing \ {w}
      BY <2>4, WriterMoves DEF Release, Writing, Threads
    <3> QED
      BY <3>1 DEF Lock!EndWrite
  <2>5. ASSUME NEW r \in Readers,
               LockIn(r) \/ CountIn(r) \/ First(r) \/ Read1(r)
                 \/ LockOut(r) \/ CountOut(r) \/ Last(r) \/ UnlockOut(r)
        PROVE  UNCHANGED <<Reading, Writing>>
    <3>1. \E from, to : /\ Goto(r, from, to)
                        /\ from \in {"read_1", "read_2"} <=> to \in {"read_1", "read_2"}
      BY <2>5 DEF LockIn, CountIn, First, Read1, LockOut, CountOut, Last, UnlockOut
    <3> QED
      BY <3>1, ReaderMoves DEF Reading, Threads
  <2>6. ASSUME NEW w \in Writers, Write1(w) \/ Write2(w)
        PROVE  UNCHANGED <<Reading, Writing>>
    BY <2>6, WriterMoves DEF Write1, Write2, Writing, Threads
  <2>7. CASE Interrupt \/ UNCHANGED vars
    BY <2>7 DEF Interrupt, vars, Reading, Writing
  <2> QED
    BY <1>2, <2>1, <2>2, <2>3, <2>4, <2>5, <2>6, <2>7
       DEF Next, Reader, Writer, Exited, Lock!Next
<1> QED
  BY Invariance, <1>1, <1>2, PTL DEF SafeSpec, ImplementsLock, Lock!Spec
===============================================================================
