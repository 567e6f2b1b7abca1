------------------------ MODULE ProducerConsumerProofs ------------------------
(***************************************************************************)
(* Proofs about ProducerConsumer for every number of producers and         *)
(* consumers, every BUF_SIZE and every LOOP_VALUE, and, in the second      *)
(* part, about the whole program ProducerConsumerApp.                      *)
(*                                                                         *)
(* TypeOK is not inductive: that sem_full stays within BUF_SIZE needs the  *)
(* unit accounting, the accounting needs that every unit in flight belongs *)
(* to a process, and the FIFO claim needs mutual exclusion.  IInv is the   *)
(* conjunction that is.                                                    *)
(***************************************************************************)
EXTENDS ProducerConsumerApp, FiniteSetTheorems, SequenceTheorems, TLAPS

Types ==
  /\ buffer \in [Slots -> Int]
  /\ write_index \in Slots
  /\ read_index \in Slots
  /\ sem_mutex \in {0, 1}
  /\ sem_full \in Nat
  /\ sem_empty \in Nat
  /\ pc \in [Children -> Labels]
  /\ i \in [Children -> Nat]
  /\ value \in [Consumers -> Int]
  /\ queue \in Seq(Int)
  /\ dropped \in Nat

\* While no push was refused: the queue fits the ring, the indices delimit it,
\* the slots hold it, and what a process in the middle of push or pop has
\* stored or read is still there.
RingMatchesQueue ==
  /\ Len(queue) <= BUF_SIZE - 1
  /\ write_index = (read_index + Len(queue)) % BUF_SIZE
  /\ \A k \in 1 .. Len(queue) :
       queue[k] = buffer[(read_index + k - 1) % BUF_SIZE]
  /\ \A p \in Producers : pc[p] = "advance" =>
       Len(queue) < BUF_SIZE - 1 /\ buffer[write_index] = i[p]
  /\ \A c \in Consumers : pc[c] = "advance" => value[c] = buffer[read_index]

RingInv == dropped = 0 => RingMatchesQueue

IInv == Types /\ MutualExclusion /\ Accounting /\ RingInv

-------------------------------------------------------------------------------
\* Arithmetic of the ring indices: one modulo is at most one subtraction.
LEMMA ModWrap ==
  ASSUME NEW j \in 0 .. 2 * BUF_SIZE - 1
  PROVE  j % BUF_SIZE = IF j < BUF_SIZE THEN j ELSE j - BUF_SIZE
  BY BufSizeAssumption

\* The next index is again an index, and wraps only at the last slot.
LEMMA NextIndexValue ==
  ASSUME NEW k \in Slots
  PROVE  /\ NextIndex(k) = IF k = BUF_SIZE - 1 THEN 0 ELSE k + 1
         /\ NextIndex(k) \in Slots
  BY ModWrap, BufSizeAssumption DEF NextIndex, Slots

\* The sets of unit holders are finite, so their cardinalities are numbers.
LEMMA HoldersFinite ==
  /\ IsFiniteSet(ItemHolders) /\ Cardinality(ItemHolders) \in Nat
  /\ IsFiniteSet(SlotHolders) /\ Cardinality(SlotHolders) \in Nat
<1>1. IsFiniteSet(Children)
  BY ProcessAssumption, FS_Union DEF Children
<1>2. ItemHolders \in SUBSET Children /\ SlotHolders \in SUBSET Children
  BY DEF ItemHolders, SlotHolders, Children
<1> QED
  BY <1>1, <1>2, FS_Subset, FS_CardinalityType

-------------------------------------------------------------------------------
LEMMA InitIInv == Init => IInv
<1> SUFFICES ASSUME Init PROVE IInv
  OBVIOUS
<1> USE DEF Init, RingInit
<1>1. Types
  BY BufSizeAssumption DEF Types, Slots, Labels
<1>2. MutualExclusion
  BY DEF MutualExclusion, InRing
<1>3. Accounting
  <2>1. ItemHolders = {} /\ SlotHolders = {}
    BY DEF ItemHolders, SlotHolders, Children
  <2> QED
    BY <2>1, FS_EmptySet, BufSizeAssumption DEF Accounting
<1>4. RingInv
  <2>1. \A p \in Children : pc[p] # "advance"
    OBVIOUS
  <2> QED
    BY <2>1, ModWrap, BufSizeAssumption
       DEF RingInv, RingMatchesQueue, Children
<1> QED
  BY <1>1, <1>2, <1>3, <1>4 DEF IInv

\* A process about to finish pop carries an item, so the queue is not empty;
\* one about to push carries a slot, so fewer than BUF_SIZE are outstanding.
LEMMA Outstanding ==
  ASSUME Types, Accounting
  PROVE  /\ Len(queue) \in 0 .. BUF_SIZE
         /\ \A c \in Consumers : pc[c] \in {"lock", "access", "advance"} => Len(queue) > 0
         /\ \A p \in Producers : pc[p] \in {"lock", "access", "advance"} => Len(queue) < BUF_SIZE
<1>1. \A x \in ItemHolders : Cardinality(ItemHolders) > 0
  BY HoldersFinite, FS_EmptySet
<1>2. \A x \in SlotHolders : Cardinality(SlotHolders) > 0
  BY HoldersFinite, FS_EmptySet
<1>3. Len(queue) \in Nat
  BY DEF Types
<1>4. Len(queue) <= BUF_SIZE
  BY <1>3, HoldersFinite, BufSizeAssumption DEF Accounting, Types
<1>5. ASSUME NEW c \in Consumers, pc[c] \in {"lock", "access", "advance"}
      PROVE  Len(queue) > 0
  <2>1. c \in ItemHolders
    BY <1>5 DEF ItemHolders
  <2> QED
    BY <2>1, <1>1, <1>3, HoldersFinite DEF Accounting, Types
<1>6. ASSUME NEW p \in Producers, pc[p] \in {"lock", "access", "advance"}
      PROVE  Len(queue) < BUF_SIZE
  <2>1. p \in SlotHolders
    BY <1>6 DEF SlotHolders
  <2> QED
    BY <2>1, <1>2, <1>3, HoldersFinite, BufSizeAssumption DEF Accounting, Types
<1> QED
  BY <1>3, <1>4, <1>5, <1>6, BufSizeAssumption

-------------------------------------------------------------------------------
\* Types is preserved.  Two steps need more than Types: the Tail of PopAdvance
\* (the queue is not empty) and Unlock (the mutex is taken).
LEMMA TypesStep ==
  ASSUME Types, MutualExclusion, Accounting, [Next]_coreVars
  PROVE  Types'
<1> USE BufSizeAssumption DEF Types, Children, Labels, Goto, semVars, ringVars, history
<1>1. ASSUME NEW p \in Producers, Producer(p)
      PROVE  Types'
  <2>1. CASE AcquireEmpty(p)
    BY <2>1 DEF AcquireEmpty, sem_wait
  <2>2. CASE Lock(p)
    BY <2>2 DEF Lock, sem_wait
  <2>3. CASE PushRefused(p)
    BY <2>3 DEF PushRefused
  <2>4. CASE PushStore(p)
    BY <2>4 DEF PushStore, Store
  <2>5. CASE PushAdvance(p)
    BY <2>5, NextIndexValue DEF PushAdvance, AdvanceWrite
  <2>6. CASE Unlock(p)
    BY <2>6 DEF Unlock, sem_post, MutualExclusion, InRing
  <2>7. CASE ReleaseFull(p)
    BY <2>7 DEF ReleaseFull, Iterate, sem_post
  <2> QED
    BY <1>1, <2>1, <2>2, <2>3, <2>4, <2>5, <2>6, <2>7 DEF Producer
<1>2. ASSUME NEW c \in Consumers, Consumer(c)
      PROVE  Types'
  <2>1. CASE AcquireFull(c)
    BY <2>1 DEF AcquireFull, sem_wait
  <2>2. CASE Lock(c)
    BY <2>2 DEF Lock, sem_wait
  <2>3. CASE PopRead(c)
    BY <2>3 DEF PopRead, Front
  <2>4. CASE PopAdvance(c)
    BY <2>4, NextIndexValue, Outstanding DEF PopAdvance, AdvanceRead
  <2>5. CASE Unlock(c)
    BY <2>5 DEF Unlock, sem_post, MutualExclusion, InRing
  <2>6. CASE ReleaseEmpty(c)
    BY <2>6 DEF ReleaseEmpty, Iterate, sem_post
  <2> QED
    BY <1>2, <2>1, <2>2, <2>3, <2>4, <2>5, <2>6 DEF Consumer
<1>3. CASE UNCHANGED coreVars
  BY <1>3 DEF coreVars
<1> QED
  BY <1>1, <1>2, <1>3 DEF Next, Terminated

\* MutualExclusion is preserved: only Lock enters and only Unlock leaves.
LEMMA MutualExclusionStep ==
  ASSUME Types, MutualExclusion, [Next]_coreVars
  PROVE  MutualExclusion'
<1> USE DEF Types, MutualExclusion, InRing, Children, Labels, Goto, semVars
<1>1. ASSUME NEW p \in Children, Lock(p)
      PROVE  MutualExclusion'
  BY <1>1 DEF Lock, sem_wait
<1>2. ASSUME NEW p \in Children, Unlock(p)
      PROVE  MutualExclusion'
  BY <1>2 DEF Unlock, sem_post
<1>3. ASSUME NEW p \in Producers,
             AcquireEmpty(p) \/ PushRefused(p) \/ PushStore(p)
               \/ PushAdvance(p) \/ ReleaseFull(p)
      PROVE  MutualExclusion'
  <2>1. CASE AcquireEmpty(p)
    BY <2>1 DEF AcquireEmpty
  <2>2. CASE PushRefused(p)
    BY <2>2 DEF PushRefused
  <2>3. CASE PushStore(p)
    BY <2>3 DEF PushStore
  <2>4. CASE PushAdvance(p)
    BY <2>4 DEF PushAdvance
  <2>5. CASE ReleaseFull(p)
    BY <2>5 DEF ReleaseFull, Iterate
  <2> QED
    BY <1>3, <2>1, <2>2, <2>3, <2>4, <2>5
<1>4. ASSUME NEW c \in Consumers,
             AcquireFull(c) \/ PopRead(c) \/ PopAdvance(c) \/ ReleaseEmpty(c)
      PROVE  MutualExclusion'
  <2>1. CASE AcquireFull(c)
    BY <2>1 DEF AcquireFull
  <2>2. CASE PopRead(c)
    BY <2>2 DEF PopRead
  <2>3. CASE PopAdvance(c)
    BY <2>3 DEF PopAdvance
  <2>4. CASE ReleaseEmpty(c)
    BY <2>4 DEF ReleaseEmpty, Iterate
  <2> QED
    BY <1>4, <2>1, <2>2, <2>3, <2>4
<1>5. CASE UNCHANGED coreVars
  BY <1>5 DEF coreVars
<1> QED
  BY <1>1, <1>2, <1>3, <1>4, <1>5 DEF Next, Producer, Consumer, Terminated

-------------------------------------------------------------------------------
\* A process that takes, hands over or returns a unit changes one holder set
\* by one element.
LEMMA HolderMoves ==
  ASSUME NEW S, IsFiniteSet(S), NEW x
  PROVE  /\ x \notin S => Cardinality(S \cup {x}) = Cardinality(S) + 1
         /\ x \in S => Cardinality(S \ {x}) = Cardinality(S) - 1
  BY FS_AddElement, FS_RemoveElement

\* Accounting is preserved: each step moves one unit or none.
LEMMA AccountingStep ==
  ASSUME Types, Accounting, [Next]_coreVars
  PROVE  Accounting'
<1> USE DEF Types, Children, Labels, Goto, semVars
<1>h. /\ IsFiniteSet(ItemHolders) /\ Cardinality(ItemHolders) \in Nat
      /\ IsFiniteSet(SlotHolders) /\ Cardinality(SlotHolders) \in Nat
  BY HoldersFinite
<1>d. Producers \cap Consumers = {}
  BY ProcessAssumption
<1>o. Len(queue) \in Nat /\ sem_full \in Nat /\ sem_empty \in Nat
  OBVIOUS
<1>1. ASSUME NEW p \in Producers, AcquireEmpty(p)
      PROVE  Accounting'
  <2>1. /\ ItemHolders' = ItemHolders
        /\ p \notin SlotHolders /\ SlotHolders' = SlotHolders \cup {p}
    BY <1>1, <1>d DEF AcquireEmpty, sem_wait, ItemHolders, SlotHolders
  <2>2. /\ Cardinality(ItemHolders') = Cardinality(ItemHolders)
        /\ Cardinality(SlotHolders') = Cardinality(SlotHolders) + 1
    BY <2>1, <1>h, HolderMoves
  <2>3. /\ Len(queue') = Len(queue)
        /\ sem_full' = sem_full
        /\ sem_empty' = sem_empty - 1
    BY <1>1, <1>o DEF AcquireEmpty, sem_wait, history
  <2> HIDE DEF Types
  <2> QED
    BY <2>2, <2>3, <1>h, <1>o, BufSizeAssumption DEF Accounting
<1>2. ASSUME NEW p \in Producers, PushRefused(p)
      PROVE  Accounting'
  <2>1. /\ p \notin ItemHolders /\ ItemHolders' = ItemHolders \cup {p}
        /\ p \in SlotHolders /\ SlotHolders' = SlotHolders \ {p}
    BY <1>2, <1>d DEF PushRefused, ItemHolders, SlotHolders
  <2>2. /\ Cardinality(ItemHolders') = Cardinality(ItemHolders) + 1
        /\ Cardinality(SlotHolders') = Cardinality(SlotHolders) - 1
    BY <2>1, <1>h, HolderMoves
  <2>3. /\ Len(queue') = Len(queue) + 1
        /\ sem_full' = sem_full
        /\ sem_empty' = sem_empty
    BY <1>2, <1>o DEF PushRefused, history
  <2> HIDE DEF Types
  <2>4. /\ Len(queue) + 1 = sem_full + (Cardinality(ItemHolders) + 1)
        /\ BUF_SIZE = (Len(queue) + 1) + sem_empty + (Cardinality(SlotHolders) - 1)
    BY <1>h, <1>o, BufSizeAssumption DEF Accounting
  <2> QED
    BY <2>2, <2>3, <2>4 DEF Accounting
<1>3. ASSUME NEW p \in Producers, PushAdvance(p)
      PROVE  Accounting'
  <2>1. /\ p \notin ItemHolders /\ ItemHolders' = ItemHolders \cup {p}
        /\ p \in SlotHolders /\ SlotHolders' = SlotHolders \ {p}
    BY <1>3, <1>d DEF PushAdvance, AdvanceWrite, ItemHolders, SlotHolders
  <2>2. /\ Cardinality(ItemHolders') = Cardinality(ItemHolders) + 1
        /\ Cardinality(SlotHolders') = Cardinality(SlotHolders) - 1
    BY <2>1, <1>h, HolderMoves
  <2>3. /\ Len(queue') = Len(queue) + 1
        /\ sem_full' = sem_full
        /\ sem_empty' = sem_empty
    BY <1>3, <1>o DEF PushAdvance, AdvanceWrite, history
  <2> HIDE DEF Types
  <2>4. /\ Len(queue) + 1 = sem_full + (Cardinality(ItemHolders) + 1)
        /\ BUF_SIZE = (Len(queue) + 1) + sem_empty + (Cardinality(SlotHolders) - 1)
    BY <1>h, <1>o, BufSizeAssumption DEF Accounting
  <2> QED
    BY <2>2, <2>3, <2>4 DEF Accounting
<1>4. ASSUME NEW p \in Producers, ReleaseFull(p)
      PROVE  Accounting'
  <2>1. /\ p \in ItemHolders /\ ItemHolders' = ItemHolders \ {p}
        /\ SlotHolders' = SlotHolders
    BY <1>4, <1>d DEF ReleaseFull, Iterate, sem_post, ItemHolders, SlotHolders
  <2>2. /\ Cardinality(ItemHolders') = Cardinality(ItemHolders) - 1
        /\ Cardinality(SlotHolders') = Cardinality(SlotHolders)
    BY <2>1, <1>h, HolderMoves
  <2>3. /\ Len(queue') = Len(queue)
        /\ sem_full' = sem_full + 1
        /\ sem_empty' = sem_empty
    BY <1>4, <1>o DEF ReleaseFull, Iterate, sem_post, history
  <2> HIDE DEF Types
  <2> QED
    BY <2>2, <2>3, <1>h, <1>o, BufSizeAssumption DEF Accounting
<1>5. ASSUME NEW c \in Consumers, AcquireFull(c)
      PROVE  Accounting'
  <2>1. /\ c \notin ItemHolders /\ ItemHolders' = ItemHolders \cup {c}
        /\ SlotHolders' = SlotHolders
    BY <1>5, <1>d DEF AcquireFull, sem_wait, ItemHolders, SlotHolders
  <2>2. /\ Cardinality(ItemHolders') = Cardinality(ItemHolders) + 1
        /\ Cardinality(SlotHolders') = Cardinality(SlotHolders)
    BY <2>1, <1>h, HolderMoves
  <2>3. /\ Len(queue') = Len(queue)
        /\ sem_full' = sem_full - 1
        /\ sem_empty' = sem_empty
    BY <1>5, <1>o DEF AcquireFull, sem_wait, history
  <2> HIDE DEF Types
  <2> QED
    BY <2>2, <2>3, <1>h, <1>o, BufSizeAssumption DEF Accounting
<1>6. ASSUME NEW c \in Consumers, PopAdvance(c)
      PROVE  Accounting'
  <2>1. /\ c \in ItemHolders /\ ItemHolders' = ItemHolders \ {c}
        /\ c \notin SlotHolders /\ SlotHolders' = SlotHolders \cup {c}
    BY <1>6, <1>d DEF PopAdvance, AdvanceRead, ItemHolders, SlotHolders
  <2>2. /\ Cardinality(ItemHolders') = Cardinality(ItemHolders) - 1
        /\ Cardinality(SlotHolders') = Cardinality(SlotHolders) + 1
    BY <2>1, <1>h, HolderMoves
  <2>3. /\ Len(queue') = Len(queue) - 1
        /\ sem_full' = sem_full
        /\ sem_empty' = sem_empty
    BY <1>6, <1>o, Outstanding DEF PopAdvance, AdvanceRead, history
  <2> HIDE DEF Types
  <2> QED
    BY <2>2, <2>3, <1>h, <1>o, BufSizeAssumption DEF Accounting
<1>7. ASSUME NEW c \in Consumers, ReleaseEmpty(c)
      PROVE  Accounting'
  <2>1. /\ ItemHolders' = ItemHolders
        /\ c \in SlotHolders /\ SlotHolders' = SlotHolders \ {c}
    BY <1>7, <1>d DEF ReleaseEmpty, Iterate, sem_post, ItemHolders, SlotHolders
  <2>2. /\ Cardinality(ItemHolders') = Cardinality(ItemHolders)
        /\ Cardinality(SlotHolders') = Cardinality(SlotHolders) - 1
    BY <2>1, <1>h, HolderMoves
  <2>3. /\ Len(queue') = Len(queue)
        /\ sem_full' = sem_full
        /\ sem_empty' = sem_empty + 1
    BY <1>7, <1>o DEF ReleaseEmpty, Iterate, sem_post, history
  <2> HIDE DEF Types
  <2> QED
    BY <2>2, <2>3, <1>h, <1>o, BufSizeAssumption DEF Accounting
<1>8. ASSUME NEW p \in Children, Lock(p) \/ Unlock(p)
      PROVE  Accounting'
  <2>1. ItemHolders' = ItemHolders /\ SlotHolders' = SlotHolders
    BY <1>8, <1>d DEF Lock, Unlock, ItemHolders, SlotHolders
  <2> QED
    BY <1>8, <2>1 DEF Lock, Unlock, Accounting, history
<1>9. ASSUME NEW p \in Producers, PushStore(p)
      PROVE  Accounting'
  <2>1. ItemHolders' = ItemHolders /\ SlotHolders' = SlotHolders
    BY <1>9, <1>d DEF PushStore, ItemHolders, SlotHolders
  <2> QED
    BY <1>9, <2>1 DEF PushStore, Accounting, history
<1>10. ASSUME NEW c \in Consumers, PopRead(c)
       PROVE  Accounting'
  <2>1. ItemHolders' = ItemHolders /\ SlotHolders' = SlotHolders
    BY <1>10, <1>d DEF PopRead, ItemHolders, SlotHolders
  <2> QED
    BY <1>10, <2>1 DEF PopRead, Accounting, history
<1>11. CASE UNCHANGED coreVars
  BY <1>11 DEF coreVars, Accounting, ItemHolders, SlotHolders, history
<1> QED
  BY <1>1, <1>2, <1>3, <1>4, <1>5, <1>6, <1>7, <1>8, <1>9, <1>10, <1>11
     DEF Next, Producer, Consumer, Terminated

-------------------------------------------------------------------------------
\* Slots at different distances below BUF_SIZE from an index are different, and
\* moving the index forward by one shortens each distance by one.
LEMMA Distances ==
  ASSUME NEW r \in Slots, NEW n \in 0 .. BUF_SIZE - 1
  PROVE  /\ (r + n) % BUF_SIZE \in Slots
         /\ \A k \in 0 .. BUF_SIZE - 1 : k # n => (r + k) % BUF_SIZE # (r + n) % BUF_SIZE
         /\ NextIndex((r + n) % BUF_SIZE) = (r + n + 1) % BUF_SIZE
         /\ (NextIndex(r) + n) % BUF_SIZE = (r + n + 1) % BUF_SIZE
<1>1. (r + n) % BUF_SIZE = IF r + n < BUF_SIZE THEN r + n ELSE r + n - BUF_SIZE
  BY ModWrap, BufSizeAssumption DEF Slots
<1>2. (r + n) % BUF_SIZE \in Slots
  BY <1>1, BufSizeAssumption DEF Slots
<1>3. ASSUME NEW k \in 0 .. BUF_SIZE - 1, k # n
      PROVE  (r + k) % BUF_SIZE # (r + n) % BUF_SIZE
  <2>1. (r + k) % BUF_SIZE = IF r + k < BUF_SIZE THEN r + k ELSE r + k - BUF_SIZE
    BY ModWrap, BufSizeAssumption DEF Slots
  <2> QED
    BY <1>1, <1>3, <2>1, BufSizeAssumption DEF Slots
<1>4. (r + n + 1) % BUF_SIZE =
         IF r + n + 1 < BUF_SIZE THEN r + n + 1
         ELSE IF r + n + 1 < 2 * BUF_SIZE THEN r + n + 1 - BUF_SIZE ELSE 0
  BY BufSizeAssumption DEF Slots
<1>5. NextIndex((r + n) % BUF_SIZE) = (r + n + 1) % BUF_SIZE
  BY <1>1, <1>2, <1>4, NextIndexValue, BufSizeAssumption DEF Slots
<1>6. (NextIndex(r) + n) % BUF_SIZE = (r + n + 1) % BUF_SIZE
  <2> DEFINE j == NextIndex(r) + n
  <2>1. j \in 0 .. 2 * BUF_SIZE - 1
    BY NextIndexValue, BufSizeAssumption DEF Slots
  <2> HIDE DEF j
  <2>2. j % BUF_SIZE = IF j < BUF_SIZE THEN j ELSE j - BUF_SIZE
    BY <2>1, ModWrap
  <2>3. CASE r = BUF_SIZE - 1
    <3>1. NextIndex(r) = 0 /\ (r + n + 1) % BUF_SIZE = n
      BY <2>3, <1>4, NextIndexValue, BufSizeAssumption
    <3>2. j = n
      BY <3>1 DEF j
    <3>3. j % BUF_SIZE = n
      BY <2>2, <3>2, BufSizeAssumption
    <3> QED
      BY <3>1, <3>3 DEF j
  <2>4. CASE r # BUF_SIZE - 1
    <3>1. j = r + n + 1
      BY <2>4, NextIndexValue, BufSizeAssumption DEF Slots, j
    <3> QED
      BY <3>1 DEF j
  <2> QED
    BY <2>3, <2>4
<1> QED
  BY <1>2, <1>3, <1>5, <1>6

\* BUF_SIZE steps lead back to the same slot.
LEMMA FullCircle ==
  ASSUME NEW r \in Slots
  PROVE  (r + BUF_SIZE) % BUF_SIZE = r
  BY BufSizeAssumption DEF Slots

\* RingInv is preserved.  Mutual exclusion is what keeps the slot and the index
\* that a process has read from changing before it uses them.
LEMMA RingStep ==
  ASSUME Types, MutualExclusion, Accounting, RingInv, [Next]_coreVars
  PROVE  RingInv'
<1> SUFFICES ASSUME dropped' = 0 PROVE RingMatchesQueue'
  BY DEF RingInv
<1> USE DEF Types, Goto, ringVars, semVars, history
<1>m. \A p, q \in Children : InRing(p) /\ pc[q] = "advance" => p = q
  BY DEF MutualExclusion, InRing
<1>d. Producers \cap Consumers = {}
  BY ProcessAssumption
<1>1. ASSUME NEW p \in Producers, PushRefused(p)
      PROVE  FALSE
  BY <1>1 DEF PushRefused
<1>2. ASSUME NEW p \in Producers, PushStore(p)
      PROVE  RingMatchesQueue'
  <2>1. RingMatchesQueue
    BY <1>2 DEF PushStore, RingInv
  <2>2. Len(queue) < BUF_SIZE - 1
    <3>1. CASE Len(queue) = BUF_SIZE - 1
      <4>1. write_index = (read_index + (BUF_SIZE - 1)) % BUF_SIZE
        BY <2>1, <3>1 DEF RingMatchesQueue
      <4>2. BUF_SIZE - 1 \in 0 .. BUF_SIZE - 1
        BY BufSizeAssumption
      <4>3. NextIndex(write_index) = (read_index + (BUF_SIZE - 1) + 1) % BUF_SIZE
        BY <4>1, <4>2, Distances
      <4>4. read_index + (BUF_SIZE - 1) + 1 = read_index + BUF_SIZE
        BY BufSizeAssumption DEF Slots
      <4>5. (read_index + BUF_SIZE) % BUF_SIZE = read_index
        BY FullCircle
      <4> QED
        BY <1>2, <4>3, <4>4, <4>5 DEF PushStore, is_full
    <3> QED
      BY <2>1, <3>1, BufSizeAssumption DEF RingMatchesQueue
  <2>3. ASSUME NEW k \in 1 .. Len(queue)
        PROVE  (read_index + k - 1) % BUF_SIZE # write_index
    <3>1. k - 1 \in 0 .. BUF_SIZE - 1 /\ Len(queue) \in 0 .. BUF_SIZE - 1 /\ k - 1 # Len(queue)
      BY <2>2, BufSizeAssumption
    <3>2. (read_index + (k - 1)) % BUF_SIZE # (read_index + Len(queue)) % BUF_SIZE
      BY <3>1, Distances
    <3>3. read_index + (k - 1) = read_index + k - 1
      BY BufSizeAssumption DEF Slots
    <3> QED
      BY <2>1, <3>2, <3>3 DEF RingMatchesQueue
  <2>4. \A q \in Children : pc'[q] = "advance" => q = p
    BY <1>2, <1>m DEF PushStore, InRing, Children
  <2> QED
    BY <1>2, <1>d, <2>1, <2>2, <2>3, <2>4
       DEF PushStore, Store, RingMatchesQueue, Children
<1>3. ASSUME NEW p \in Producers, PushAdvance(p)
      PROVE  RingMatchesQueue'
  <2>1. RingMatchesQueue /\ Len(queue) < BUF_SIZE - 1 /\ buffer[write_index] = i[p]
    BY <1>3 DEF PushAdvance, RingInv, RingMatchesQueue
  <2>2. \A q \in Children : pc'[q] # "advance"
    BY <1>3, <1>m DEF PushAdvance, InRing, Children
  <2>3. Len(queue') = Len(queue) + 1
    BY <1>3 DEF PushAdvance
  <2>4. write_index' = (read_index + Len(queue')) % BUF_SIZE
    BY <1>3, <2>1, <2>3, Distances, BufSizeAssumption
       DEF PushAdvance, AdvanceWrite, RingMatchesQueue
  <2>5. ASSUME NEW k \in 1 .. Len(queue')
        PROVE  queue'[k] = buffer[(read_index + k - 1) % BUF_SIZE]
    <3>1. CASE k \in 1 .. Len(queue)
      BY <1>3, <2>1, <3>1 DEF PushAdvance, RingMatchesQueue
    <3>2. CASE k = Len(queue) + 1
      <4>1. queue'[k] = buffer[write_index]
        BY <1>3, <2>1, <3>2 DEF PushAdvance
      <4>2. read_index + k - 1 = read_index + Len(queue)
        BY <3>2, BufSizeAssumption DEF Slots
      <4> QED
        BY <2>1, <4>1, <4>2 DEF RingMatchesQueue
    <3> QED
      BY <2>3, <3>1, <3>2
  <2> QED
    BY <1>3, <2>1, <2>2, <2>3, <2>4, <2>5, BufSizeAssumption
       DEF PushAdvance, AdvanceWrite, RingMatchesQueue, Children
<1>4. ASSUME NEW c \in Consumers, PopRead(c)
      PROVE  RingMatchesQueue'
  <2>1. RingMatchesQueue
    BY <1>4 DEF PopRead, RingInv
  <2>2. \A q \in Children : pc'[q] = "advance" => q = c
    BY <1>4, <1>m DEF PopRead, InRing, Children
  <2> QED
    BY <1>4, <1>d, <2>1, <2>2 DEF PopRead, Front, RingMatchesQueue, Children
<1>5. ASSUME NEW c \in Consumers, PopAdvance(c)
      PROVE  RingMatchesQueue'
  <2>1. RingMatchesQueue /\ Len(queue) > 0
    BY <1>5, Outstanding DEF PopAdvance, RingInv
  <2>2. \A q \in Children : pc'[q] # "advance"
    BY <1>5, <1>m DEF PopAdvance, InRing, Children
  <2>3. Len(queue') = Len(queue) - 1 /\ \A k \in 1 .. Len(queue') : queue'[k] = queue[k + 1]
    <3>1. queue' = Tail(queue)
      BY <1>5, <2>1 DEF PopAdvance
    <3> QED
      BY <2>1, <3>1
  <2>4. \A n \in 0 .. BUF_SIZE - 1 : (read_index' + n) % BUF_SIZE = (read_index + n + 1) % BUF_SIZE
    BY <1>5, Distances DEF PopAdvance, AdvanceRead
  <2>5. write_index = (read_index' + Len(queue')) % BUF_SIZE
    BY <2>1, <2>3, <2>4, BufSizeAssumption DEF RingMatchesQueue
  <2>6. ASSUME NEW k \in 1 .. Len(queue')
        PROVE  queue'[k] = buffer[(read_index' + k - 1) % BUF_SIZE]
    <3>1. k + 1 \in 1 .. Len(queue) /\ k - 1 \in 0 .. BUF_SIZE - 1
      BY <2>1, <2>3, BufSizeAssumption DEF RingMatchesQueue
    <3>2. queue'[k] = buffer[(read_index + (k + 1) - 1) % BUF_SIZE]
      BY <2>1, <2>3, <3>1 DEF RingMatchesQueue
    <3>3. (read_index' + (k - 1)) % BUF_SIZE = (read_index + (k - 1) + 1) % BUF_SIZE
      BY <2>4, <3>1
    <3>4. read_index' \in Slots
      BY <1>5, NextIndexValue DEF PopAdvance, AdvanceRead
    <3>5. /\ read_index + (k + 1) - 1 = read_index + (k - 1) + 1
          /\ read_index' + k - 1 = read_index' + (k - 1)
      BY <3>4, BufSizeAssumption DEF Slots
    <3> QED
      BY <3>2, <3>3, <3>5
  <2>7. /\ UNCHANGED <<buffer, write_index>>
        /\ Len(queue') <= BUF_SIZE - 1
    BY <1>5, <2>1, <2>3, BufSizeAssumption DEF PopAdvance, AdvanceRead, RingMatchesQueue
  <2> HIDE DEF Types
  <2> QED
    BY <2>2, <2>5, <2>6, <2>7 DEF RingMatchesQueue, Children
<1>6. ASSUME UNCHANGED <<ringVars, value, history>>,
             \A p \in Producers : pc'[p] = "advance" => pc[p] = "advance" /\ i'[p] = i[p],
             \A c \in Consumers : pc'[c] = "advance" => pc[c] = "advance"
      PROVE  RingMatchesQueue'
  BY <1>6 DEF RingInv, RingMatchesQueue
<1>7. ASSUME NEW p \in Children, Lock(p) \/ Unlock(p)
      PROVE  RingMatchesQueue'
  BY <1>6, <1>7 DEF Lock, Unlock, Children
<1>8. ASSUME NEW p \in Producers, AcquireEmpty(p) \/ ReleaseFull(p)
      PROVE  RingMatchesQueue'
  BY <1>6, <1>8 DEF AcquireEmpty, ReleaseFull, Iterate, Children
<1>9. ASSUME NEW c \in Consumers, AcquireFull(c) \/ ReleaseEmpty(c)
      PROVE  RingMatchesQueue'
  BY <1>6, <1>9 DEF AcquireFull, ReleaseEmpty, Iterate, Children
<1>10. CASE UNCHANGED coreVars
  BY <1>6, <1>10 DEF coreVars
<1> QED
  BY <1>1, <1>2, <1>3, <1>4, <1>5, <1>7, <1>8, <1>9, <1>10
     DEF Next, Producer, Consumer, Terminated, Children

-------------------------------------------------------------------------------
\* IInv holds in every reachable state.
LEMMA IInvStep == IInv /\ [Next]_coreVars => IInv'
  BY TypesStep, MutualExclusionStep, AccountingStep, RingStep DEF IInv

LEMMA IInvHolds == SafeSpec => []IInv
  BY InitIInv, IInvStep, PTL DEF SafeSpec

LEMMA IInvTypeOK == IInv => TypeOK
<1> SUFFICES ASSUME IInv PROVE TypeOK
  OBVIOUS
<1>1. Types /\ Accounting
  BY DEF IInv
<1>2. Len(queue) \in 0 .. BUF_SIZE
  BY <1>1, Outstanding
<1>3. sem_full \in 0 .. BUF_SIZE /\ sem_empty \in 0 .. BUF_SIZE
  BY <1>1, <1>2, HoldersFinite, BufSizeAssumption DEF Types, Accounting
<1> QED
  BY <1>1, <1>3 DEF Types, TypeOK, RingTypeOK

\* The types, and that neither counting semaphore goes below zero or above
\* BUF_SIZE, for every number of processes.
THEOREM TypeCorrect == SafeSpec => []TypeOK
  BY IInvTypeOK, IInvHolds, PTL

\* No two processes are inside push or pop at once (main.cpp:60 and :83).
THEOREM MutualExclusionHolds == SafeSpec => []MutualExclusion
  BY IInvHolds, PTL DEF IInv

\* The semaphores never lose or duplicate a unit.
THEOREM AccountingHolds == SafeSpec => []Accounting
  BY IInvHolds, PTL DEF IInv

\* The distance between the indices of a ring that matches the queue.
LEMMA ContentsOfMatchingRing ==
  ASSUME Types, RingMatchesQueue
  PROVE  Contents = queue
<1>1. /\ read_index \in 0 .. BUF_SIZE - 1
      /\ Len(queue) \in 0 .. BUF_SIZE - 1
      /\ write_index = (read_index + Len(queue)) % BUF_SIZE
  BY BufSizeAssumption DEF Types, RingMatchesQueue, Slots
<1>2. \A r, n \in 0 .. BUF_SIZE - 1 :
        (((r + n) % BUF_SIZE) + BUF_SIZE - r) % BUF_SIZE = n
  BY ModWrap, BufSizeAssumption
<1>3. (write_index + BUF_SIZE - read_index) % BUF_SIZE = Len(queue)
  BY <1>1, <1>2
<1>4. queue = [k \in 1 .. Len(queue) |-> queue[k]]
  BY DEF Types
<1> QED
  BY <1>3, <1>4 DEF Contents, RingMatchesQueue

LEMMA IInvFifo == IInv => FifoUntilFirstDrop
<1>1. IInv => RingIsQueue
  BY ContentsOfMatchingRing DEF IInv, RingInv, RingIsQueue
<1>2. IInv => ConsumedInOrder
  <2> SUFFICES ASSUME IInv, NEW c \in Consumers, dropped = 0, pc[c] = "advance"
               PROVE  value[c] = Head(queue)
    BY DEF ConsumedInOrder
  <2>1. Types /\ Accounting /\ RingMatchesQueue
    BY DEF IInv, RingInv
  <2>2. Len(queue) > 0
    BY <2>1, Outstanding
  <2>3. queue[1] = buffer[(read_index + 1 - 1) % BUF_SIZE]
    BY <2>1, <2>2 DEF RingMatchesQueue, Types
  <2>4. (read_index + 1 - 1) % BUF_SIZE = read_index
    <3>1. read_index \in 0 .. BUF_SIZE - 1
      BY <2>1 DEF Types, Slots
    <3>2. read_index + 1 - 1 = read_index
      BY <3>1, BufSizeAssumption
    <3>3. read_index % BUF_SIZE = read_index
      BY <3>1, BufSizeAssumption
    <3> QED
      BY <3>2, <3>3
  <2> QED
    BY <2>1, <2>2, <2>3, <2>4 DEF RingMatchesQueue, Types
<1> QED
  BY <1>1, <1>2 DEF FifoUntilFirstDrop

\* As long as no push was refused, the ring is a FIFO queue: every value logged
\* as added is in it, in order, until a consumer, which takes the oldest, pops it.
THEOREM FifoHolds == SafeSpec => []FifoUntilFirstDrop
  BY IInvFifo, IInvHolds, PTL

-------------------------------------------------------------------------------
\* After refused pushes: the distance of the indices is the length of the queue
\* less what was refused, up to turns around the ring.
Drift ==
  \E turns \in Int :
    write_index - read_index = Len(queue) - dropped + turns * BUF_SIZE

\* Whole turns do not change an index.
LEMMA WholeTurns ==
  ASSUME NEW x \in Int, NEW k \in Int
  PROVE  (x + k * BUF_SIZE) % BUF_SIZE = x % BUF_SIZE
<1> USE BufSizeAssumption
<1>1. \A y \in Int : y = BUF_SIZE * (y \div BUF_SIZE) + (y % BUF_SIZE)
                  /\ y % BUF_SIZE \in 0 .. BUF_SIZE - 1 /\ y \div BUF_SIZE \in Int
  OBVIOUS
<1> DEFINE z == x + k * BUF_SIZE
           d == (z \div BUF_SIZE) - (x \div BUF_SIZE) - k
<1>2. z \in Int /\ d \in Int
  BY <1>1
<1>3. (x % BUF_SIZE) - (z % BUF_SIZE) = BUF_SIZE * d
  <2>1. \A a, b \in Int : BUF_SIZE * (a - b - k) = BUF_SIZE * a - BUF_SIZE * b - k * BUF_SIZE
    OBVIOUS
  <2>2. BUF_SIZE * d = BUF_SIZE * (z \div BUF_SIZE) - BUF_SIZE * (x \div BUF_SIZE) - k * BUF_SIZE
    BY <1>1, <1>2, <2>1
  <2>3. z = BUF_SIZE * (z \div BUF_SIZE) + (z % BUF_SIZE) /\ z % BUF_SIZE \in Int
    BY <1>1, <1>2
  <2>4. x = BUF_SIZE * (x \div BUF_SIZE) + (x % BUF_SIZE) /\ x % BUF_SIZE \in Int
    BY <1>1
  <2>5. BUF_SIZE * (z \div BUF_SIZE) \in Int /\ BUF_SIZE * (x \div BUF_SIZE) \in Int
        /\ k * BUF_SIZE \in Int
    BY <1>1, <1>2
  <2> QED
    BY <2>2, <2>3, <2>4, <2>5
<1>4. (x % BUF_SIZE) - (z % BUF_SIZE) \in -(BUF_SIZE - 1) .. BUF_SIZE - 1
  BY <1>1, <1>2
<1> HIDE DEF d
<1>5. d = 0
  <2>1. CASE d >= 1
    BY <1>2, <1>3, <1>4, <2>1
  <2>2. CASE d <= -1
    BY <1>2, <1>3, <1>4, <2>2
  <2> QED
    BY <1>2, <2>1, <2>2
<1> QED
  BY <1>1, <1>2, <1>3, <1>5

LEMMA DriftStep ==
  ASSUME IInv, Drift, [Next]_coreVars
  PROVE  Drift'
<1> USE BufSizeAssumption DEF Slots
<1>1. Types /\ Accounting
  BY DEF IInv
<1>2. /\ write_index \in Slots /\ read_index \in Slots
      /\ queue \in Seq(Int) /\ Len(queue) \in Nat /\ dropped \in Nat
  BY <1>1 DEF Types
<1>3. PICK k \in Int : write_index - read_index = Len(queue) - dropped + k * BUF_SIZE
  BY DEF Drift
<1>4. ASSUME NEW p \in Producers, PushRefused(p)
      PROVE  Drift'
  <2>1. Len(queue') = Len(queue) + 1 /\ dropped' = dropped + 1
    BY <1>1, <1>2, <1>4 DEF PushRefused, Types, Children
  <2>2. UNCHANGED <<write_index, read_index>>
    BY <1>4 DEF PushRefused, ringVars
  <2>3. write_index' - read_index' = Len(queue') - dropped' + k * BUF_SIZE
    BY <1>2, <1>3, <2>1, <2>2
  <2> QED
    BY <2>3 DEF Drift
<1>5. ASSUME NEW p \in Producers, PushAdvance(p)
      PROVE  Drift'
  <2>1. Len(queue') = Len(queue) + 1 /\ UNCHANGED <<dropped, read_index>>
    BY <1>1, <1>2, <1>5 DEF PushAdvance, AdvanceWrite, Types, Children
  <2>2. write_index' = IF write_index = BUF_SIZE - 1 THEN 0 ELSE write_index + 1
    BY <1>2, <1>5, NextIndexValue DEF PushAdvance, AdvanceWrite
  <2>3. CASE write_index = BUF_SIZE - 1
    <3>1. k - 1 \in Int /\ write_index' - read_index' = Len(queue') - dropped' + (k - 1) * BUF_SIZE
      BY <1>2, <1>3, <2>1, <2>2, <2>3
    <3> QED
      BY <3>1 DEF Drift
  <2>4. CASE write_index # BUF_SIZE - 1
    <3>1. write_index' - read_index' = Len(queue') - dropped' + k * BUF_SIZE
      BY <1>2, <1>3, <2>1, <2>2, <2>4
    <3> QED
      BY <3>1 DEF Drift
  <2> QED
    BY <2>3, <2>4
<1>6. ASSUME NEW c \in Consumers, PopAdvance(c)
      PROVE  Drift'
  <2>1. Len(queue) > 0
    BY <1>1, <1>6, Outstanding DEF PopAdvance, Goto
  <2>2. Len(queue') = Len(queue) - 1 /\ UNCHANGED <<dropped, write_index>>
    BY <1>2, <1>6, <2>1 DEF PopAdvance, AdvanceRead
  <2>3. read_index' = IF read_index = BUF_SIZE - 1 THEN 0 ELSE read_index + 1
    BY <1>2, <1>6, NextIndexValue DEF PopAdvance, AdvanceRead
  <2>4. CASE read_index = BUF_SIZE - 1
    <3>1. k + 1 \in Int /\ write_index' - read_index' = Len(queue') - dropped' + (k + 1) * BUF_SIZE
      BY <1>2, <1>3, <2>2, <2>3, <2>4
    <3> QED
      BY <3>1 DEF Drift
  <2>5. CASE read_index # BUF_SIZE - 1
    <3>1. write_index' - read_index' = Len(queue') - dropped' + k * BUF_SIZE
      BY <1>2, <1>3, <2>2, <2>3, <2>5
    <3> QED
      BY <3>1 DEF Drift
  <2> QED
    BY <2>4, <2>5
<1>7. ASSUME NEW p \in Producers,
             AcquireEmpty(p) \/ Lock(p) \/ PushStore(p) \/ Unlock(p) \/ ReleaseFull(p)
      PROVE  Drift'
  BY <1>7 DEF AcquireEmpty, Lock, PushStore, Store, Unlock, ReleaseFull, ringVars, history, Drift
<1>8. ASSUME NEW c \in Consumers,
             AcquireFull(c) \/ Lock(c) \/ PopRead(c) \/ Unlock(c) \/ ReleaseEmpty(c)
      PROVE  Drift'
  BY <1>8 DEF AcquireFull, Lock, PopRead, Unlock, ReleaseEmpty, ringVars, history, Drift
<1>9. CASE UNCHANGED coreVars
  BY <1>9 DEF coreVars, ringVars, history, Drift
<1> QED
  BY <1>4, <1>5, <1>6, <1>7, <1>8, <1>9 DEF Next, Producer, Consumer, Terminated

\* What the off-by-one of main.cpp:114 does to the ring for good: after any number
\* of refused pushes the indices are that far behind the semaphores.
THEOREM RingDriftHolds == SafeSpec => []RingDrift
<1>1. Init => Drift
  <2>1. Init => write_index - read_index = Len(queue) - dropped + 0 * BUF_SIZE
    BY BufSizeAssumption DEF Init, RingInit
  <2> QED
    BY <2>1 DEF Drift
<1>2. IInv /\ Drift => RingDrift
  <2> SUFFICES ASSUME IInv, Drift PROVE RingDrift
    OBVIOUS
  <2>1. PICK k \in Int : write_index - read_index = Len(queue) - dropped + k * BUF_SIZE
    BY DEF Drift
  <2>2. Len(queue) - dropped \in Int
    BY DEF IInv, Types
  <2> QED
    BY <2>1, <2>2, WholeTurns DEF RingDrift
<1>3. IInv /\ Drift /\ [Next]_coreVars => Drift'
  BY DriftStep
<1> QED
  BY <1>1, <1>2, <1>3, InitIInv, IInvHolds, PTL DEF SafeSpec
-------------------------------------------------------------------------------
\* How many values a process has added or popped, and what that makes for a group of
\* processes: the pairs of a process and a turn that it has behind it.
Moves(p) == i[p] + (IF pc[p] \in {"unlock", "release"} THEN 1 ELSE 0)
LastTurn(p) == IF p \in Producers THEN LOOP_VALUE ELSE 3 * LOOP_VALUE
Behind(P, n, f) == {x \in P \X (0 .. n) : x[2] < f[x[1]]}
Moved(P) == Behind(P, 3 * LOOP_VALUE, [p \in P |-> Moves(p)])

\* The counter of a process passes the bound of its loop when it leaves it, and what
\* is outstanding was added and is not popped.
TurnsTaken ==
  \A p \in Children :
    IF pc[p] = "exited" THEN i[p] = LastTurn(p) + 1 ELSE i[p] <= LastTurn(p)
Outflow == Len(queue) = Cardinality(Moved(Producers)) - Cardinality(Moved(Consumers))

LEMMA MovedFinite ==
  ASSUME NEW P, IsFiniteSet(P)
  PROVE  IsFiniteSet(Moved(P)) /\ Cardinality(Moved(P)) \in Nat
<1>1. 0 \in Int /\ 3 * LOOP_VALUE \in Int
  BY ProcessAssumption
<1>2. IsFiniteSet(0 .. 3 * LOOP_VALUE)
  BY <1>1, FS_Interval
<1>3. IsFiniteSet(P \X (0 .. 3 * LOOP_VALUE))
  BY <1>2, FS_Product
<1> QED BY <1>3, FS_Subset, FS_CardinalityType DEF Moved, Behind

\* One process of P takes a turn, which the n of its loop still allows.
Advances(P, n, f, g) == \E q \in P : f[q] <= n /\ g = [f EXCEPT ![q] = f[q] + 1]

\* The set of turns, for a function of moves: one more move is one more pair.
LEMMA OneMore ==
  ASSUME NEW P, IsFiniteSet(P), NEW n \in Nat, NEW f \in [P -> Nat], NEW g,
         Advances(P, n, f, g)
  PROVE  Cardinality(Behind(P, n, g)) = Cardinality(Behind(P, n, f)) + 1
<1> USE DEF Behind
<1>q. PICK q \in P : f[q] <= n /\ g = [f EXCEPT ![q] = f[q] + 1]
  BY DEF Advances
<1> DEFINE S == Behind(P, n, f)
           T == Behind(P, n, g)
<1>0. IsFiniteSet(0 .. n)
  BY FS_Interval
<1>1. IsFiniteSet(P \X (0 .. n))
  BY <1>0, FS_Product
<1>2. IsFiniteSet(S)
  BY <1>1, FS_Subset
<1>3. <<q, f[q]>> \notin S
  BY <1>q
<1>4. T = S \cup {<<q, f[q]>>}
  <2>1. ASSUME NEW x \in P \X (0 .. n) PROVE x \in T <=> x \in S \/ x = <<q, f[q]>>
    <3>1. PICK a \in P, k \in 0 .. n : x = <<a, k>>
      OBVIOUS
    <3>2. CASE a = q
      BY <1>q, <3>1, <3>2
    <3>3. CASE a # q
      BY <1>q, <3>1, <3>3
    <3> QED BY <3>2, <3>3
  <2>2. <<q, f[q]>> \in P \X (0 .. n)
    BY <1>q
  <2> QED BY <2>1, <2>2
<1> HIDE DEF S, T
<1>5. Cardinality(T) = Cardinality(S) + 1
  BY <1>2, <1>3, <1>4, FS_AddElement
<1> QED BY <1>5 DEF S, T

\* All turns taken.
LEMMA AllMoved ==
  ASSUME NEW P, IsFiniteSet(P), NEW n \in 0 .. 3 * LOOP_VALUE, \A p \in P : Moves(p) = n + 1
  PROVE  Cardinality(Moved(P)) = Cardinality(P) * (n + 1)
<1>1. Moved(P) = P \X (0 .. n)
  BY ProcessAssumption DEF Moved, Behind
<1>2. IsFiniteSet(0 .. n) /\ Cardinality(0 .. n) = n + 1
  BY ProcessAssumption, FS_Interval
<1> QED BY <1>1, <1>2, FS_Product

\* A step that adds or pops counts a turn of its process, and no other step does.
LEMMA MovedSame ==
  ASSUME Types, \A p \in Children : Moves(p)' = Moves(p)
  PROVE  Moved(Producers)' = Moved(Producers) /\ Moved(Consumers)' = Moved(Consumers)
  BY DEF Moved, Behind, Children

LEMMA MovedMore ==
  ASSUME Types, NEW P \in {Producers, Consumers}, NEW q \in P, Moves(q) <= 3 * LOOP_VALUE,
         Moves(q)' = Moves(q) + 1, \A p \in P \ {q} : Moves(p)' = Moves(p)
  PROVE  Cardinality(Moved(P)') = Cardinality(Moved(P)) + 1
<1> DEFINE f == [p \in P |-> Moves(p)]
           g == [p \in P |-> Moves(p)']
           n == 3 * LOOP_VALUE
<1>1. f \in [P -> Nat] /\ n \in Nat /\ IsFiniteSet(P)
  BY ProcessAssumption DEF Types, Children, Moves
<1>2. g = [f EXCEPT ![q] = f[q] + 1]
  OBVIOUS
<1>3. Advances(P, n, f, g)
  BY <1>2 DEF Advances
<1>4. Moved(P) = Behind(P, n, f) /\ Moved(P)' = Behind(P, n, g)
  BY DEF Moved, Behind
<1> HIDE DEF f, g, n
<1>5. Cardinality(Behind(P, n, g)) = Cardinality(Behind(P, n, f)) + 1
  BY <1>1, <1>3, OneMore
<1> QED BY <1>4, <1>5

LEMMA TurnsStep ==
  ASSUME IInv, TurnsTaken, [Next]_coreVars
  PROVE  TurnsTaken'
<1> USE DEF Types, TurnsTaken, LastTurn, Children, Labels, Goto
<1>0. Types /\ Types'
  BY IInvStep DEF IInv
<1>1. ASSUME NEW p \in Children, ReleaseFull(p) \/ ReleaseEmpty(p)
      PROVE  TurnsTaken'
  <2>1. /\ pc[p] = "release" /\ i' = [i EXCEPT ![p] = i[p] + 1]
        /\ pc' = [pc EXCEPT ![p] = IF i[p] + 1 <= LastTurn(p) THEN "acquire" ELSE "exited"]
    BY <1>1 DEF ReleaseFull, ReleaseEmpty, Iterate, LoopAgain
  <2>2. LastTurn(p) \in Nat /\ i[p] \in Nat /\ i[p] <= LastTurn(p)
    <3>1. LastTurn(p) \in Nat
      BY ProcessAssumption
    <3> QED BY <1>0, <2>1, <3>1
  <2> HIDE DEF LastTurn
  <2>3. IF pc'[p] = "exited" THEN i'[p] = LastTurn(p) + 1 ELSE i'[p] <= LastTurn(p)
    BY <1>0, <2>1, <2>2
  <2>4. \A q \in Children \ {p} : pc'[q] = pc[q] /\ i'[q] = i[q]
    BY <1>0, <2>1
  <2> QED BY <2>3, <2>4
<1>2. ASSUME NEW p \in Children,
             \/ AcquireEmpty(p) \/ Lock(p) \/ PushRefused(p) \/ PushStore(p) \/ PushAdvance(p)
             \/ Unlock(p) \/ AcquireFull(p) \/ PopRead(p) \/ PopAdvance(p)
      PROVE  TurnsTaken'
  <2>1. /\ \E from, to \in Labels \ {"exited"} : pc[p] = from /\ pc' = [pc EXCEPT ![p] = to]
        /\ UNCHANGED i
    BY <1>2 DEF AcquireEmpty, Lock, PushRefused, PushStore, PushAdvance, Unlock, AcquireFull,
       PopRead, PopAdvance
  <2> QED BY <1>0, <2>1
<1>3. CASE UNCHANGED coreVars
  BY <1>3 DEF coreVars
<1> QED
  BY <1>1, <1>2, <1>3 DEF Next, Producer, Consumer, Terminated

LEMMA OutflowStep ==
  ASSUME IInv, TurnsTaken, Outflow, [Next]_coreVars
  PROVE  Outflow'
<1>0. Types /\ Accounting
  BY DEF IInv
<1>c. /\ Cardinality(Moved(Producers)) \in Nat /\ Cardinality(Moved(Consumers)) \in Nat
      /\ Len(queue) \in Nat
  BY <1>0, ProcessAssumption, MovedFinite DEF Types
<1>d. Producers \cap Consumers = {}
  BY ProcessAssumption
<1>1. ASSUME NEW p \in Producers, PushRefused(p) \/ PushAdvance(p)
      PROVE  Outflow'
  <2>1. /\ pc[p] \in {"access", "advance"} /\ pc' = [pc EXCEPT ![p] = "unlock"] /\ UNCHANGED i
        /\ queue' = Append(queue, i[p])
    BY <1>1 DEF PushRefused, PushAdvance, Goto
  <2>a. p \in Children /\ i[p] \in Nat /\ Moves(p) = i[p] /\ Moves(p)' = i[p] + 1
    BY <1>0, <2>1 DEF Types, Moves, Children
  <2>b. i[p] <= LOOP_VALUE
    BY <2>1, <2>a DEF TurnsTaken, LastTurn
  <2>c. \A q \in Children \ {p} : Moves(q)' = Moves(q)
    BY <1>0, <2>1 DEF Types, Moves
  <2>2. /\ Moves(p)' = Moves(p) + 1 /\ Moves(p) <= 3 * LOOP_VALUE
        /\ \A q \in Children \ {p} : Moves(q)' = Moves(q)
    BY <2>a, <2>b, <2>c, ProcessAssumption
  <2>3. Cardinality(Moved(Producers)') = Cardinality(Moved(Producers)) + 1
    BY <1>0, <2>2, MovedMore DEF Children
  <2>4. Moved(Consumers)' = Moved(Consumers)
    BY <1>d, <2>2 DEF Moved, Behind, Children
  <2>5. Len(queue') = Len(queue) + 1
    BY <1>0, <2>1 DEF Types, Children
  <2> QED BY <1>c, <2>3, <2>4, <2>5 DEF Outflow
<1>2. ASSUME NEW c \in Consumers, PopAdvance(c)
      PROVE  Outflow'
  <2>1. /\ pc[c] = "advance" /\ pc' = [pc EXCEPT ![c] = "unlock"] /\ UNCHANGED i
        /\ queue' = IF queue = <<>> THEN queue ELSE Tail(queue)
    BY <1>2 DEF PopAdvance, Goto
  <2>2. /\ Moves(c)' = Moves(c) + 1 /\ Moves(c) <= 3 * LOOP_VALUE
        /\ \A q \in Children \ {c} : Moves(q)' = Moves(q)
    BY <1>0, <1>d, <2>1, ProcessAssumption DEF Types, Moves, TurnsTaken, LastTurn, Children
  <2>3. Cardinality(Moved(Consumers)') = Cardinality(Moved(Consumers)) + 1
    BY <1>0, <2>2, MovedMore DEF Children
  <2>4. Moved(Producers)' = Moved(Producers)
    BY <1>d, <2>2 DEF Moved, Behind, Children
  <2>5. Len(queue') = Len(queue) - 1
    BY <1>0, <2>1, Outstanding DEF Types
  <2> QED BY <1>c, <2>3, <2>4, <2>5 DEF Outflow
<1>3. ASSUME NEW p \in Children, ReleaseFull(p) \/ ReleaseEmpty(p)
      PROVE  Outflow'
  <2>1. /\ pc[p] = "release" /\ i' = [i EXCEPT ![p] = @ + 1] /\ UNCHANGED queue
        /\ \E to \in {"acquire", "exited"} : pc' = [pc EXCEPT ![p] = to]
    BY <1>3 DEF ReleaseFull, ReleaseEmpty, Iterate, Goto, history
  <2>2. \A q \in Children : Moves(q)' = Moves(q)
    BY <1>0, <2>1 DEF Types, Moves
  <2> QED BY <1>0, <2>1, <2>2, MovedSame DEF Outflow
<1>4. ASSUME NEW p \in Children,
             \/ AcquireEmpty(p) \/ Lock(p) \/ PushStore(p) \/ Unlock(p)
             \/ AcquireFull(p) \/ PopRead(p)
      PROVE  Outflow'
  <2>1. UNCHANGED <<i, queue>>
    BY <1>4 DEF AcquireEmpty, Lock, PushStore, Unlock, AcquireFull, PopRead, history
  <2>2. \/ /\ pc[p] \in Labels \ {"unlock", "release"}
           /\ \E to \in Labels \ {"unlock", "release"} : pc' = [pc EXCEPT ![p] = to]
        \/ pc[p] = "unlock" /\ pc' = [pc EXCEPT ![p] = "release"]
    BY <1>4 DEF AcquireEmpty, Lock, PushStore, Unlock, AcquireFull, PopRead, Goto, Labels
  <2>3. \A q \in Children : Moves(q)' = Moves(q)
    BY <1>0, <2>1, <2>2 DEF Types, Moves
  <2> QED BY <1>0, <2>1, <2>3, MovedSame DEF Outflow
<1>5. CASE UNCHANGED coreVars
  <2>1. UNCHANGED <<pc, i, queue>>
    BY <1>5 DEF coreVars, history
  <2> QED BY <2>1 DEF Outflow, Moved, Behind, Moves
<1> QED
  BY <1>1, <1>2, <1>3, <1>4, <1>5 DEF Next, Producer, Consumer, Terminated, Children

LEMMA TurnsHold == SafeSpec => [](TurnsTaken /\ Outflow)
<1>1. Init => TurnsTaken /\ Outflow
  <2> SUFFICES ASSUME Init PROVE TurnsTaken /\ Outflow
    OBVIOUS
  <2>1. \A p \in Children : i[p] = 0 /\ pc[p] = "acquire"
    BY DEF Init
  <2>2. Moved(Producers) = {} /\ Moved(Consumers) = {}
    BY <2>1 DEF Moved, Behind, Moves, Children
  <2>3. Outflow
    BY <2>2, FS_EmptySet DEF Init, Outflow
  <2> QED BY <2>1, <2>3, ProcessAssumption DEF TurnsTaken, LastTurn
<1> QED BY <1>1, InitIInv, IInvHolds, TurnsStep, OutflowStep, PTL DEF SafeSpec

\* The difference of the two loop bounds, for any number of processes: when all have
\* left their loops the ring holds what was added and never popped.
LEMMA LeftAtExit ==
  ASSUME IInv, TurnsTaken, Outflow, AllExited
  PROVE  /\ Len(queue) = Cardinality(Producers) * (LOOP_VALUE + 1)
                           - Cardinality(Consumers) * (3 * LOOP_VALUE + 1)
         /\ sem_full = Len(queue) /\ sem_empty = BUF_SIZE - Len(queue)
<1>1. Types /\ Accounting
  BY DEF IInv
<1>2. \A p \in Children : Moves(p) = LastTurn(p) + 1
  BY <1>1 DEF Types, AllExited, TurnsTaken, Moves
<1>3. /\ \A p \in Producers : Moves(p) = LOOP_VALUE + 1
      /\ \A c \in Consumers : Moves(c) = 3 * LOOP_VALUE + 1
  BY <1>2, ProcessAssumption DEF LastTurn, Children
<1>4. /\ Cardinality(Moved(Producers)) = Cardinality(Producers) * (LOOP_VALUE + 1)
      /\ Cardinality(Moved(Consumers)) = Cardinality(Consumers) * (3 * LOOP_VALUE + 1)
  <2>1. LOOP_VALUE \in 0 .. 3 * LOOP_VALUE /\ 3 * LOOP_VALUE \in 0 .. 3 * LOOP_VALUE
    BY ProcessAssumption
  <2> QED BY <1>3, <2>1, AllMoved, ProcessAssumption
<1>5. ItemHolders = {} /\ SlotHolders = {}
  BY DEF AllExited, ItemHolders, SlotHolders, Children
<1>6. Len(queue) = sem_full + 0 /\ BUF_SIZE = Len(queue) + sem_empty + 0
  BY <1>1, <1>5, FS_EmptySet DEF Accounting
<1>7. sem_full \in Nat /\ sem_empty \in Nat /\ Len(queue) \in Nat
  BY <1>1 DEF Types
<1> QED BY <1>4, <1>6, <1>7, BufSizeAssumption DEF Outflow

\* Three producers and one consumer, as main creates them: two values stay in the ring,
\* for every LOOP_VALUE and every BUF_SIZE.
THEOREM LeftoverHolds ==
  ASSUME Cardinality(Producers) = 3, Cardinality(Consumers) = 1
  PROVE  SafeSpec => []LeftoverAtExit
<1>1. IInv /\ TurnsTaken /\ Outflow => LeftoverAtExit
  <2> SUFFICES ASSUME IInv, TurnsTaken, Outflow, AllExited
               PROVE  Len(queue) = 2 /\ sem_full = 2 /\ sem_empty = BUF_SIZE - 2
    BY DEF LeftoverAtExit
  <2>1. Len(queue) = 3 * (LOOP_VALUE + 1) - 1 * (3 * LOOP_VALUE + 1)
    BY LeftAtExit
  <2>2. Len(queue) = 2
    BY <2>1, ProcessAssumption
  <2> QED BY <2>2, LeftAtExit
<1> QED BY <1>1, IInvHolds, TurnsHold, PTL

-------------------------------------------------------------------------------
\* The ring holds nothing but loop counters of producers (and the zeros it starts with).
PushedValues ==
  /\ buffer \in [Slots -> 0 .. LOOP_VALUE]
  /\ value \in [Consumers -> 0 .. LOOP_VALUE]

LEMMA CountersInRange ==
  ASSUME Types, TurnsTaken, NEW p \in Producers, pc[p] # "exited"
  PROVE  i[p] \in 0 .. LOOP_VALUE
  BY ProcessAssumption DEF Types, TurnsTaken, LastTurn, Children

LEMMA PushedValuesHold == SafeSpec => []PushedValues
<1>1. Init => PushedValues
  BY ProcessAssumption DEF Init, RingInit, PushedValues
<1>2. IInv /\ TurnsTaken /\ PushedValues /\ [Next]_coreVars => PushedValues'
  <2> SUFFICES ASSUME IInv, TurnsTaken, PushedValues, [Next]_coreVars
               PROVE  PushedValues'
    OBVIOUS
  <2> USE DEF PushedValues
  <2>0. Types
    BY DEF IInv
  <2>1. ASSUME NEW p \in Producers, PushStore(p)
        PROVE  PushedValues'
    <3>1. i[p] \in 0 .. LOOP_VALUE
      BY <2>0, <2>1, CountersInRange DEF PushStore, Goto
    <3>2. buffer' = [buffer EXCEPT ![write_index] = i[p]] /\ value' = value
      BY <2>1 DEF PushStore, Store
    <3> QED BY <2>0, <3>1, <3>2 DEF Types
  <2>2. ASSUME NEW c \in Consumers, PopRead(c)
        PROVE  PushedValues'
    <3>1. value' = [value EXCEPT ![c] = buffer[read_index]] /\ buffer' = buffer
      BY <2>2 DEF PopRead, Front, ringVars
    <3> QED BY <2>0, <3>1 DEF Types
  <2>3. ASSUME NEW p \in Children,
               \/ AcquireEmpty(p) \/ Lock(p) \/ PushRefused(p) \/ PushAdvance(p) \/ Unlock(p)
               \/ ReleaseFull(p) \/ AcquireFull(p) \/ PopAdvance(p) \/ ReleaseEmpty(p)
        PROVE  PushedValues'
    <3>1. UNCHANGED <<buffer, value>>
      BY <2>3 DEF AcquireEmpty, Lock, PushRefused, PushAdvance, Unlock, ReleaseFull,
         AcquireFull, PopAdvance, ReleaseEmpty, AdvanceRead, AdvanceWrite, ringVars
    <3> QED BY <3>1
  <2>4. CASE UNCHANGED coreVars
    BY <2>4 DEF coreVars, ringVars
  <2> QED
    BY <2>1, <2>2, <2>3, <2>4 DEF Next, Producer, Consumer, Terminated, Children
<1> QED BY <1>1, <1>2, IInvHolds, TurnsHold, PTL DEF SafeSpec

\* As long as nothing was refused, push finds the ring full when BUF_SIZE - 1 values
\* are outstanding, and only then.
LEMMA FullWhen ==
  ASSUME Types, RingMatchesQueue
  PROVE  is_full <=> Len(queue) = BUF_SIZE - 1
<1> DEFINE n == Len(queue)
<1>1. n \in 0 .. BUF_SIZE - 1 /\ read_index \in Slots /\ write_index = (read_index + n) % BUF_SIZE
  BY BufSizeAssumption DEF Types, RingMatchesQueue
<1> HIDE DEF n
<1>2. NextIndex(write_index) = (read_index + n + 1) % BUF_SIZE
  BY <1>1, Distances
<1>3. CASE n = BUF_SIZE - 1
  <2>1. read_index + n + 1 = read_index + BUF_SIZE
    BY <1>1, <1>3, BufSizeAssumption DEF Slots
  <2>2. NextIndex(write_index) = read_index
    BY <1>1, <1>2, <2>1, FullCircle
  <2> QED BY <1>3, <2>2 DEF is_full, n
<1>4. CASE n # BUF_SIZE - 1
  <2> DEFINE k == n + 1
  <2>1. k \in 0 .. BUF_SIZE - 1 /\ k # 0 /\ 0 \in 0 .. BUF_SIZE - 1 /\ read_index + n + 1 = read_index + k
    BY <1>1, <1>4, BufSizeAssumption DEF Slots
  <2> HIDE DEF k
  <2>2. (read_index + k) % BUF_SIZE # (read_index + 0) % BUF_SIZE
    BY <1>1, <2>1, Distances
  <2>3. (read_index + 0) % BUF_SIZE = read_index
    BY <1>1, BufSizeAssumption DEF Slots
  <2>4. NextIndex(write_index) # read_index
    BY <1>2, <2>1, <2>2, <2>3
  <2> QED BY <1>4, <2>4 DEF is_full, n
<1> QED BY <1>3, <1>4

\* What a consumer holds for FlowControl: the value of its pop until the next turn.
Held == [c \in Consumers |->
           IF pc[c] \in {"unlock", "release"} THEN <<value[c]>> ELSE <<>>]

\* The processes implement FlowControl: a finished push, stored or refused, is a Put
\* that keeps its value unless BUF_SIZE - 1 are outstanding; a finished pop is a Get of
\* the oldest value; the end of a consumer's turn is its Finish; every other step
\* changes nothing there.
THEOREM Refinement == SafeSpec => ImplementsFlowControl
<1>1. Init => Flow!Init
  BY DEF Init, Flow!Init, Children
<1>2. IInv /\ TurnsTaken /\ PushedValues /\ [Next]_coreVars => [Flow!Next]_(Flow!vars)
  <2> SUFFICES ASSUME IInv, TurnsTaken, PushedValues, [Next]_coreVars
               PROVE  Flow!Next \/ UNCHANGED <<queue, dropped = 0, Held>>
    BY DEF Flow!vars, Held
  <2> USE DEF Goto
  <2>1. Types /\ Accounting /\ (dropped = 0 => RingMatchesQueue)
    BY DEF IInv, RingInv
  <2>2. queue \in Seq(Int) /\ Len(queue) \in Nat /\ dropped \in Nat
        /\ pc \in [Children -> Labels] /\ value \in [Consumers -> Int]
    BY <2>1 DEF Types
  <2>3. ASSUME NEW p \in Producers, PushRefused(p) \/ PushAdvance(p)
        PROVE  Flow!Next
    <3>1. pc[p] \in {"access", "advance"} /\ queue' = Append(queue, i[p]) /\ value' = value
      BY <2>3 DEF PushRefused, PushAdvance
    <3>2. i[p] \in 0 .. LOOP_VALUE
      BY <2>1, <3>1, CountersInRange
    <3>3. Len(queue) < BUF_SIZE
      BY <2>1, <3>1, Outstanding
    <3>4. Held' = Held
      <4>1. \A c \in Consumers : pc'[c] = pc[c]
        BY <2>2, <2>3, ProcessAssumption DEF PushRefused, PushAdvance, Children
      <4> QED BY <3>1, <4>1 DEF Held
    <3>5. (dropped' = 0) <=> (dropped = 0 /\ Len(queue) < BUF_SIZE - 1)
      <4>1. CASE PushRefused(p)
        <5>1. dropped' = dropped + 1 /\ (dropped = 0 => Len(queue) = BUF_SIZE - 1)
          BY <2>1, <4>1, FullWhen DEF PushRefused
        <5> QED BY <2>2, <5>1, BufSizeAssumption
      <4>2. CASE PushAdvance(p)
        <5>1. pc[p] = "advance" /\ dropped' = dropped
          BY <4>2 DEF PushAdvance
        <5>2. dropped = 0 => Len(queue) < BUF_SIZE - 1
          BY <2>1, <5>1 DEF RingMatchesQueue
        <5> QED BY <5>1, <5>2
      <4> QED BY <2>3, <4>1, <4>2
    <3>6. Flow!Put(i[p])
      BY <3>1, <3>3, <3>4, <3>5 DEF Flow!Put, Held
    <3> QED BY <3>2, <3>6 DEF Flow!Next
  <2>4. ASSUME NEW c \in Consumers, PopAdvance(c)
        PROVE  Flow!Next
    <3>1. /\ pc[c] = "advance" /\ pc' = [pc EXCEPT ![c] = "unlock"]
          /\ value' = value /\ dropped' = dropped
      BY <2>4 DEF PopAdvance
    <3>2. Len(queue) > 0
      BY <2>1, <3>1, Outstanding
    <3>3. queue # <<>> /\ queue' = Tail(queue)
      BY <2>2, <2>4, <3>2 DEF PopAdvance
    <3>4. value[c] \in 0 .. LOOP_VALUE /\ (dropped = 0 => value[c] = Head(queue))
      BY <3>1, IInvFifo DEF PushedValues, FifoUntilFirstDrop, ConsumedInOrder
    <3>5. Held[c] = <<>> /\ Held' = [Held EXCEPT ![c] = <<value[c]>>]
      BY <2>2, <3>1 DEF Held, Children
    <3>6. Flow!Get(c)
      BY <3>1, <3>3, <3>4, <3>5 DEF Flow!Get, Held
    <3> QED BY <3>6 DEF Flow!Next
  <2>5. ASSUME NEW c \in Consumers, ReleaseEmpty(c)
        PROVE  Flow!Next
    <3>1. /\ pc[c] = "release" /\ value' = value /\ queue' = queue /\ dropped' = dropped
          /\ \E to \in {"acquire", "exited"} : pc' = [pc EXCEPT ![c] = to]
      BY <2>5 DEF ReleaseEmpty, Iterate, history
    <3>2. Held[c] # <<>> /\ Held' = [Held EXCEPT ![c] = <<>>]
      BY <2>2, <3>1 DEF Held, Children
    <3>3. Flow!Finish(c)
      BY <3>1, <3>2 DEF Flow!Finish, Held
    <3> QED BY <3>3 DEF Flow!Next
  <2>6. ASSUME NEW p \in Producers,
               AcquireEmpty(p) \/ Lock(p) \/ PushStore(p) \/ Unlock(p) \/ ReleaseFull(p)
        PROVE  UNCHANGED <<queue, dropped = 0, Held>>
    <3>1. \A c \in Consumers : pc'[c] = pc[c]
      BY <2>2, <2>6, ProcessAssumption
         DEF AcquireEmpty, Lock, PushStore, Unlock, ReleaseFull, Iterate, Children
    <3>2. UNCHANGED <<queue, dropped, value>>
      BY <2>6 DEF AcquireEmpty, Lock, PushStore, Unlock, ReleaseFull, history
    <3> QED BY <3>1, <3>2 DEF Held
  <2>7. ASSUME NEW c \in Consumers, AcquireFull(c) \/ Lock(c) \/ PopRead(c) \/ Unlock(c)
        PROVE  UNCHANGED <<queue, dropped = 0, Held>>
    <3>1. UNCHANGED <<queue, dropped>>
      BY <2>7 DEF AcquireFull, Lock, PopRead, Unlock, history
    <3>2. \A d \in Consumers \ {c} : pc'[d] = pc[d] /\ value'[d] = value[d]
      BY <2>2, <2>7 DEF AcquireFull, Lock, PopRead, Unlock, Children
    <3>3. \/ pc[c] \notin {"unlock", "release"} /\ pc'[c] \notin {"unlock", "release"}
          \/ pc[c] = "unlock" /\ pc'[c] = "release" /\ value'[c] = value[c]
      BY <2>2, <2>7 DEF AcquireFull, Lock, PopRead, Unlock, Children
    <3> QED BY <3>1, <3>2, <3>3 DEF Held
  <2>8. CASE UNCHANGED coreVars
    BY <2>8 DEF coreVars, history, Held
  <2> QED
    BY <2>3, <2>4, <2>5, <2>6, <2>7, <2>8 DEF Next, Producer, Consumer, Terminated
<1> QED
  BY <1>1, <1>2, IInvHolds, TurnsHold, PushedValuesHold, PTL
     DEF SafeSpec, ImplementsFlowControl, Flow!Spec

-------------------------------------------------------------------------------
(***************************************************************************)
(* Safety of the whole program producer_consumer for any number of         *)
(* children, of signals, of failing calls and of runs on what earlier runs *)
(* left.  IInv, the invariant of the processes alone, is carried over to   *)
(* the program that creates them, kills them and starts again.             *)
(***************************************************************************)

SetUp ==
  {"shm_open", "set_shm", "mmap", "sem_mutex", "set_mutex", "sem_full", "set_full",
   "sem_empty", "set_empty", "check"}
Working == {"create", "register", "wait", "erase", "cleanup"}

\* Whatever happened before: the ring and the counters have their types, and no
\* semaphore is negative.
CoreTypes ==
  /\ RingTypeOK
  /\ sem_mutex \in Nat /\ sem_full \in Nat /\ sem_empty \in Nat
  /\ pc \in [Children -> Labels] /\ i \in [Children -> Nat]
  /\ value \in [Consumers -> Int] /\ queue \in Seq(Int) /\ dropped \in Nat

\* Each child that main waited for costs the list an entry and moves the iterator.
AppTypes ==
  /\ CoreTypes
  /\ main_pc \in SetUp \cup Working \cup {"exited", "interrupted", "crashed"}
  /\ next \in 1 .. Len(CreationOrder) + 1
  /\ main_pc = "register" => next <= Len(CreationOrder)
  /\ list \in Seq(Children) /\ it \in Nat \ {0} /\ Len(list) + it <= next
  /\ copy \in [Children -> SUBSET Children]
  /\ status \in [Children -> {"unborn", "running", "zombie", "reaped"}]
  /\ linked \subseteq SemNames \cup {"shm"} /\ held \subseteq SemNames \cup {"shm"}
  /\ sigint \subseteq Children \cup {Main} /\ sigterm \subseteq Children
  /\ abandoned \in BOOLEAN /\ (main_pc = "crashed" => abandoned)

SemRanges ==
  ~abandoned => sem_mutex \in {0, 1} /\ sem_full \in 0 .. BUF_SIZE /\ sem_empty \in 0 .. BUF_SIZE

\* Set-up: there is no child yet, and what main holds it has opened.
Fresh ==
  main_pc \in SetUp =>
    /\ Running = {}
    /\ pc = [p \in Children |-> "acquire"] /\ i = [p \in Children |-> 0]
    /\ value = [c \in Consumers |-> 0] /\ queue = <<>> /\ dropped = 0
    /\ main_pc \notin {"shm_open", "set_shm", "mmap"} => RingInit
    /\ held \cap SemNames \subseteq linked
    /\ main_pc = "set_mutex" => "sem_mutex" \in linked
    /\ main_pc = "set_full" => "sem_full" \in linked
    /\ main_pc = "set_empty" => "sem_empty" \in linked

\* While its children work main holds every semaphore, so that each way to end
\* removes them; a semaphore left behind is one that no child has touched.
Untouched ==
  ~abandoned =>
    /\ main_pc \in Working => SemNames \subseteq held
    /\ main_pc \notin Working =>
         /\ "sem_mutex" \in linked => sem_mutex = 1
         /\ "sem_full" \in linked => sem_full = 0
         /\ "sem_empty" \in linked => sem_empty = BUF_SIZE
         /\ Running # {} => linked \cap SemNames = {}

\* The invariant of ProducerConsumer, from the first fork to the last child's end.
CoreInv == ~abandoned /\ main_pc \notin SetUp /\ (main_pc \in Working \/ Running # {}) => IInv

\* Every running child is in CHILD_PROCESES, but the one of the running turn.
Listed ==
  /\ main_pc \in Working \ {"register"} => Running \subseteq Elements(list)
  /\ main_pc = "register" => Running \subseteq Elements(list) \cup {CreationOrder[next]}
  /\ main_pc = "erase" => it <= Len(list) /\ status[list[it]] = "reaped"

AInv ==
  /\ AppTypes /\ SemRanges /\ Fresh /\ Untouched /\ CoreInv /\ Listed
  /\ EscapedOnlyUnregistered

-------------------------------------------------------------------------------
LEMMA ElementsAppend ==
  ASSUME NEW s \in Seq(Children), NEW x \in Children
  PROVE  Elements(s) \cup {x} \subseteq Elements(Append(s, x))
<1>1. /\ DOMAIN s = 1 .. Len(s) /\ DOMAIN Append(s, x) = 1 .. Len(s) + 1 /\ Len(s) \in Nat
      /\ Append(s, x)[Len(s) + 1] = x /\ \A n \in 1 .. Len(s) : Append(s, x)[n] = s[n]
  OBVIOUS
<1>2. Len(s) + 1 \in DOMAIN Append(s, x) /\ DOMAIN s \subseteq DOMAIN Append(s, x)
  BY <1>1
<1> QED BY <1>1, <1>2 DEF Elements

\* erase takes one entry away and keeps the others.
LEMMA ElementsErase ==
  ASSUME NEW s \in Seq(Children), NEW k \in 1 .. Len(s)
  PROVE  /\ EraseAt(s, k) \in Seq(Children) /\ Len(EraseAt(s, k)) = Len(s) - 1
         /\ Elements(s) \subseteq Elements(EraseAt(s, k)) \cup {s[k]}
<1> DEFINE a == SubSeq(s, 1, k - 1)
           b == SubSeq(s, k + 1, Len(s))
<1>1. \A n \in 1 .. Len(s) : s[n] \in Children
  OBVIOUS
<1>2. /\ a \in Seq(Children) /\ Len(a) = k - 1
      /\ \A n \in 1 .. k - 1 : a[n] = s[n]
  <2>1. 1 \in Int /\ k - 1 \in Int /\ \A n \in 1 .. k - 1 : s[n] \in Children
    BY <1>1
  <2> HIDE DEF a
  <2>2. /\ a \in Seq(Children) /\ Len(a) = IF 1 <= k - 1 THEN k - 1 - 1 + 1 ELSE 0
        /\ \A n \in 1 .. k - 1 - 1 + 1 : a[n] = s[1 + n - 1]
    BY <2>1, SubSeqProperties DEF a
  <2> QED BY <2>2
<1>3. /\ b \in Seq(Children) /\ Len(b) = Len(s) - k
      /\ \A n \in 1 .. Len(s) - k : b[n] = s[k + n]
  <2>1. k + 1 \in Int /\ Len(s) \in Int /\ \A n \in k + 1 .. Len(s) : s[n] \in Children
    BY <1>1
  <2> HIDE DEF b
  <2>2. /\ b \in Seq(Children) /\ Len(b) = IF k + 1 <= Len(s) THEN Len(s) - (k + 1) + 1 ELSE 0
        /\ \A n \in 1 .. Len(s) - (k + 1) + 1 : b[n] = s[k + 1 + n - 1]
    BY <2>1, SubSeqProperties DEF b
  <2> QED BY <2>2
<1> HIDE DEF a, b
<1> DEFINE t == a \o b
<1>4. /\ t \in Seq(Children) /\ Len(t) = Len(a) + Len(b)
      /\ \A n \in 1 .. Len(a) + Len(b) : t[n] = IF n <= Len(a) THEN a[n] ELSE b[n - Len(a)]
  BY <1>2, <1>3, ConcatProperties
<1>5. EraseAt(s, k) = t
  BY DEF EraseAt, a, b
<1> HIDE DEF t
<1>6. DOMAIN t = 1 .. Len(s) - 1 /\ DOMAIN s = 1 .. Len(s) /\ Len(t) = Len(s) - 1
  BY <1>2, <1>3, <1>4
<1>7. ASSUME NEW n \in 1 .. Len(s), n # k PROVE s[n] \in Elements(t)
  <2>1. CASE n < k
    <3>1. n \in DOMAIN t /\ t[n] = s[n] BY <1>2, <1>3, <1>4, <1>6, <2>1
    <3> QED BY <3>1 DEF Elements
  <2>2. CASE n > k
    <3>1. /\ n - 1 \in DOMAIN t /\ n - k \in 1 .. Len(s) - k /\ n - 1 - Len(a) = n - k
          /\ k + (n - k) = n /\ ~(n - 1 <= Len(a)) /\ n - 1 \in 1 .. Len(a) + Len(b)
      BY <1>2, <1>3, <1>6, <2>2
    <3>2. t[n - 1] = b[n - 1 - Len(a)] BY <1>4, <3>1
    <3>3. t[n - 1] = s[n] BY <1>3, <3>1, <3>2
    <3> QED BY <3>1, <3>3 DEF Elements
  <2> QED BY <1>7, <2>1, <2>2
<1> QED BY <1>4, <1>5, <1>6, <1>7 DEF Elements

\* The types of what the children share do not depend on how they alternate.
LEMMA CoreTypesStep ==
  ASSUME CoreTypes, NEW p \in Children,
         (p \in Producers /\ Producer(p)) \/ (p \in Consumers /\ Consumer(p))
  PROVE  CoreTypes'
<1> USE BufSizeAssumption DEF CoreTypes, RingTypeOK, Children, Labels, Goto, semVars, ringVars, history
<1>1. CASE p \in Producers /\ Producer(p)
  <2>1. CASE AcquireEmpty(p)
    BY <2>1 DEF AcquireEmpty, sem_wait
  <2>2. CASE Lock(p)
    BY <2>2 DEF Lock, sem_wait
  <2>3. CASE PushRefused(p)
    BY <2>3 DEF PushRefused
  <2>4. CASE PushStore(p)
    BY <2>4 DEF PushStore, Store
  <2>5. CASE PushAdvance(p)
    BY <2>5, NextIndexValue DEF PushAdvance, AdvanceWrite
  <2>6. CASE Unlock(p)
    BY <2>6 DEF Unlock, sem_post
  <2>7. CASE ReleaseFull(p)
    BY <2>7 DEF ReleaseFull, Iterate, sem_post
  <2> QED
    BY <1>1, <2>1, <2>2, <2>3, <2>4, <2>5, <2>6, <2>7 DEF Producer
<1>2. CASE p \in Consumers /\ Consumer(p)
  <2>1. CASE AcquireFull(p)
    BY <2>1 DEF AcquireFull, sem_wait
  <2>2. CASE Lock(p)
    BY <2>2 DEF Lock, sem_wait
  <2>3. CASE PopRead(p)
    BY <1>2, <2>3 DEF PopRead, Front
  <2>4. CASE PopAdvance(p)
    BY <2>4, NextIndexValue DEF PopAdvance, AdvanceRead
  <2>5. CASE Unlock(p)
    BY <2>5 DEF Unlock, sem_post
  <2>6. CASE ReleaseEmpty(p)
    BY <2>6 DEF ReleaseEmpty, Iterate, sem_post
  <2> QED
    BY <1>2, <2>1, <2>2, <2>3, <2>4, <2>5, <2>6 DEF Consumer
<1> QED
  BY <1>1, <1>2

LEMMA CoreUnchanged ==
  ASSUME UNCHANGED coreVars
  PROVE  (CoreTypes => CoreTypes') /\ (IInv => IInv')
<1>1. CoreTypes => CoreTypes'
  BY DEF coreVars, ringVars, semVars, history, CoreTypes, RingTypeOK
<1> QED BY <1>1, IInvStep

-------------------------------------------------------------------------------
LEMMA AppInitAInv == AppInit => AInv
<1> SUFFICES ASSUME AppInit PROVE AInv
  OBVIOUS
<1> USE DEF AppInit, Init
<1>1. Running = {}
  BY DEF Running
<1>2. IInv /\ TypeOK
  BY InitIInv, IInvTypeOK
<1>3. CoreTypes /\ SemRanges
  BY <1>2, BufSizeAssumption DEF CoreTypes, SemRanges, TypeOK
<1>4. AppTypes
  <2>1. Len(CreationOrder) \in Nat
    BY AppAssumption
  <2>2. next \in 1 .. Len(CreationOrder) + 1 /\ Len(list) + it <= next /\ list \in Seq(Children)
    BY <2>1
  <2>3. /\ main_pc \in SetUp /\ main_pc \notin {"register", "crashed"}
    BY DEF SetUp
  <2>4. /\ copy \in [Children -> SUBSET Children]
        /\ status \in [Children -> {"unborn", "running", "zombie", "reaped"}]
    OBVIOUS
  <2>5. it = 1 /\ ~abandoned
    OBVIOUS
  <2>6. abandoned \in BOOLEAN
    <3>1. abandoned = FALSE BY Zenon
    <3> HIDE DEF AppInit, Init
    <3> QED BY <3>1
  <2>7. linked = {} /\ held = {} /\ sigint = {} /\ sigterm = {}
    OBVIOUS
  <2> HIDE DEF AppInit, Init
  <2> QED BY <1>3, <2>2, <2>3, <2>4, <2>5, <2>6, <2>7 DEF AppTypes
<1>5. Fresh
  BY <1>1 DEF Fresh, SetUp
<1>6. Untouched /\ CoreInv /\ Listed /\ EscapedOnlyUnregistered
  BY <1>1 DEF Untouched, CoreInv, Listed, EscapedOnlyUnregistered, SetUp, Working
<1> QED BY <1>3, <1>4, <1>5, <1>6 DEF AInv

\* What every step of the set-up keeps.
LEMMA SetUpStep ==
  ASSUME AInv, main_pc \in SetUp, main_pc' \in SetUp \cup {"exited", "interrupted"},
         UNCHANGED <<creation, it, status, signals, abandoned>>,
         CoreTypes', SemRanges', Fresh',
         linked' \subseteq SemNames \cup {"shm"}, held' \subseteq SemNames \cup {"shm"},
         ~abandoned => /\ "sem_mutex" \in linked' => sem_mutex' = 1
                       /\ "sem_full" \in linked' => sem_full' = 0
                       /\ "sem_empty" \in linked' => sem_empty' = BUF_SIZE
  PROVE  AInv'
<1>1. Running' = {}
  BY DEF AInv, Fresh, Running
<1>2. AppTypes'
  BY DEF AInv, AppTypes, SetUp, creation, signals
<1>3. main_pc' \notin Working
  BY DEF SetUp, Working
<1>4. Untouched'
  BY <1>1, <1>3 DEF Untouched
<1>5. CoreInv' /\ EscapedOnlyUnregistered'
  BY <1>1, <1>3 DEF CoreInv, EscapedOnlyUnregistered
<1>6. Listed'
  BY <1>3 DEF Listed, Working
<1> QED BY <1>2, <1>4, <1>5, <1>6 DEF AInv

LEMMA ShmSteps ==
  ASSUME AInv, ShmOpen \/ Keep("shm", "set_shm", "mmap")
  PROVE  AInv'
<1>1. /\ main_pc \in {"shm_open", "set_shm"} /\ main_pc' \in {"set_shm", "mmap", "exited"}
      /\ UNCHANGED <<coreVars, creation, it, status, signals, abandoned>>
      /\ linked' \in {linked, linked \cup {"shm"}} /\ held' \in {held, held \cup {"shm"}}
  BY DEF ShmOpen, Keep, MainGoto, Fails, Disturbs, environment
<1>2. CoreTypes' BY <1>1, CoreUnchanged DEF AInv, AppTypes
<1>3. SemRanges' BY <1>1 DEF AInv, SemRanges, coreVars, semVars
<1>4. Fresh'
  BY <1>1 DEF AInv, Fresh, Running, SetUp, SemNames, coreVars, ringVars, history
<1> QED
  BY <1>1, <1>2, <1>3, <1>4, SetUpStep
     DEF AInv, AppTypes, Untouched, SetUp, Working, SemNames, coreVars, semVars

LEMMA MapRingStep == ASSUME AInv, MapRing PROVE AInv'
<1>1. /\ main_pc = "mmap" /\ main_pc' \in {"sem_mutex", "exited"}
      /\ UNCHANGED <<semVars, pc, i, value, history, creation, it, status, names, signals, abandoned>>
      /\ \/ main_pc' = "exited" /\ UNCHANGED ringVars
         \/ RingInit'
  BY DEF MapRing, MainGoto, Fails, Disturbs, environment, RingInit
<1>2. CoreTypes'
  <2>1. RingTypeOK'
    BY <1>1, BufSizeAssumption DEF AInv, AppTypes, CoreTypes, RingTypeOK, RingInit, ringVars, Slots
  <2> QED BY <1>1, <2>1 DEF AInv, AppTypes, CoreTypes, semVars, history
<1>3. SemRanges' BY <1>1 DEF AInv, SemRanges, semVars
<1>4. Fresh'
  BY <1>1 DEF AInv, Fresh, Running, SetUp, SemNames, history, names
<1> QED
  BY <1>1, <1>2, <1>3, <1>4, SetUpStep
     DEF AInv, AppTypes, Untouched, SetUp, Working, semVars, names

\* A semaphore that is left from an earlier run has the value a new one gets.
LEMMA OpenSemsStep == ASSUME AInv, OpenSems PROVE AInv'
<1>1. /\ main_pc \in SetUp \ {"shm_open", "set_shm", "mmap", "check"}
      /\ main_pc' \in SetUp \ {"shm_open", "set_shm", "mmap", "sem_mutex"}
      /\ UNCHANGED <<ringVars, pc, i, value, history, creation, it, status, signals, abandoned>>
  BY DEF OpenSems, OpenSem, Keep, MainGoto, Fails, Disturbs, environment, SetUp, coreVars
<1>2. /\ sem_mutex' = sem_mutex \/ (sem_mutex' = Opened("sem_mutex", sem_mutex, 1))
      /\ sem_full' = sem_full \/ (sem_full' = Opened("sem_full", sem_full, 0))
      /\ sem_empty' = sem_empty \/ (sem_empty' = Opened("sem_empty", sem_empty, BUF_SIZE))
  BY DEF OpenSems, OpenSem, Keep, coreVars, semVars
<1>3. CoreTypes'
  BY <1>1, <1>2, BufSizeAssumption
     DEF AInv, AppTypes, CoreTypes, RingTypeOK, Opened, ringVars, history
<1>4. SemRanges'
  BY <1>1, <1>2, BufSizeAssumption DEF AInv, SemRanges, Opened
<1>5. Fresh'
  <2>1. /\ held' \cap SemNames \subseteq linked'
        /\ main_pc' = "set_mutex" => "sem_mutex" \in linked'
        /\ main_pc' = "set_full" => "sem_full" \in linked'
        /\ main_pc' = "set_empty" => "sem_empty" \in linked'
    BY DEF AInv, Fresh, SetUp, OpenSems, OpenSem, Keep, MainGoto
  <2> QED
    BY <1>1, <2>1 DEF AInv, Fresh, Running, RingInit, ringVars, history
<1>6. /\ linked' \subseteq SemNames \cup {"shm"} /\ held' \subseteq SemNames \cup {"shm"}
  BY DEF AInv, AppTypes, OpenSems, OpenSem, Keep, SemNames
<1>7. ~abandoned => /\ "sem_mutex" \in linked' => sem_mutex' = 1
                    /\ "sem_full" \in linked' => sem_full' = 0
                    /\ "sem_empty" \in linked' => sem_empty' = BUF_SIZE
  <2>1. ~abandoned => /\ "sem_mutex" \in linked => sem_mutex = 1
                      /\ "sem_full" \in linked => sem_full = 0
                      /\ "sem_empty" \in linked => sem_empty = BUF_SIZE
    BY <1>1 DEF AInv, Untouched, SetUp, Working
  <2> QED
    BY <2>1 DEF OpenSems, OpenSem, Keep, Opened, coreVars, semVars
<1> QED BY <1>1, <1>3, <1>4, <1>5, <1>6, <1>7, SetUpStep

\* With all three semaphores open the processes start in their initial state.
LEMMA CheckSemsStep == ASSUME AInv, CheckSems PROVE AInv'
<1>1. /\ main_pc = "check"
      /\ UNCHANGED <<coreVars, creation, it, status, held, signals, abandoned>>
  BY DEF CheckSems, MainGoto, environment
<1>2. CoreTypes' /\ SemRanges'
  BY <1>1, CoreUnchanged DEF AInv, AppTypes, SemRanges, coreVars, semVars
<1>3. CASE ~(SemNames \subseteq held)
  <2>1. main_pc' = "interrupted" /\ linked' = linked \ held
    BY <1>3 DEF CheckSems, MainGoto, MainNames
  <2>2. Fresh' BY <2>1 DEF Fresh, SetUp
  <2> QED
    BY <1>1, <1>2, <2>1, <2>2, SetUpStep
       DEF AInv, AppTypes, Untouched, SetUp, Working, coreVars, semVars
<1>4. CASE SemNames \subseteq held
  <2>1. main_pc' = "create" /\ linked' = linked
    BY <1>4 DEF CheckSems, MainGoto
  <2>2. Running = {} /\ Running' = {}
    BY <1>1 DEF AInv, Fresh, SetUp, Running
  <2>3. ~abandoned => Init
    <3>1. SemNames \subseteq linked /\ RingInit
      BY <1>1, <1>4 DEF AInv, Fresh, SetUp
    <3>2. ~abandoned => sem_mutex = 1 /\ sem_full = 0 /\ sem_empty = BUF_SIZE
      BY <1>1, <3>1 DEF AInv, Untouched, Working, SemNames
    <3> QED BY <1>1, <3>1, <3>2 DEF AInv, Fresh, SetUp, Init
  <2>4. CoreInv'
    BY <1>1, <2>3, InitIInv, CoreUnchanged DEF CoreInv
  <2>5. AppTypes'
    BY <1>1, <1>2, <2>1 DEF AInv, AppTypes, Working, creation, signals
  <2>6. Fresh' /\ Untouched' /\ Listed' /\ EscapedOnlyUnregistered'
    BY <1>1, <1>4, <2>1, <2>2
       DEF Fresh, Untouched, Listed, EscapedOnlyUnregistered, SetUp, Working
  <2> QED BY <1>2, <2>4, <2>5, <2>6 DEF AInv
<1> QED BY <1>3, <1>4

-------------------------------------------------------------------------------
\* What a step of main keeps while its children work; the list and the children's
\* status are left to the lemmas below.
LEMMA WorkingStep ==
  ASSUME AInv, main_pc \in Working, main_pc' \in Working,
         UNCHANGED <<coreVars, names, signals, abandoned>>,
         AppTypes', Listed'
  PROVE  AInv'
<1>1. CoreInv'
  BY CoreUnchanged DEF AInv, CoreInv, SetUp, Working
<1>2. SemRanges'
  BY DEF AInv, SemRanges, coreVars, semVars
<1>3. Fresh' /\ EscapedOnlyUnregistered'
  BY DEF Fresh, EscapedOnlyUnregistered, SetUp, Working
<1>4. Untouched'
  BY DEF AInv, Untouched, names
<1> QED BY <1>1, <1>2, <1>3, <1>4 DEF AInv

LEMMA OrderTypes ==
  ASSUME next \in 1 .. Len(CreationOrder)
  PROVE  CreationOrder[next] \in Children
  BY AppAssumption

LEMMA ForkStep == ASSUME AInv, Fork PROVE AInv'
<1> DEFINE child == CreationOrder[next]
<1>1. /\ main_pc = "create" /\ next <= Len(CreationOrder)
      /\ UNCHANGED <<coreVars, list, it, names, signals, abandoned>>
      /\ \/ /\ main_pc' = "register" /\ status' = [status EXCEPT ![child] = "running"]
            /\ copy' = [copy EXCEPT ![child] = Elements(list)] /\ next' = next
         \/ main_pc' = "create" /\ next' = next + 1 /\ UNCHANGED <<status, copy>>
  BY DEF Fork, Fails, Disturbs, environment
<1>2. child \in Children /\ Elements(list) \subseteq Children
  BY <1>1, OrderTypes, AppAssumption DEF AInv, AppTypes, Elements
<1> HIDE DEF child
<1>3. CoreTypes'
  BY <1>1, CoreUnchanged DEF AInv, AppTypes
<1>4. AppTypes'
  <2>1. /\ next' \in 1 .. Len(CreationOrder) + 1 /\ Len(list') + it' <= next'
        /\ main_pc' = "register" => next' <= Len(CreationOrder)
    BY <1>1, AppAssumption DEF AInv, AppTypes
  <2>2. /\ copy' \in [Children -> SUBSET Children]
        /\ status' \in [Children -> {"unborn", "running", "zombie", "reaped"}]
    BY <1>1, <1>2 DEF AInv, AppTypes
  <2> QED BY <1>1, <1>3, <2>1, <2>2 DEF AInv, AppTypes, Working, names, signals
<1>5. Running' \subseteq Running \cup (IF main_pc' = "register" THEN {child} ELSE {})
  BY <1>1, <1>2 DEF AInv, AppTypes, Running
<1>6. Listed'
  BY <1>1, <1>5 DEF AInv, Listed, Working, Elements, child
<1> QED BY <1>1, <1>4, <1>6, WorkingStep DEF Working

LEMMA RegisterStep == ASSUME AInv, Register PROVE AInv'
<1> DEFINE child == CreationOrder[next]
<1>1. /\ main_pc = "register" /\ main_pc' = "create"
      /\ UNCHANGED <<coreVars, copy, it, status, names, signals, abandoned>>
      /\ list' = Append(list, child) /\ next' = next + 1
  BY DEF Register, MainGoto, environment
<1>2. child \in Children /\ next \in 1 .. Len(CreationOrder)
  BY <1>1, OrderTypes, AppAssumption DEF AInv, AppTypes
<1>3. Running' = Running /\ Running \subseteq Elements(list) \cup {child}
  BY <1>1 DEF AInv, Listed, Running
<1> HIDE DEF child
<1>4. /\ list' \in Seq(Children) /\ Len(list') = Len(list) + 1
      /\ Elements(list) \cup {child} \subseteq Elements(list)'
  <2>1. list \in Seq(Children)
    BY DEF AInv, AppTypes
  <2> QED BY <1>1, <1>2, <2>1, ElementsAppend DEF Elements
<1>5. CoreTypes'
  BY <1>1, CoreUnchanged DEF AInv, AppTypes
<1>6. AppTypes'
  <2>1. next' \in 1 .. Len(CreationOrder) + 1 /\ Len(list') + it' <= next'
    BY <1>1, <1>2, <1>4, AppAssumption DEF AInv, AppTypes
  <2> QED BY <1>1, <1>4, <1>5, <2>1 DEF AInv, AppTypes, Working, names, signals
<1>7. Listed'
  BY <1>1, <1>3, <1>4 DEF Listed, Working
<1> QED BY <1>1, <1>6, <1>7, WorkingStep DEF Working

LEMMA WaitSteps ==
  ASSUME AInv, StartWaiting \/ WaitChild \/ LeaveLoop
  PROVE  AInv'
<1>1. /\ main_pc \in {"create", "wait"} /\ main_pc' \in {"wait", "erase", "cleanup"}
      /\ UNCHANGED <<coreVars, creation, names, signals, abandoned>>
      /\ it' \in {1, it}
      /\ \/ status' = status /\ main_pc' # "erase"
         \/ /\ main_pc' = "erase" /\ it <= Len(list) /\ it' = it
            /\ status[list[it]] = "zombie" /\ status' = [status EXCEPT ![list[it]] = "reaped"]
  BY DEF StartWaiting, WaitChild, LeaveLoop, MainGoto, environment, creation
<1>2. main_pc' = "erase" => list[it] \in Children
  BY <1>1 DEF AInv, AppTypes
<1>3. CoreTypes'
  BY <1>1, CoreUnchanged DEF AInv, AppTypes
<1>4. AppTypes'
  <2>1. it' \in Nat \ {0} /\ Len(list') + it' <= next'
    BY <1>1, AppAssumption DEF AInv, AppTypes, creation
  <2>2. status' \in [Children -> {"unborn", "running", "zombie", "reaped"}]
    BY <1>1, <1>2 DEF AInv, AppTypes
  <2> QED BY <1>1, <1>3, <2>1, <2>2 DEF AInv, AppTypes, Working, names, signals, creation
<1>5. Running' = Running
  BY <1>1, <1>2 DEF AInv, AppTypes, Running
<1>6. Listed'
  BY <1>1, <1>2, <1>5 DEF AInv, AppTypes, Listed, Working, Elements, creation
<1> QED BY <1>1, <1>4, <1>6, WorkingStep DEF Working

LEMMA EraseStep == ASSUME AInv, Erase PROVE AInv'
<1>1. /\ main_pc = "erase" /\ main_pc' = "wait"
      /\ UNCHANGED <<coreVars, next, copy, status, names, signals, abandoned>>
      /\ list' = EraseAt(list, it) /\ it' = it + 1
  BY DEF Erase, MainGoto, environment
<1>2. list \in Seq(Children) /\ it \in 1 .. Len(list) /\ status[list[it]] = "reaped"
  BY <1>1 DEF AInv, AppTypes, Listed
<1>3. /\ list' \in Seq(Children) /\ Len(list') = Len(list) - 1
      /\ Elements(list) \subseteq Elements(list') \cup {list[it]}
  BY <1>1, <1>2, ElementsErase
<1>4. CoreTypes'
  BY <1>1, CoreUnchanged DEF AInv, AppTypes
<1>5. AppTypes'
  <2>1. it' \in Nat \ {0} /\ Len(list') + it' <= next'
    BY <1>1, <1>2, <1>3, AppAssumption DEF AInv, AppTypes
  <2> QED BY <1>1, <1>3, <1>4, <2>1 DEF AInv, AppTypes, Working, names, signals
<1>6. Running' = Running /\ list[it] \notin Running /\ Running \subseteq Elements(list)
  BY <1>1, <1>2 DEF AInv, Listed, Running, Working
<1>7. Listed'
  BY <1>1, <1>3, <1>6 DEF Listed, Working, Elements
<1> QED BY <1>1, <1>5, <1>7, WorkingStep DEF Working

-------------------------------------------------------------------------------
\* The ways in which main ends: the clean-up and the handler remove every semaphore
\* that a child can have touched.
LEMMA CleanupStep == ASSUME AInv, Cleanup PROVE AInv'
<1>1. /\ main_pc = "cleanup" /\ main_pc' = "exited" /\ linked' = {}
      /\ UNCHANGED <<coreVars, creation, it, status, held, signals, abandoned>>
  BY DEF Cleanup, MainGoto, environment
<1>2. CoreTypes' /\ SemRanges'
  BY <1>1, CoreUnchanged DEF AInv, AppTypes, SemRanges, coreVars, semVars
<1>3. AppTypes'
  BY <1>1, <1>2 DEF AInv, AppTypes, creation, signals
<1>4. Fresh' /\ Untouched' /\ Listed' /\ EscapedOnlyUnregistered'
  BY <1>1 DEF Fresh, Untouched, Listed, EscapedOnlyUnregistered, SetUp, Working
<1>5. CoreInv'
  BY <1>1, CoreUnchanged DEF AInv, CoreInv, SetUp, Working
<1> QED BY <1>2, <1>3, <1>4, <1>5 DEF AInv

LEMMA HandlerStep == ASSUME AInv, MainHandlesSigint PROVE AInv'
<1>1. /\ main_pc \notin {"exited", "interrupted", "crashed"} /\ main_pc' = "interrupted"
      /\ linked' = linked \ held /\ sigint' = sigint \ {Main}
      /\ sigterm' = sigterm \cup (Elements(list) \cap Running)
      /\ UNCHANGED <<coreVars, creation, it, status, held, abandoned>>
  BY DEF MainHandlesSigint, MainAlive, Kill, MainNames, environment
<1>2. CoreTypes' /\ SemRanges'
  BY <1>1, CoreUnchanged DEF AInv, AppTypes, SemRanges, coreVars, semVars
<1>3. Running' = Running /\ Running \subseteq Children
  BY <1>1 DEF Running
<1>4. AppTypes'
  BY <1>1, <1>2, <1>3 DEF AInv, AppTypes, creation
<1>5. main_pc \in SetUp \cup Working
  BY <1>1 DEF AInv, AppTypes
<1>6. CASE main_pc \in SetUp
  <2>1. Running = {} BY <1>6 DEF AInv, Fresh
  <2>2. main_pc \notin Working BY <1>6 DEF SetUp, Working
  <2>3. Untouched'
    BY <1>1, <1>3, <2>1, <2>2 DEF AInv, Untouched, Working, coreVars, semVars
  <2>4. Fresh' /\ CoreInv' /\ Listed' /\ EscapedOnlyUnregistered'
    BY <1>1, <1>3, <2>1 DEF Fresh, CoreInv, Listed, EscapedOnlyUnregistered, SetUp, Working
  <2> QED BY <1>2, <1>4, <2>3, <2>4 DEF AInv
<1>7. CASE main_pc \in Working
  <2>1. ~abandoned => linked' \cap SemNames = {}
    BY <1>1, <1>7 DEF AInv, Untouched
  <2>2. Untouched'
    BY <1>1, <2>1 DEF Untouched, Working, SemNames
  <2>3. EscapedOnlyUnregistered'
    <3>1. Running \subseteq sigterm' \cup (IF main_pc = "register" THEN {CreationOrder[next]} ELSE {})
      BY <1>1, <1>7 DEF AInv, Listed
    <3> QED
      BY <1>1, <1>3, <3>1 DEF AInv, AppTypes, EscapedOnlyUnregistered, creation
  <2>4. CoreInv'
    BY <1>1, <1>7, CoreUnchanged DEF AInv, CoreInv, SetUp, Working
  <2>5. Fresh' /\ Listed'
    BY <1>1 DEF Fresh, Listed, SetUp, Working
  <2> QED BY <1>2, <1>4, <2>2, <2>3, <2>4, <2>5 DEF AInv
<1> QED BY <1>5, <1>6, <1>7

\* An abandoned run leaves types only.
LEMMA AbandonSteps == ASSUME AInv, PastEnd \/ KillGroup PROVE AInv'
<1>1. /\ main_pc' = "crashed" /\ abandoned' = TRUE
      /\ UNCHANGED <<coreVars, creation, it, names, signals>>
      /\ status' \in {status, [p \in Children |-> IF p \in Running THEN "zombie" ELSE status[p]]}
  BY DEF PastEnd, KillGroup, MainGoto
<1>2. CoreTypes'
  BY <1>1, CoreUnchanged DEF AInv, AppTypes
<1>3. status' \in [Children -> {"unborn", "running", "zombie", "reaped"}]
  BY <1>1 DEF AInv, AppTypes
<1>4. AppTypes'
  BY <1>1, <1>2, <1>3 DEF AInv, AppTypes, creation, names, signals
<1>5. SemRanges' /\ Fresh' /\ Untouched' /\ CoreInv' /\ Listed' /\ EscapedOnlyUnregistered'
  BY <1>1 DEF SemRanges, Fresh, Untouched, CoreInv, Listed, EscapedOnlyUnregistered,
     SetUp, Working
<1> QED BY <1>4, <1>5 DEF AInv

LEMMA RunAgainStep == ASSUME AInv, RunAgain PROVE AInv'
<1>1. /\ ~MainAlive /\ main_pc' = "shm_open" /\ next' = 1 /\ list' = <<>> /\ it' = 1
      /\ copy' = [p \in Children |-> {}] /\ status' = [p \in Children |-> "unborn"]
      /\ held' = {} /\ sigint' = {} /\ sigterm' = {}
      /\ UNCHANGED <<ringVars, semVars, linked, abandoned>>
  BY DEF RunAgain
<1>2. /\ pc' = [p \in Children |-> "acquire"] /\ i' = [p \in Children |-> 0]
      /\ value' = [c \in Consumers |-> 0] /\ queue' = <<>> /\ dropped' = 0
  BY DEF RunAgain
<1>3. Running' = {}
  BY <1>1 DEF Running
<1>4. CoreTypes'
  <2>1. RingTypeOK' /\ sem_mutex' \in Nat /\ sem_full' \in Nat /\ sem_empty' \in Nat
    BY <1>1 DEF AInv, AppTypes, CoreTypes, RingTypeOK, ringVars, semVars
  <2> QED BY <1>2, <2>1 DEF CoreTypes, Labels
<1>5. AppTypes'
  <2>1. Len(CreationOrder) \in Nat
    BY AppAssumption
  <2>2. next' \in 1 .. Len(CreationOrder) + 1 /\ Len(list') + it' <= next' /\ it' \in Nat \ {0}
        /\ list' \in Seq(Children)
    BY <1>1, <2>1
  <2> QED BY <1>1, <1>4, <2>2 DEF AInv, AppTypes, SetUp
<1>6. SemRanges'
  BY <1>1 DEF AInv, SemRanges, semVars
<1>7. main_pc \notin Working
  BY <1>1 DEF MainAlive, Working
<1>8. Untouched'
  BY <1>1, <1>3, <1>7 DEF AInv, Untouched, Working, semVars
<1>9. Fresh'
  BY <1>1, <1>2, <1>3 DEF Fresh
<1>10. CoreInv' /\ Listed' /\ EscapedOnlyUnregistered'
  BY <1>1, <1>3 DEF CoreInv, Listed, EscapedOnlyUnregistered, SetUp, Working
<1> QED BY <1>5, <1>6, <1>8, <1>9, <1>10 DEF AInv

-------------------------------------------------------------------------------
\* What the end of a child, or a step that changes no child's status, keeps.
LEMMA RunningShrinks ==
  ASSUME AInv, Running' \subseteq Running, main_pc \notin SetUp,
         UNCHANGED <<main_pc, creation, it>>,
         \A p \in Children : status[p] = "reaped" => status'[p] = "reaped",
         Running' \cap (sigterm \cup sigint) \subseteq sigterm' \cup sigint'
  PROVE  Fresh' /\ Listed' /\ EscapedOnlyUnregistered'
<1>1. Fresh'
  BY DEF Fresh
<1>2. Listed'
  <2>1. main_pc = "erase" => list[it] \in Children
    BY DEF AInv, AppTypes, Listed
  <2> QED BY <2>1 DEF AInv, Listed, creation, Elements
<1>3. EscapedOnlyUnregistered'
  BY DEF AInv, EscapedOnlyUnregistered, creation, Running
<1> QED BY <1>1, <1>2, <1>3

LEMMA ChildStepStep == ASSUME AInv, NEW p \in Children, ChildStep(p) PROVE AInv'
<1>1. /\ p \in Running
      /\ (p \in Producers /\ Producer(p)) \/ (p \in Consumers /\ Consumer(p))
      /\ status' = [status EXCEPT ![p] = IF pc'[p] = "exited" THEN "zombie" ELSE @]
      /\ UNCHANGED <<main_pc, creation, it, names, signals, abandoned>>
  <2>1. /\ status' = [status EXCEPT ![p] = IF pc'[p] = "exited" THEN "zombie" ELSE @]
        /\ UNCHANGED <<main_pc, creation, it, names, signals, environment>>
    BY DEF ChildStep
  <2>2. /\ p \in Running
        /\ (p \in Producers /\ Producer(p)) \/ (p \in Consumers /\ Consumer(p))
    BY DEF ChildStep
  <2> QED BY <2>1, <2>2 DEF environment
<1>2. main_pc \notin SetUp
  BY <1>1 DEF AInv, Fresh
<1>3. [Next]_coreVars
  BY <1>1 DEF Next
<1>4. ~abandoned => IInv /\ IInv'
  BY <1>1, <1>2, <1>3, IInvStep DEF AInv, CoreInv
<1>5. CoreTypes' /\ SemRanges'
  <2>1. CoreTypes'
    BY <1>1, CoreTypesStep DEF AInv, AppTypes
  <2>2. IInv' => TypeOK'
    BY IInvTypeOK, PTL
  <2> QED BY <1>1, <1>4, <2>1, <2>2 DEF SemRanges, TypeOK
<1>6. /\ Running' \subseteq Running
      /\ status' \in [Children -> {"unborn", "running", "zombie", "reaped"}]
      /\ \A q \in Children : status[q] = "reaped" => status'[q] = "reaped"
  BY <1>1 DEF AInv, AppTypes, Running
<1>7. AppTypes'
  BY <1>1, <1>5, <1>6 DEF AInv, AppTypes, creation, names, signals
<1>8. Fresh' /\ Listed' /\ EscapedOnlyUnregistered'
  BY <1>1, <1>2, <1>6, RunningShrinks DEF signals
<1>9. Untouched'
  BY <1>1 DEF AInv, Untouched, Working, SemNames, names
<1>10. CoreInv'
  BY <1>1, <1>4 DEF CoreInv
<1> QED BY <1>5, <1>7, <1>8, <1>9, <1>10 DEF AInv

LEMMA SignalSteps ==
  ASSUME AInv, NEW p \in Children, ChildHandlesSigint(p) \/ Terminate(p)
  PROVE  AInv'
<1>1. /\ p \in Running /\ status' = [status EXCEPT ![p] = "zombie"]
      /\ UNCHANGED <<coreVars, main_pc, creation, it, held, abandoned>>
      /\ linked' \in {linked, {}}
      /\ sigint \ {p} \subseteq sigint' /\ sigint' \subseteq sigint
      /\ sigterm \ {p} \subseteq sigterm' /\ sigterm' \subseteq sigterm \cup Running
  BY DEF ChildHandlesSigint, Terminate, Kill, environment, names
<1>2. main_pc \notin SetUp
  BY <1>1 DEF AInv, Fresh
<1>3. CoreTypes' /\ SemRanges'
  BY <1>1, CoreUnchanged DEF AInv, AppTypes, SemRanges, coreVars, semVars
<1>4. /\ Running' = Running \ {p} /\ Running \subseteq Children
      /\ status' \in [Children -> {"unborn", "running", "zombie", "reaped"}]
      /\ \A q \in Children : status[q] = "reaped" => status'[q] = "reaped"
  BY <1>1 DEF AInv, AppTypes, Running
<1>5. AppTypes'
  BY <1>1, <1>3, <1>4 DEF AInv, AppTypes, creation
<1>6. Fresh' /\ Listed' /\ EscapedOnlyUnregistered'
  BY <1>1, <1>2, <1>4, RunningShrinks
<1>7. Untouched'
  BY <1>1, <1>4 DEF AInv, Untouched, coreVars, semVars
<1>8. CoreInv'
  BY <1>1, <1>4, CoreUnchanged DEF AInv, CoreInv
<1> QED BY <1>3, <1>5, <1>6, <1>7, <1>8 DEF AInv

LEMMA InterruptStep == ASSUME AInv, Interrupt \/ UNCHANGED appVars PROVE AInv'
<1>1. /\ sigint \subseteq sigint' /\ sigint' \subseteq sigint \cup {Main} \cup Running
      /\ UNCHANGED <<coreVars, main_pc, creation, it, status, names, sigterm, abandoned>>
  BY DEF Interrupt, appVars, signals, environment
<1>2. CoreTypes' /\ SemRanges'
  BY <1>1, CoreUnchanged DEF AInv, AppTypes, SemRanges, coreVars, semVars
<1>3. Running' = Running /\ Running \subseteq Children
  BY <1>1 DEF Running
<1>4. AppTypes'
  BY <1>1, <1>2, <1>3 DEF AInv, AppTypes, creation, names
<1>5. Fresh'
  <2>1. UNCHANGED <<ringVars, pc, i, value, queue, dropped, linked, held>>
    BY <1>1 DEF coreVars, history, names
  <2>2. RingInit => RingInit'
    BY <2>1 DEF RingInit, ringVars
  <2> QED BY <1>1, <1>3, <2>1, <2>2 DEF AInv, Fresh
<1>6. Untouched' /\ Listed'
  <2>1. Untouched'
    BY <1>1, <1>3 DEF AInv, Untouched, coreVars, semVars, names
  <2>2. Listed'
    BY <1>1, <1>3 DEF AInv, Listed, Elements, creation
  <2> QED BY <2>1, <2>2
<1>7. EscapedOnlyUnregistered'
  BY <1>1, <1>3 DEF AInv, EscapedOnlyUnregistered, creation
<1>8. CoreInv'
  BY <1>1, <1>3, CoreUnchanged DEF AInv, CoreInv
<1> QED BY <1>2, <1>4, <1>5, <1>6, <1>7, <1>8 DEF AInv

-------------------------------------------------------------------------------
LEMMA AppNextAInv == AInv /\ [AppNext]_appVars => AInv'
<1> SUFFICES ASSUME AInv, [AppNext]_appVars PROVE AInv'
  OBVIOUS
<1>1. CASE MainStep
  BY <1>1, ShmSteps, MapRingStep, OpenSemsStep, CheckSemsStep, ForkStep, RegisterStep,
     WaitSteps, EraseStep, CleanupStep DEF MainStep
<1>2. CASE PastEnd \/ KillGroup \/ MainHandlesSigint \/ RunAgain
  BY <1>2, AbandonSteps, HandlerStep, RunAgainStep
<1>3. CASE \E p \in Children : Process(p)
  BY <1>3, ChildStepStep, SignalSteps DEF Process
<1>4. CASE Interrupt \/ UNCHANGED appVars
  BY <1>4, InterruptStep
<1> QED BY <1>1, <1>2, <1>3, <1>4 DEF AppNext

LEMMA AInvHolds == AppSpec => []AInv
  BY AppInitAInv, AppNextAInv, PTL DEF AppSpec

\* After SIGINT to main alone only the child whose push_back (main.cpp:67, :90) had
\* not run yet can live on, for any number of children and of runs.
THEOREM EscapedOnlyUnregisteredHolds == AppSpec => []EscapedOnlyUnregistered
  BY AInvHolds, PTL DEF AInv

\* Unless a run was cut off before its clean-up, the processes of every run, of any
\* number of runs, have mutual exclusion, the unit accounting and the FIFO order:
\* what an interrupted set-up leaves of the semaphores is as good as new.
THEOREM CoreHoldsInApp == AppSpec => []CoreHolds
<1>1. AInv => AppTypeOK
  <2> SUFFICES ASSUME AInv PROVE AppTypeOK
    OBVIOUS
  <2>1. RingTypeOK /\ {sem_mutex, sem_full, sem_empty} \subseteq Nat
    BY DEF AInv, AppTypes, CoreTypes
  <2>2. ~abandoned => TypeOK
    BY DEF AInv, AppTypes, CoreTypes, SemRanges, TypeOK
  <2>3. it \in 1 .. Len(CreationOrder) + 1
    BY AppAssumption DEF AInv, AppTypes
  <2> QED BY <2>1, <2>2, <2>3 DEF AInv, AppTypes, AppTypeOK, SetUp, Working
<1>2. AInv => (Running # {} /\ ~abandoned => MutualExclusion /\ Accounting /\ FifoUntilFirstDrop)
  <2>1. AInv /\ Running # {} => main_pc \notin SetUp
    BY DEF AInv, Fresh
  <2> QED BY <2>1, IInvFifo DEF AInv, CoreInv, IInv
<1>3. AInv => CoreHolds
  BY <1>1, <1>2 DEF CoreHolds
<1> QED BY <1>3, AInvHolds, PTL
===============================================================================
