------------------------------ MODULE RingBuffer ------------------------------
(***************************************************************************)
(* The ring of integers that semaphore/producer_consumer keeps in shared   *)
(* memory.  One slot always stays free: the ring is full when the next     *)
(* write would make the two indices equal, so it holds at most             *)
(* BUF_SIZE - 1 values.  push and pop are two steps each, the access to    *)
(* the slot and the move of the index, because nothing in the ring itself  *)
(* keeps two callers apart.                                                *)
(***************************************************************************)
EXTENDS Integers, Sequences

CONSTANT BUF_SIZE        \* slots of the array, 10 in the code

ASSUME BufSizeAssumption == BUF_SIZE \in Nat \ {0}

VARIABLES
  buffer,        \* the slots
  write_index,   \* next slot to fill
  read_index     \* next slot to empty

ringVars == <<buffer, write_index, read_index>>

Slots == 0 .. BUF_SIZE - 1

\* Mutants: a ring that is never full, a pop that looks whether there is a value
NeverFull == FALSE
AdvanceReadUnlessEmpty ==
  /\ read_index' = IF write_index = read_index THEN read_index
                   ELSE (read_index + 1) % BUF_SIZE
  /\ UNCHANGED <<buffer, write_index>>

NextIndex(i) == (i + 1) % BUF_SIZE

RingInit ==
  /\ buffer = [s \in Slots |-> 0]
  /\ write_index = 0
  /\ read_index = 0

is_empty == write_index = read_index

is_full == NextIndex(write_index) = read_index

\* The values between the two indices, oldest first.
Contents ==
  [k \in 1 .. (write_index + BUF_SIZE - read_index) % BUF_SIZE |->
     buffer[(read_index + k - 1) % BUF_SIZE]]

\* push: store the value in the free slot, then publish it.
Store(v) ==
  /\ buffer' = [buffer EXCEPT ![write_index] = v]
  /\ UNCHANGED <<write_index, read_index>>

AdvanceWrite ==
  /\ write_index' = NextIndex(write_index)
  /\ UNCHANGED <<buffer, read_index>>

\* pop: the value under the read index, whether or not one was pushed there,
\* and the move of that index, whether or not the ring is empty.
Front == buffer[read_index]

AdvanceRead ==
  /\ read_index' = NextIndex(read_index)
  /\ UNCHANGED <<buffer, write_index>>

RingTypeOK ==
  /\ buffer \in [Slots -> Int]
  /\ write_index \in Slots
  /\ read_index \in Slots
===============================================================================
