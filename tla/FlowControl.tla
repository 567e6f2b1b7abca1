----------------------------- MODULE FlowControl ------------------------------
(***************************************************************************)
(* What the ring and the semaphores of semaphore/producer_consumer promise *)
(* together: a bounded channel.  A value is added only while fewer than    *)
(* Capacity are outstanding, a taker gets one only while there is one to   *)
(* take, and it gets the oldest, for as long as the channel is intact.     *)
(* The channel has places for Capacity - 1 values: the first value added   *)
(* when all of them are taken is lost, and from then on nothing is         *)
(* promised about which values come out.                                   *)
(***************************************************************************)
EXTENDS Integers, Sequences

CONSTANTS Capacity, Values, Takers

VARIABLES
  queue,         \* values added and not taken, oldest first
  intact,        \* no value was lost so far
  delivered      \* what each taker holds: <<>> or <<value>>

vars == <<queue, intact, delivered>>

Init ==
  /\ queue = <<>>
  /\ intact = TRUE
  /\ delivered = [c \in Takers |-> <<>>]

Put(v) ==
  /\ Len(queue) < Capacity
  /\ queue' = Append(queue, v)
  /\ intact' = (intact /\ Len(queue) < Capacity - 1)
  /\ UNCHANGED delivered

Get(c) ==
  /\ queue # <<>>
  /\ delivered[c] = <<>>
  /\ \E v \in Values :
       /\ intact => v = Head(queue)
       /\ delivered' = [delivered EXCEPT ![c] = <<v>>]
  /\ queue' = Tail(queue)
  /\ UNCHANGED intact

Finish(c) ==
  /\ delivered[c] # <<>>
  /\ delivered' = [delivered EXCEPT ![c] = <<>>]
  /\ UNCHANGED <<queue, intact>>

Next ==
  \/ \E v \in Values : Put(v)
  \/ \E c \in Takers : Get(c) \/ Finish(c)

Spec == Init /\ [][Next]_vars
===============================================================================
