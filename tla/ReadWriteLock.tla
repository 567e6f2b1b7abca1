---------------------------- MODULE ReadWriteLock -----------------------------
(***************************************************************************)
(* What semaphore/reader_writer promises (main.cpp:22-28): any number of   *)
(* readers at once while no writer writes, and a writer only alone.        *)
(***************************************************************************)
CONSTANTS Readers, Writers

VARIABLES reading, writing     \* the threads inside the resource

Init == reading = {} /\ writing = {}

StartRead(r) ==
  /\ r \notin reading /\ writing = {}
  /\ reading' = reading \cup {r} /\ UNCHANGED writing

EndRead(r) ==
  /\ r \in reading
  /\ reading' = reading \ {r} /\ UNCHANGED writing

StartWrite(w) ==
  /\ reading = {} /\ writing = {}
  /\ writing' = {w} /\ UNCHANGED reading

EndWrite(w) ==
  /\ w \in writing
  /\ writing' = writing \ {w} /\ UNCHANGED reading

Next ==
  \/ \E r \in Readers : StartRead(r) \/ EndRead(r)
  \/ \E w \in Writers : StartWrite(w) \/ EndWrite(w)

Spec == Init /\ [][Next]_<<reading, writing>>
===============================================================================
