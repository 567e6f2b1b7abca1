-------------------------------- MODULE Gathered --------------------------------
(***************************************************************************)
(* What several processes wrote into one FIFO, and what its reader         *)
(* printed: the promise of ec6 of pipe_fifo/main.cpp.                      *)
(***************************************************************************)
EXTENDS Integers, Sequences

VARIABLES
  written,        \* history: messages written, in order
  printed         \* messages the parent printed

\* What the parent prints is the beginning of what was written, in the order in
\* which it was written.
PrintsPrefix ==
  /\ Len(printed) <= Len(written)
  /\ \A n \in DOMAIN printed : printed[n] = written[n]
===============================================================================
