--------------------------- MODULE MCReadersWriters ---------------------------
(***************************************************************************)
(* ReadersWriters with the three readers and the two writers of main()     *)
(***************************************************************************)
EXTENDS ReadersWriters

CONSTANTS r1, r2, r3, w1, w2

MCReaders == {r1, r2, r3}
MCWriters == {w1, w2}
===============================================================================
