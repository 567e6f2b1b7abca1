----------------------------- MODULE MCFifoGather -----------------------------
(***************************************************************************)
(* FifoGather with the three writers of ec6.                               *)
(***************************************************************************)
EXTENDS FifoGather

CONSTANTS a, b, c

MCForkOrder == <<a, b, c>>
===============================================================================
