--------------------------- MODULE MCProducerConsumer --------------------------
(***************************************************************************)
(* ProducerConsumer on a small instance: the three producers and the one   *)
(* consumer that main() creates, a shorter loop and a shorter ring.        *)
(***************************************************************************)
EXTENDS ProducerConsumer

CONSTANTS p1, p2, p3, c1

MCProducers == {p1, p2, p3}
MCConsumers == {c1}
===============================================================================
