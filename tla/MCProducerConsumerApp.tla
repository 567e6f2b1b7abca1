------------------------- MODULE MCProducerConsumerApp -------------------------
(***************************************************************************)
(* ProducerConsumerApp with the three producers and the consumer of main() *)
(* for the runs that look for one behaviour, and with one producer and one *)
(* consumer where disturbances and runs of the program multiply.           *)
(***************************************************************************)
EXTENDS ProducerConsumerApp

CONSTANTS p1, p2, p3, c1

MCProducers == {p1, p2, p3}
MCConsumers == {c1}
MCCreationOrder == <<p1, p2, p3, c1>>

MCPairProducers == {p1}
MCPairOrder == <<p1, c1>>
===============================================================================
