-------------------------- MODULE DeliveryRefinement -------------------------
(***************************************************************************)
(* Delivery keeps the promise of OrderedDelivery: the log is the room's    *)
(* stream in Redis, the cursor is the lastSequence of the URL, and what a  *)
(* connection is sent are the content_update frames written to its socket. *)
(***************************************************************************)
EXTENDS Delivery

LogOfStream    == [i \in 1 .. Len(stream) |-> stream[i].base]
CursorOf       == [c \in Conns |-> handler[c].cursor]
SentOnWire     == [c \in Conns |-> wire[c].updates]

Promise == INSTANCE OrderedDelivery
  WITH log <- LogOfStream, cursor <- CursorOf, sent <- SentOnWire

(* Every step of the backends, of Redis and of the failures is a step of   *)
(* the promise, or none of its business (README.md:65-79).                 *)
KeepsPromise == Promise!Spec
=============================================================================
