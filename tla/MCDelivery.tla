----------------------------- MODULE MCDelivery -----------------------------
(* Instances of Delivery for TLC. *)
EXTENDS DeliveryProperties, TLC

\* 5 << n, with the five-second base as one unit of time.
MCBackoff == [n \in 0 .. 6 |-> 2 ^ n]

\* Workers are interchangeable; so are no two alerts, one being a series.
WorkerSymmetry == Permutations(Workers)
=============================================================================
