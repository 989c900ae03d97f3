--------------------------- MODULE MCChatHandlers ---------------------------
(* Instances of ChatHandlers for TLC. *)
EXTENDS ChatHandlersProperties, TLC

\* The ids of the table are interchangeable.
AlertSymmetry == Permutations(Alerts)
=============================================================================
