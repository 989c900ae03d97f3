--------------------------- MODULE AlertLifecycle ---------------------------
(***************************************************************************)
(* What the bot promises about an alert, without claims, workers, retries, *)
(* time or faults.  An alert is armed until it is sent, fails or is        *)
(* cancelled; while it is armed a series may move to its next occurrence;  *)
(* the chat receives copies of the occurrences the alert has reached, at   *)
(* least one of the occurrence it is closed as sent on.                    *)
(***************************************************************************)
EXTENDS Naturals

CONSTANTS Alerts, Recurring, LastOccurrence

VARIABLES
    stage,      \* "none", "armed", or one of the terminal states
    position,   \* the occurrence an armed alert will fire next
    copies      \* copies of each occurrence that reached the chat

alertVars == <<stage, position, copies>>

Init ==
    /\ stage = [a \in Alerts |-> "none"]
    /\ position = [a \in Alerts |-> 0]
    /\ copies = [a \in Alerts |-> [k \in 0 .. LastOccurrence |-> 0]]

Arm(a) ==
    /\ stage[a] = "none"
    /\ stage' = [stage EXCEPT ![a] = "armed"]
    /\ UNCHANGED <<position, copies>>

\* A late attempt may ring an alert that is over, or a past occurrence.
Ring(a) ==
    /\ stage[a] # "none"
    /\ \E k \in 0 .. position[a] :
        copies' = [copies EXCEPT ![a][k] = @ + 1]
    /\ UNCHANGED <<stage, position>>

MoveOn(a) ==
    /\ stage[a] = "armed" /\ a \in Recurring
    /\ position[a] < LastOccurrence
    /\ position' = [position EXCEPT ![a] = @ + 1]
    /\ UNCHANGED <<stage, copies>>

Close(a, how) ==
    /\ stage[a] = "armed"
    /\ how = "sent" => copies[a][position[a]] > 0
    /\ stage' = [stage EXCEPT ![a] = how]
    /\ UNCHANGED <<position, copies>>

Resolve(a) ==
    MoveOn(a) \/ \E how \in {"sent", "failed", "cancelled"} : Close(a, how)

Next == \E a \in Alerts : Arm(a) \/ Ring(a) \/ Resolve(a)

\* No armed alert stays where it is for ever.
Spec == Init /\ [][Next]_alertVars
FairSpec == Spec /\ \A a \in Alerts : WF_alertVars(Resolve(a))
=============================================================================
