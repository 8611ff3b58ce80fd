---------------------------- MODULE AlertDelivery ----------------------------
(***************************************************************************)
(* What the donation alert queue promises, without times, players, leases, *)
(* settings or speech: alerts are accepted in an order, assigned to a      *)
(* renderer one at a time and in that order, shown at most once, and       *)
(* closed for good.  Until a renderer commits to show an alert it may be   *)
(* taken back and wait again; afterwards it can only be closed.  Alerts    *)
(* may be closed without ever being shown.                                 *)
(***************************************************************************)
EXTENDS Integers

CONSTANT Alerts     \* the alerts, numbered in the order of acceptance

VARIABLE delivery

Stages  == {"unknown", "queued", "assigned", "shown", "closed"}
Engaged == {"assigned", "shown"}

Moves ==
    {<<"unknown", "queued">>, <<"queued", "assigned">>, <<"queued", "closed">>,
     <<"assigned", "queued">>, <<"assigned", "shown">>, <<"assigned", "closed">>,
     <<"shown", "closed">>}

Init == delivery = [a \in Alerts |-> "unknown"]

\* One step may move several alerts: closing old ones while taking a new one.
EachMoves ==
    \A a \in Alerts : \/ delivery'[a] = delivery[a]
                      \/ <<delivery[a], delivery'[a]>> \in Moves

AcceptedLast ==
    \A a, b \in Alerts : delivery[a] = "unknown" /\ delivery'[a] # "unknown"
                         /\ delivery[b] # "unknown" => b < a

OneEngaged ==
    \A a, b \in Alerts : delivery'[a] \in Engaged /\ delivery'[b] \in Engaged => a = b

AssignedInOrder ==
    \A a, b \in Alerts : delivery[a] = "queued" /\ delivery'[a] = "assigned"
                         /\ delivery'[b] = "queued" => a < b

Next ==
    /\ delivery' \in [Alerts -> Stages]
    /\ EachMoves /\ AcceptedLast /\ OneEngaged /\ AssignedInOrder

Spec == Init /\ [][Next]_delivery
=============================================================================
