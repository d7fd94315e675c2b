---------------------------- MODULE GroupPromise ----------------------------
(***************************************************************************)
(* What the operation log promises about a group while only routers fail:  *)
(* nobody sees a group that is applied, failed or undone in between. While *)
(* its request runs anything may be in force; afterwards either all of it  *)
(* is (applied) or nothing (failed), it only ever becomes less, and it is  *)
(* called undone when it is gone. A group whose reversal got stuck is left *)
(* to the administrator (requires_attention).                              *)
(***************************************************************************)
EXTENDS Naturals

CONSTANTS
    Groups,
    Size       \* Size[g]: the number of operations of group g

VARIABLES
    fate,      \* what the log says of a group
    inForce    \* the operations of it that are in force on the routers

vars == <<fate, inForce>>

Init ==
    /\ fate = [g \in Groups |-> "none"]
    /\ inForce = [g \in Groups |-> {}]

Settle(g, from, to) ==
    /\ fate[g] \in from
    /\ fate' = [fate EXCEPT ![g] = to]
    /\ UNCHANGED inForce

Begin(g) == Settle(g, {"none"}, "open")

Work(g) ==
    /\ fate[g] = "open"
    /\ \E S \in SUBSET (1..Size[g]) : inForce' = [inForce EXCEPT ![g] = S]
    /\ UNCHANGED fate

Applied(g) == inForce[g] = 1..Size[g] /\ Settle(g, {"open"}, "applied")

Failed(g) == inForce[g] = {} /\ Settle(g, {"open"}, "failed")

Reverse(g) ==
    /\ fate[g] \in {"applied", "requires_attention"}
    /\ \E k \in inForce[g] : inForce' = [inForce EXCEPT ![g] = @ \ {k}]
    /\ UNCHANGED fate

Undone(g) ==
    inForce[g] = {} /\ Settle(g, {"applied", "requires_attention"}, "undone")

\* Also of a group that is undone, when a second Undo of it was under way.
Stuck(g) == Settle(g, {"open", "applied", "undone"}, "requires_attention")

Next ==
    \E g \in Groups :
        \/ Begin(g) \/ Work(g) \/ Applied(g) \/ Failed(g)
        \/ Reverse(g) \/ Undone(g) \/ Stuck(g)

Spec == Init /\ [][Next]_vars

=============================================================================
