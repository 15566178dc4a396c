------------------------------- MODULE RuleLife -------------------------------
(***************************************************************************)
(* What the rule engine promises of a rule, as if its table and eKuiper    *)
(* were one store: a rule is made, then listed; it runs and stops only     *)
(* while it is listed, where clients can reach it; it is dropped while it  *)
(* is listed, and taken off the list after that; and a rule once dropped   *)
(* is never made, listed or run again.                                     *)
(***************************************************************************)
CONSTANT Rule

VARIABLES does,   \* [Rule -> what the rule does]
          listed  \* the rules clients can see

vars == <<does, listed>>

Init ==
    /\ does = [r \in Rule |-> "none"]
    /\ listed = {}

\* r does `old', and from now on does `new'.
Turns(r, old, new) ==
    /\ does[r] \in old
    /\ does' = [does EXCEPT ![r] = new]
    /\ UNCHANGED listed

Make(r) == r \notin listed /\ Turns(r, {"none"}, "stopped")

List(r) ==
    /\ r \notin listed
    /\ does[r] = "stopped"
    /\ listed' = listed \cup {r}
    /\ UNCHANGED does

Run(r)  == r \in listed /\ Turns(r, {"stopped"}, "running")
Stop(r) == r \in listed /\ Turns(r, {"running"}, "stopped")
Drop(r) == r \in listed /\ Turns(r, {"stopped", "running"}, "dropped")

Unlist(r) ==
    /\ r \in listed
    /\ does[r] = "dropped"
    /\ listed' = listed \ {r}
    /\ UNCHANGED does

Next == \E r \in Rule : Make(r) \/ List(r) \/ Run(r) \/ Stop(r) \/ Drop(r) \/ Unlist(r)

Spec == Init /\ [][Next]_vars
=============================================================================
