------------------------------ MODULE AnswerBox ------------------------------
(***************************************************************************)
(* What a call to a device promises: the driver is asked at most once, its *)
(* answer is put at most once into a box of the call's own, and only the   *)
(* call takes it out, once, before it ends; a call ends once, with the     *)
(* answer or without.  There are no locks, no channels and no map of       *)
(* message ids here.                                                       *)
(***************************************************************************)
CONSTANT Call

VARIABLES asked,   \* the calls whose command has reached the driver
          box,     \* [Call -> what has become of the answer's place]
          outcome  \* [Call -> how the call has ended, or "pending"]

vars == <<asked, box, outcome>>

Init ==
    /\ asked = {}
    /\ box = [c \in Call |-> "empty"]
    /\ outcome = [c \in Call |-> "pending"]

Ask(c) ==
    /\ c \notin asked
    /\ outcome[c] = "pending"
    /\ asked' = asked \cup {c}
    /\ UNCHANGED <<box, outcome>>

\* The call may have ended without it.
Put(c) ==
    /\ c \in asked
    /\ box[c] = "empty"
    /\ box' = [box EXCEPT ![c] = "full"]
    /\ UNCHANGED <<asked, outcome>>

Take(c) ==
    /\ box[c] = "full"
    /\ outcome[c] = "pending"
    /\ box' = [box EXCEPT ![c] = "taken"]
    /\ outcome' = [outcome EXCEPT ![c] = "answer"]
    /\ UNCHANGED asked

\* The call gives up; it may shut its box for good, unless the answer is in it.
Leave(c) ==
    /\ outcome[c] = "pending"
    /\ outcome' = [outcome EXCEPT ![c] = "none"]
    /\ box' \in {box, [box EXCEPT ![c] = IF @ = "empty" THEN "shut" ELSE @]}
    /\ UNCHANGED asked

Next == \E c \in Call : Ask(c) \/ Put(c) \/ Take(c) \/ Leave(c)

Spec == Init /\ [][Next]_vars
=============================================================================
