---------------------------- MODULE RequestReply ----------------------------
(***************************************************************************)
(* What a page promises that asks for one thing at a time: while a request *)
(* is waited for no other is made, and a request ends with the answer to   *)
(* that request or with none, and ends once.                               *)
(***************************************************************************)
CONSTANTS Request, NoRequest

VARIABLES waiting,   \* the request waited for, or NoRequest
          made,      \* the requests made so far
          answer     \* [Request -> the request its answer was about]

Init ==
    /\ waiting = NoRequest
    /\ made = {}
    /\ answer = [r \in Request |-> NoRequest]

Ask(r) ==
    /\ waiting = NoRequest
    /\ r \notin made
    /\ made' = made \cup {r}
    /\ waiting' = r
    /\ UNCHANGED answer

Answer(r) ==
    /\ waiting = r
    /\ waiting' = NoRequest
    /\ answer' = [answer EXCEPT ![r] = r]
    /\ UNCHANGED made

\* A request that cannot even be sent ends in the step that makes it.
Refuse(r) ==
    /\ waiting = NoRequest
    /\ r \notin made
    /\ made' = made \cup {r}
    /\ UNCHANGED <<waiting, answer>>

Next == \E r \in Request : Ask(r) \/ Answer(r) \/ Refuse(r)

Spec == Init /\ [][Next]_<<waiting, made, answer>>
=============================================================================
