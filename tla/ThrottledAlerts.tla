--------------------------- MODULE ThrottledAlerts ---------------------------
(***************************************************************************)
(* What the alert centre promises of the alerts it keeps, whatever becomes *)
(* of rules and of eKuiper: an alert comes of a report that has found its  *)
(* rule among those that are listed, and each report makes one at most, so *)
(* that a rule that is deleted raises one more at most; it comes when the  *)
(* silence time the report was tested for has gone by since the rule's     *)
(* last alert; and alerts are only ever added.                             *)
(***************************************************************************)
EXTENDS Naturals, Sequences

CONSTANTS Rule, Silence

VARIABLES life,    \* [Rule -> whether the rule is new, listed or taken off the list]
          inHand,  \* the rules a report has found, and is being dealt with
          alerts,  \* [Rule -> its alerts, the newest last]
          now      \* the time

vars == <<life, inHand, alerts, now>>

Init ==
    /\ life = [r \in Rule |-> "new"]
    /\ inHand = {}
    /\ alerts = [r \in Rule |-> <<>>]
    /\ now = 0

Becomes(r, old, new) ==
    /\ life[r] = old
    /\ life' = [life EXCEPT ![r] = new]
    /\ UNCHANGED <<inHand, alerts, now>>

List(r)   == Becomes(r, "new", "issued")
Unlist(r) == Becomes(r, "issued", "erased")

Find(r) ==
    /\ life[r] = "issued"
    /\ r \notin inHand
    /\ inHand' = inHand \cup {r}
    /\ UNCHANGED <<life, alerts, now>>

\* The silence time s has passed since the last alert of r.
Passed(r, s) == alerts[r] # <<>> => alerts[r][Len(alerts[r])].created + s <= now

Raise(r) ==
    /\ r \in inHand
    /\ \E s \in Silence :
         /\ Passed(r, s)
         /\ alerts' = [alerts EXCEPT ![r] = Append(@, [created |-> now, silence |-> s])]
    /\ inHand' = inHand \ {r}
    /\ UNCHANGED <<life, now>>

\* Reports that come too soon, fail or are lost.
Forget ==
    /\ \E some \in SUBSET inHand : inHand' = inHand \ some
    /\ UNCHANGED <<life, alerts, now>>

Tick ==
    /\ now' = now + 1
    /\ UNCHANGED <<life, inHand, alerts>>

Next ==
    \/ \E r \in Rule : List(r) \/ Unlist(r) \/ Find(r) \/ Raise(r)
    \/ Forget
    \/ Tick

Spec == Init /\ [][Next]_vars
=============================================================================
