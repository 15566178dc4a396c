---------------------------- MODULE MCAlertCentre -----------------------------
(* The instance of AlertCentre that TLC checks. *)
EXTENDS AlertCentre, TLC

\* Nothing tells the clients apart, and the run checks safety only.
ClientsAlike == Permutations(Clients)
=============================================================================
