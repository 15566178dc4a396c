--------------------------- MODULE MCSceneLinkage ---------------------------
(***************************************************************************)
(* Instances of SceneLinkage for TLC.                                      *)
(***************************************************************************)
EXTENDS SceneLinkage, TLC

CONSTANTS s1, s2, s3

\* Two timer scenes beside a notify scene, and a scene whose condition changes its type.
Apart   == s1 :> {"timer"} @@ s2 :> {"timer"} @@ s3 :> {"notify"}
AnyKind == [s \in Scenes |-> {"timer", "notify", "other"}]
=============================================================================
