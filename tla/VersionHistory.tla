--------------------------- MODULE VersionHistory ---------------------------
(***************************************************************************)
(* What arbokcore promises about the versions of a file: a slowly changing *)
(* dimension.  A version is drafted, at most one version of a file is live *)
(* at a time, and publishing a draft retires the version it was made from  *)
(* in the same step.                                                       *)
(***************************************************************************)
CONSTANTS Version, None

VARIABLES stage, parent

vars == <<stage, parent>>

Stage == {"none", "draft", "live", "retired"}

Init ==
  /\ stage = [v \in Version |-> "none"]
  /\ parent = [v \in Version |-> None]

MayFollow(p) == p = None \/ stage[p] = "live"

Draft(v, p) ==
  /\ stage[v] = "none"
  /\ MayFollow(p)
  /\ stage' = [stage EXCEPT ![v] = "draft"]
  /\ parent' = [parent EXCEPT ![v] = p]

Publish(v) ==
  /\ stage[v] = "draft"
  /\ MayFollow(parent[v])
  /\ stage' = [u \in Version |-> IF u = v THEN "live"
                                 ELSE IF u = parent[v] THEN "retired"
                                 ELSE stage[u]]
  /\ UNCHANGED parent

Next == \E v \in Version : Publish(v) \/ \E p \in Version \cup {None} : Draft(v, p)

Spec == Init /\ [][Next]_vars
=============================================================================
