-------------------------- MODULE MCArtifactPaths --------------------------
(* Two font repositories of one owner, one of them named versions. *)
EXTENDS ArtifactPaths

Named == {[owner |-> "foundry", repo |-> "versions", key |-> "1.0"],
          [owner |-> "foundry", repo |-> "sans", key |-> "1.0"]}

One == [k \in {"1.0"} |-> 1]
=============================================================================
