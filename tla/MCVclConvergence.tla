-------------------------- MODULE MCVclConvergence --------------------------
(***************************************************************************)
(* Instances of VclConvergence for TLC.  "bad" is a content whose VCL does *)
(* not compile, "dry" one with a backend that has no endpoint.             *)
(***************************************************************************)
EXTENDS VclConvergence

MCNames == [content : Contents, peers : SUBSET Pods, order : Orders]

MCBroken == {n \in MCNames : n.content = "bad"}

MCStarved == Contents \cap {"dry"}

=============================================================================
