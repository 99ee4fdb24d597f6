-------------------------- MODULE MCReferenceRetry --------------------------
(***************************************************************************)
(* Instances of ReferenceRetry: the clocks of the replicas.                *)
(***************************************************************************)
EXTENDS ReferenceRetry

\* Half a second behind and half a second ahead.
Around == [r \in Replicas |-> IF r = 1 THEN -1 ELSE 1]
=============================================================================
