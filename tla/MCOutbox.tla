------------------------------ MODULE MCOutbox ------------------------------
(***************************************************************************)
(* Instances of Outbox.                                                    *)
(***************************************************************************)
EXTENDS Outbox

\* Each transaction writes an event of its own.
OneEach == [e \in Events |-> e]
=============================================================================
