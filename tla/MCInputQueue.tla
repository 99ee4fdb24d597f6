---------------------------- MODULE MCInputQueue ----------------------------
(***************************************************************************)
(* Instances of InputQueue: which messages there are, in which groups and  *)
(* with which contents.                                                    *)
(***************************************************************************)
EXTENDS InputQueue

\* The messages of one wallet.
OneGroup == [m \in Messages |-> "w1"]

\* The first can never be recorded and keeps the second back, whose identity another
\* request may take meanwhile.
PoisonFirst == [m \in Messages |-> IF m = 1 THEN "unrecordable" ELSE "rival"]
=============================================================================
