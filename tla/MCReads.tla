------------------------------ MODULE MCReads ------------------------------
(***************************************************************************)
(* The instances of Wagering, with readers.                                *)
(***************************************************************************)
EXTENDS MCWagering, Reads
=============================================================================
