---------------------------- MODULE MCLedgerPages ----------------------------
(***************************************************************************)
(* Instances of LedgerPages.                                               *)
(***************************************************************************)
EXTENDS LedgerPages

\* Left out, too small, fitting, and too large.
AnyLimit == {NONE, 0, 1, MaxLimit + 1}
=============================================================================
