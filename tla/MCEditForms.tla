---------------------------- MODULE MCEditForms ----------------------------
(***************************************************************************)
(* Every form of the dashboard with two records.                           *)
(***************************************************************************)
EXTENDS EditForms, DashboardForms, TLC

CONSTANTS r1, r2

MCRecord == {r1, r2}
Symmetry == Permutations(MCRecord)
=============================================================================
