-------------------------- MODULE MC_RiskProfileApi --------------------------
(***************************************************************************)
(* Small instances of RiskProfileApi: GetRiskProfile over two groups,        *)
(* GetFeatureGroup for one of them, and for a group that does not exist.     *)
(***************************************************************************)
EXTENDS RiskProfileApi, TLC

CONSTANTS r1, r2, r3, g1, g2

\* A profile, a single group that competes with it, and a group that does not exist.
ProfileAndGroup == r1 :> {g1, g2} @@ r2 :> {g2} @@ r3 :> {}

=============================================================================
