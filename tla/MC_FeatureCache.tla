--------------------------- MODULE MC_FeatureCache ---------------------------
(***************************************************************************)
(* A small instance of FeatureCache: two consumers of one topic, one group.  *)
(***************************************************************************)
EXTENDS FeatureCache, TLC

CONSTANTS g1, c1, c2

BothOfOneTopic == c1 :> g1 @@ c2 :> g1
OneTtl == g1 :> 2

=============================================================================
