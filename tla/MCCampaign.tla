----------------------------- MODULE MCCampaign -----------------------------
(***************************************************************************)
(* Instances of CampaignEngine for TLC.                                    *)
(***************************************************************************)
EXTENDS CampaignInvariant, TLC

CONSTANT l1     \* one of the leads

\* Every lead has an address or number for every step.
AllReachable == Leads \X Positions

\* l1 has none for the second step: that step is skipped for it.
SecondUnreachable == (Leads \X Positions) \ {<<l1, 2>>}

\* Instances are interchangeable.
Symmetry == Permutations(Instances)
=============================================================================
