--------------------------- MODULE MCCampaignView ---------------------------
EXTENDS CampaignView, TLC

CONSTANTS t1, t2, s1, s2

MCTargets == {t1, t2}
MCStages == {s1, s2}

MCSymmetry == Permutations(MCTargets) \cup Permutations(MCStages)
=============================================================================
