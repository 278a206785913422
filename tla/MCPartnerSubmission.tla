------------------------- MODULE MCPartnerSubmission -------------------------
EXTENDS PartnerSubmission, TLC
Symmetry == Permutations(Portals)
==============================================================================
