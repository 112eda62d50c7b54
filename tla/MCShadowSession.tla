-------------------------- MODULE MCShadowSession --------------------------
EXTENDS ShadowSession

CONSTANTS a, b

Symmetry == Permutations(SampleIds)
=============================================================================
