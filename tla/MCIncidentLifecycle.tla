------------------------- MODULE MCIncidentLifecycle -------------------------
EXTENDS IncidentLifecycle

CONSTANTS r1, r2
=============================================================================
