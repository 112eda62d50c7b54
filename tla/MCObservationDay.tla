--------------------------- MODULE MCObservationDay ---------------------------
(* A closed day that the owner prepares all the same, then a half-day with a *)
(* slot before and one after its close: a run the pinned worker is owed from *)
(* the one may come on the other.  After the last slot there is a time from  *)
(* which the match window reaches none.                                      *)
EXTENDS ObservationDay

MCOpen == {1}
MCEarly == {1}
MCSlots == {1, 4}
MCPrepared == {0}
=============================================================================
