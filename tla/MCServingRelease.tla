-------------------------- MODULE MCServingRelease --------------------------
(* Three local releases for TLC, with one gazetteer or with one that grows   *)
(* with the last of them.                                                  *)
EXTENDS ServingRelease

CONSTANTS north, grown

SamePlaces == [r \in Releases |-> north]
GrownPlaces == [r \in Releases |-> IF r = 3 THEN grown ELSE north]
=============================================================================
