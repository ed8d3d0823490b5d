--------------------------- MODULE MCArtistImages --------------------------
(* ArtistImages with two names.  Two acts called red have photos and no     *)
(* title in common; of the one called bone Deezer only has a silhouette,    *)
(* and ranks a more popular act above it.                                   *)
EXTENDS ArtistImages
CONSTANTS red, bone, red1, red2, bone1
MCName   == [a \in Acts |-> IF a = bone1 THEN bone ELSE red]
MCHits   == [n \in Names |-> IF n = red THEN <<red1, red2>> ELSE <<red1, bone1>>]
MCShared == [a \in Acts |-> {a}]
=============================================================================
