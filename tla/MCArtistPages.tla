--------------------------- MODULE MCArtistPages ----------------------------
(* ArtistPages with two acts of one name.  The first has three pages of     *)
(* release groups, one of them without a type, the second one release with  *)
(* a foreign title.  Deezer files tracks of both under two profiles, and    *)
(* its first hit for an album is somebody else's.                           *)
EXTENDS ArtistPages
CONSTANTS red1, red2, red, redbone, gone, until, other, jazz
MCName     == [a \in Acts |-> red]
MCGroups   == [k \in Pages |-> IF k = red1 THEN <<[title |-> gone, typed |-> TRUE],
                 [title |-> other, typed |-> FALSE], [title |-> until, typed |-> TRUE]>>
               ELSE IF k = red2 THEN <<[title |-> Foreign, typed |-> TRUE]>> ELSE <<>>]
MCProfiles == [n \in Names |-> <<[name |-> redbone, top |-> <<other>>],
                 [name |-> red, top |-> <<other, gone>>],
                 [name |-> red, top |-> <<until, gone, until>>]>>]
MCReleases == [t \in Titles |-> IF t = gone THEN <<[name |-> redbone, title |-> gone],
                 [name |-> red, title |-> gone]>> ELSE <<[name |-> redbone, title |-> t]>>]
=============================================================================
