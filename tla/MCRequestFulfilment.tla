------------------------ MODULE MCRequestFulfilment ------------------------
(* RequestFulfilment on small instances: an auto-approved user and one who  *)
(* is not, one artist, an artist-level request, and one album in two        *)
(* spellings.                                                               *)
EXTENDS RequestFulfilment, TLC
CONSTANTS ann, bob, artist, album, whole, lower, upper
MCUsers  == {ann, bob}
MCAuto   == {ann}
MCArtist == [t \in Targets |-> artist]
MCAlbum  == [t \in Targets |-> IF t = whole THEN NoAlbum ELSE album]

(* Pushes are alike, and so are the two spellings.                          *)
MCSymmetry == Permutations(Pushes) \cup Permutations({lower, upper})
=============================================================================
