--------------------------- MODULE MCLibrarySync ---------------------------
(* LibrarySync with two servers, one edit at a time, the scheduled sync and *)
(* one started by hand.                                                     *)
EXTENDS LibrarySync, TLC
=============================================================================
