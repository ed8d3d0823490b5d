---------------------------- MODULE MCSelfUpdate ----------------------------
(* SelfUpdate on small instances: a candidate and the release after it,     *)
(* which parseSemver cannot tell apart, an older release whose last part is *)
(* larger, and a development build.                                         *)
EXTENDS SelfUpdate
CONSTANTS old, candidate, final, dev
MCText == [r \in Releases |->
             CASE r = old       -> [parts |-> <<2, 9, 10>>, tail |-> FALSE]
               [] r = candidate -> [parts |-> <<2, 10, 0>>, tail |-> TRUE]
               [] r = final     -> [parts |-> <<2, 10, 0>>, tail |-> FALSE]
               [] r = dev       -> [parts |-> <<Word>>, tail |-> FALSE]]
=============================================================================
