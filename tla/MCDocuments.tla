------------------------------ MODULE MCDocuments ------------------------------
(* Instances of Documents for TLC: two raw items of one content, whose sources *)
(* are followed by one and by two radars.                                      *)
EXTENDS Documents

CONSTANTS x1, x2, c1, k1, k2

MCContentOf == [x \in RawItem |-> c1]
MCRadarsOf == [x \in RawItem |-> IF x = x1 THEN {k1} ELSE {k1, k2}]

================================================================================
