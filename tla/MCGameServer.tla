---------------------------- MODULE MCGameServer ----------------------------
(* Instances of GameServer for TLC: two players who may ask each other; the *)
(* first win of A and the first defeat of B wrap their credits around.      *)
EXTENDS GameServer
CONSTANTS A, B

Two == {A, B}
Stored2 == [p \in Two |-> IF p = A THEN 255 ELSE NoFile]
Asks2 == [p \in Two |-> Two \ {p}]
Throws2 == [p \in Two |-> IF p = A THEN Picks ELSE {0}]
=============================================================================
