------------------------------ MODULE MCContents ------------------------------
(* Contents with two users who edit, one of them on two connections.         *)
EXTENDS Contents
CONSTANTS c1, c2, c3

TwoUsers == [c \in Editors |-> IF c = c3 THEN 2 ELSE 1]
===============================================================================
