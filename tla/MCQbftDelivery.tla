-------------------------- MODULE MCQbftDelivery --------------------------
(* Instances of QbftDelivery for TLC.                                      *)
EXTENDS QbftDelivery

CONSTANTS a, b

MCStart == [o \in Operators |-> IF o % 2 = 1 THEN a ELSE b]

MCValid == [o \in Operators |-> {a, b}]
===========================================================================
