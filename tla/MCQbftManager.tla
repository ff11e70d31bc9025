--------------------------- MODULE MCQbftManager ---------------------------
(* Instances of QbftManager for TLC.                                       *)
EXTENDS QbftManager

CONSTANTS m1, m2

MCEffect ==
    [m \in Messages |->
        IF m = m1 THEN "advance" ELSE IF m = m2 THEN "decide" ELSE "none"]
===========================================================================
