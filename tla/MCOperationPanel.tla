--------------------------- MODULE MCOperationPanel ---------------------------
(* Small values: intervals of three ticks, a cap of three, and the three cheapest costs of a    *)
(* division.                                                                  *)
EXTENDS OperationPanel
MCCosts == {GetOperationCost([type |-> "div", operand |-> n]) : n \in {2, 4, 7}}
MCSkews == {-1, 0, 1}
=============================================================================
