SPECIFICATION PanelSpec
CONSTANTS
  ElixirCap = 3
  RegenInterval = 3
  MaxResult = 9
  Costs <- MCCosts
  Duration = 10
  Pages = {p1}
  Skews <- MCSkews
  MaxInTransit = 2
INVARIANTS TypeOK SpentWithinBudget Conservation PanelIsCautious
PROPERTIES ImplementsMeter DecidedOnCurrent
CHECK_DEADLOCK FALSE
