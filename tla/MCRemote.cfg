\* One app; what others do to the setting is Turn.
CONSTANTS
  Clients = {app}
  Values  = {1, 2}
  MaxCuts = 1
SPECIFICATION FairSpec
INVARIANTS NotRepeated NeverFinishes
PROPERTIES AnswersHold CallsEnd
