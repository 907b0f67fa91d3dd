SPECIFICATION Spec
CONSTANTS
  Workers = {w1, w2}
  Commands = {1, 2, 3}
  Counters = {1, 2}
  Triggers = {1, 2, 3}
  Users = {"u", "v"}
  Eligible = {"u"}
  FlagSets = {{}, {"discord"}, {"multi"}}
  Assignees = {{}, {"u"}}
  Isolation = "repeatable"
  Existing <- MCExisting
  MaxWrites = 2
  MaxTries = 1
PROPERTY AssignmentThrowsOnConflict
CHECK_DEADLOCK FALSE
