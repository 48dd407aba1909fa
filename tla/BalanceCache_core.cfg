SPECIFICATION Spec
CONSTANTS
  Users = {u1}
  Rate = 1
  Pages = {{"SY", "PT"}, {"LP"}}
  Initial = 3
  Amount = 2
  Minimum = 1
  Bonus = {1}
  MaxEvents = 2
PROPERTIES NoStaleOverwrite RefusalLeavesNoTrace SuccessIsSeen CatchesUp
CHECK_DEADLOCK FALSE
