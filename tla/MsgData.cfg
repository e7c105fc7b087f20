SPECIFICATION Spec
CONSTANTS
  MaxParts = 2
  MaxPart = 2
  StackParts = 1
  MaxNoReplySize = 3
  MaxBuffer = 3
CONSTRAINT UpToUninit
INVARIANT ServerSeesMessage
INVARIANT AnswerScattered
INVARIANT CopyWithinParts
INVARIANT FreedOnce
CHECK_DEADLOCK FALSE
