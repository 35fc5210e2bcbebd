CONSTANTS
  MaxFrame = 4
  SessionConfiguresFirst = FALSE
  AddPendingCanFail = TRUE
  SubmitCanFail = TRUE
  ConvertCanFail = TRUE

SPECIFICATION RpbSpec

INVARIANTS
  AnswersFindPending

CHECK_DEADLOCK FALSE
