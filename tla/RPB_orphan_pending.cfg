CONSTANTS
  MaxFrame = 3
  SessionConfiguresFirst = FALSE
  AddPendingCanFail = TRUE
  SubmitCanFail = TRUE
  ConvertCanFail = TRUE

SPECIFICATION RpbSpec

INVARIANT
  NoOrphanPending
