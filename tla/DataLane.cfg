SPECIFICATION Spec
CONSTANTS
  Data = {"x", "y"}
  SenderCredits = 2
  ReceiverCredits = 2
  SEND_QUEUE_CAP = 1
  MaxSent = 4
  HandlersFail = TRUE
INVARIANTS
  TypeOK
  NoFalseViolation
PROPERTY FifoSpec
CHECK_DEADLOCK FALSE
