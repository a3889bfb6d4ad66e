SPECIFICATION FairSpec
CONSTANTS
  Data = {"x"}
  SenderCredits = 3
  ReceiverCredits = 2
  SEND_QUEUE_CAP = 1
  MaxSent = 3
  HandlersFail = TRUE
PROPERTIES
  EventuallyHandedOver
  EventuallyAcked
CHECK_DEADLOCK FALSE
