\* Dead-lettering the head of an ordering key.
CONSTANTS
  MaxMessages = 2
  Keys = {1}
  KeyOf <- TwoKeyed
  Matching = {1, 2}
  enable_message_ordering = TRUE
  Infos <- OnlyDeadLetter
  None = None
  Precision = 2
  Nack = Nack
  MAX_PULL_COUNT = 1000
  U16 = 65536
  PullCounts = {1}
  OutstandingCaps = {0}
  DeadLetterTopicFound = {TRUE, FALSE}
  MaxAckId = 3
  MaxTime = 2
  MaxPost = 1
  MaxMods = 1
  Consumer = {}
SPECIFICATION Spec
INVARIANT NoKeyLeftInFlight
\* The clock and the ack ids are bounded.
CHECK_DEADLOCK FALSE
