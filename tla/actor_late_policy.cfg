\* A dead letter policy added by an update.
CONSTANTS
  MaxMessages = 2
  Keys = {1}
  KeyOf <- TwoKeyed
  Matching = {1, 2}
  enable_message_ordering = TRUE
  Infos <- PlainOrDeadLetter
  None = None
  Precision = 2
  Nack = Nack
  MAX_PULL_COUNT = 1000
  U16 = 65536
  PullCounts = {1}
  OutstandingCaps = {0}
  DeadLetterTopicFound = {TRUE}
  MaxAckId = 3
  MaxTime = 2
  MaxPost = 1
  MaxMods = 1
  Consumer = {}
SPECIFICATION Spec
INVARIANT DeadLetteredMeansForwarded
\* The clock and the ack ids are bounded.
CHECK_DEADLOCK FALSE
