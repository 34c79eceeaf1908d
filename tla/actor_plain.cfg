\* Two messages of one key and one without; no policy; batches of two
\* modifications, which may repeat or contradict each other.
CONSTANTS
  MaxMessages = 3
  Keys = {1}
  KeyOf <- TwoKeyed
  Matching = {1, 2, 3}
  enable_message_ordering = TRUE
  Infos <- OnlyPlain
  None = None
  Precision = 2
  Nack = Nack
  MAX_PULL_COUNT = 1000
  U16 = 65536
  PullCounts = {1, 3}
  OutstandingCaps = {0, 1}
  DeadLetterTopicFound = {TRUE}
  MaxAckId = 3
  MaxTime = 2
  MaxPost = 3
  MaxMods = 2
  Consumer = {}
SPECIFICATION Spec
INVARIANTS HeldExactlyOnce OrderedDelivery NoKeyLeftInFlight CountersBalance
PROPERTIES AckIdsNeverReissued CapRespected
\* The clock and the ack ids are bounded.
CHECK_DEADLOCK FALSE
