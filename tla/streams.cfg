\* Two streams that acknowledge and modify the same deliveries.
CONSTANTS
  Consumer = {}
  MaxMessages = 1
  Keys = {1}
  KeyOf <- NoneKeyed
  Matching = {1}
  enable_message_ordering = FALSE
  Infos <- OnlyPlain
  None = None
  Precision = 1
  Nack = Nack
  MAX_PULL_COUNT = 1000
  U16 = 65536
  PullCounts = {1}
  OutstandingCaps = {0}
  DeadLetterTopicFound = {TRUE}
  MaxAckId = 2
  MaxTime = 1
  MaxPost = 1
  MaxMods = 1
  Streams = {s1, s2}
  Requests <- AcksAndModifications
  Flags = {TRUE}
  FlagUpdates = {FALSE}
  MaxExtension = 2
SPECIFICATION StreamSpec
SYMMETRY EitherStream
INVARIANTS ConfirmedExactlyOnce ConfirmationsComplete
\* The clock, the messages and the ack ids are bounded.
CHECK_DEADLOCK FALSE
