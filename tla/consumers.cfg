\* A stream that stays, and a unary pull.
CONSTANTS
  Consumer = {s1, p1}
  Streams = {s1}
  Immediate = {}
  Steady = {s1}
  MaxMessagesOf <- OneEach
  CapOf <- Uncapped
  SeekTimes = {}
  MaxMessages = 2
  Keys = {1}
  KeyOf <- NoneKeyed
  Matching = {1, 2}
  enable_message_ordering = FALSE
  Infos <- OnlyPlain
  None = None
  Precision = 2
  Nack = Nack
  MAX_PULL_COUNT = 1000
  U16 = 65536
  PullCounts = {1}
  OutstandingCaps = {0}
  DeadLetterTopicFound = {TRUE}
  MaxAckId = 2
  MaxTime = 0
  MaxPost = 1
  MaxMods = 1
SPECIFICATION FairConsumers
INVARIANT BacklogAttended
PROPERTIES  BacklogServed
\* The clock, the messages and the ack ids are bounded.
CHECK_DEADLOCK FALSE
