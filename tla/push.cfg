\* Two rounds that may overlap, and an endpoint that may never answer.
CONSTANTS
  Rounds = {1, 2}
  max_concurrency = 1
  Consumer = {}
  MaxMessages = 2
  Keys = {1}
  KeyOf <- NoneKeyed
  Matching = {1, 2}
  enable_message_ordering = FALSE
  Infos <- OnlyPlain
  None = None
  Precision = 1
  Nack = Nack
  MAX_PULL_COUNT = 1000
  U16 = 65536
  PullCounts = {1}
  OutstandingCaps = {0}
  DeadLetterTopicFound = {TRUE}
  MaxAckId = 4
  MaxTime = 1
  MaxPost = 2
  MaxMods = 1
SPECIFICATION FairPush
INVARIANTS AckedMeansAccepted EachInOneRound
PROPERTIES RoundsEndOnDeletion BacklogPushed
\* The clock, the rounds, the messages and the ack ids are bounded.
CHECK_DEADLOCK FALSE
