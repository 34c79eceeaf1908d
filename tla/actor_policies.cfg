\* Two messages of one key under every combination of policies, changed field by
\* field at any time; a dead letter policy is always among them.
CONSTANTS
  MaxMessages = 2
  Keys = {1}
  KeyOf <- TwoKeyed
  Matching = {1, 2}
  enable_message_ordering = TRUE
  Infos <- AllPolicies
  None = None
  Precision = 2
  Nack = Nack
  MAX_PULL_COUNT = 1000
  U16 = 65536
  PullCounts = {2}
  OutstandingCaps = {0}
  DeadLetterTopicFound = {TRUE, FALSE}
  MaxAckId = 3
  MaxTime = 2
  MaxPost = 1
  MaxMods = 1
  Consumer = {}
SPECIFICATION Spec
INVARIANTS TrackersInStep OrderedDelivery BusyKeysInFlight AttemptsWithinPolicy
           CountersBalance StatsAccountForAll
PROPERTY PromiseKept
\* The clock and the ack ids are bounded.
CHECK_DEADLOCK FALSE
