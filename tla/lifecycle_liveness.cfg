\* Push subscriptions, impatient clients, and mailboxes with room for every
\* request.
CONSTANTS
  TopicNames = {tn}
  SubNames = {sn}
  Clients = {c1, c2}
  None = None
  Configs = {g}
  Capacity = 4
  U32 = 100
  Patient = FALSE
  MaxTopicId = 2
  MaxSubId = 3
  MaxPublished = 1
SPECIFICATION FairLifecycle
INVARIANT RegistryFollows
PROPERTY CallsReturn
