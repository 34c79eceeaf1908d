\* Two clients; topics and subscriptions that are deleted and created again.
CONSTANTS
  TopicNames = {tn}
  SubNames = {sn, sm}
  Clients = {c1, c2}
  None = None
  Configs = {}
  Capacity = 4
  U32 = 100
  Patient = TRUE
  MaxTopicId = 3
  MaxSubId = 3
  MaxPublished = 2
SPECIFICATION LifecycleSpec
SYMMETRY AnyClientAnyName
INVARIANTS LiveAreListed NoneAttachedDeleted PublishNeverFails PostedInOrder
PROPERTY PublishedEverywhere
