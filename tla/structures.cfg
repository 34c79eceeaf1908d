\* The tracker: deadlines round 0..4 up to 0, 2, 4; three ack ids, batches of up
\* to three.  Flow control: two holders, in either measure.
CONSTANTS
  Message = {m1, m2}
  AckId = {1, 2, 3}
  Attempt = {1}
  Instant = {0, 1, 2, 3, 4}
  Precision = 2
  MaxMods = 3
  Nack = Nack
  Waiters = {w1, w2}
  Holders = {h1, h2}
  Deltas <- LargeAndSmall
  max_outstanding_bytes = 4
  max_outstanding_messages = 2
  U64 = 16
SPECIFICATION Structures
INVARIANTS SideBySide ModifyIsTheLoop NoneSleepsOverSpace
PROPERTY WaitersReturn
