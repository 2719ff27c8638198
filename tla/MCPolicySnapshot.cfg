SPECIFICATION FairSpec
CONSTANTS
  p1 = p1
  p2 = p2
  g1 = g1
  g2 = g2
  w1 = w1
  w2 = w2
  Processes = {p1, p2}
  Readers = {g1}
  Writers = {w1}
  TTL = 1
  ReadTime = 1
  MaxVersion = 2
INVARIANTS
  TypeOK
  StalenessBounded
  StaleEntriesWereOvertaken
PROPERTIES
  Converges
