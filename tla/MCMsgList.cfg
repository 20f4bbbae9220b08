SPECIFICATION FairSpec
CONSTANTS
  p1 = p1
  p2 = p2
  p3 = p3
  c1 = c1
  c2 = c2
  m1 = m1
  m2 = m2
  Producers = {p1, p2, p3}
  Consumers = {c1, c2}
  Msg = {m1, m2}
  NoMsg = NoMsg
  Undefined = Undefined
  NoThread = NoThread
  MaxLength = 2
PROPERTIES
  ImplementsFifo
  StoredIsHandled
INVARIANTS
  TypeOK
  ListInvariant
  PopDefined
  LengthBounded
