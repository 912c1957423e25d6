\* Two messages from A, one from B, one panel at A; a channel of one message.
SPECIFICATION FairSpec
CONSTANTS
  A = A
  B = B
  p = p
  q = q
  ba = ba
  bb = bb
  c1 = c1
  Instances = {A, B}
  Clients = {c1}
  Publishers = {p, q}
  Bridges = {ba, bb}
  Home <- HomeDef
  SendBuffer = 1
  Quota <- QuotaDef
  NoMsg = NoMsg
CHECK_DEADLOCK FALSE
INVARIANTS
  NoPanic
  OnceAndInOrder
PROPERTIES
  BroadcastEnds
  LaggardLeaves
