\* A session, two requests that overlap, two IMEIs.
SPECIFICATION FairSpec
CONSTANTS
  Sessions = {s1}
  Requests = {r1, r2}
  Imeis = {i, j}
  CacheTTL = 2
  MaxVersion = 2
  Nil = Nil
INVARIANTS
  EntriesAreCurrent
  FencesAreCurrent
PROPERTIES
  EditsTakeEffect
  BindingsTakeEffect
