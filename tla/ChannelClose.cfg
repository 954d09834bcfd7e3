SPECIFICATION FairSpec
CONSTANTS
  Chans = {a}
  Bounded = {a}
  Cap = 1
  MaxLen = 1
  Senders = {s1}
  Receivers = {r1}
  Selectors = {x1}
  Closers = {k1}
  NoOne = NoOne
PROPERTIES
  CloseWakesEveryone
