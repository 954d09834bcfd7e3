SPECIFICATION Spec
CONSTANTS
  Chans = {a, b}
  Bounded = {a}
  Cap = 1
  MaxLen = 2
  Senders = {t1, t2}
  Receivers = {t1, t3}
  Selectors = {t4}
  Closers = {t2}
  NoOne = NoOne
INVARIANTS
  ClosedIsFinal
  NoWakeUpIsLost
  SelectorsAreNotForgotten
  SelectFindsTheEnd
  CallsNeverDeadlock
