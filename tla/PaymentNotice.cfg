SPECIFICATION FairSpec
CONSTANTS
  Devices = {d1, d2}
  Hooks = {h1}
  Receipt = Receipt
  Sweeper = Sweeper
  Senders <- MCSenders
  MaxAttempts = 2
  MaxFaults = 1
INVARIANTS
  PushedOnce
  AnsweredMeansNotified
PROPERTIES
  DoneIsFinal
  PaymentGetsNotice
  EventDecided
