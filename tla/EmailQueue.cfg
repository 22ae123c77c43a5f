SPECIFICATION FairSpec
CONSTANTS
  Rows = {r1, r2}
  Workers = {w1, w2}
  Handlers = {h1}
  BatchSize = 1
  MaxAttempts = 2
  InitialStatus <- MCScheduled
  MaxFaults = 1
INVARIANTS
  MailedOnce
  ClosedWhenDrained
  CancelStopsTheQueue
PROPERTIES
  EveryRecipientDecided
  CampaignFinishes
