SPECIFICATION FairSpec
CONSTANTS
  i1 = i1
  i2 = i2
  h1 = h1
  h2 = h2
  w1 = w1
  w2 = w2
  d1 = d1
  Items = {i1}
  Webhooks = {h1}
  Subscribers <- AllSubscribed
  Workers = {w1, w2}
  BatchSize = 1
  Concurrency = 1
  MaxAttempts = 2
  Threshold = 2
  Undecryptable = {h1}
  Removable = {h1}
  Refailable = {i1}
  Dispatches = {d1}
  DirectHooks = {h1}
INVARIANTS
  TypeOK
  BrokenWebhookDisabled
  NoWebhookLost
PROPERTIES
  EventuallySettled
CHECK_DEADLOCK FALSE
