SPECIFICATION LeaseSpec
CONSTANTS
  Timeouts = {7, 23, 24, 47, 48, 73}
  Concurrency = 2
  Subscribers = 3
  WebhookConcurrency = 2
  Retries = 3
  DnsTimeout = 1
  FetchTimeout = 2
  Backoff <- Delays
INVARIANTS
  HalfLeaseHeld
CHECK_DEADLOCK FALSE
