SPECIFICATION Spec
CONSTANTS
  Rows <- Four
  ChannelOf <- Mixed
  RegionOf <- OneRegion
  Channels <- AllChannels
  DestinationOf <- SharedKafka
  BatchSenders = {"kafka"}
  BATCH_SIZE = 2
  MIN_RETRY_WAIT = 2
  MAX_RETRY_DOUBLINGS = 2
  MAX_RETRY_WAIT = 8
  RetryBase = 0
  RetryMax = 4
  Budget = 2
  Thresholds = {2, 3}
  Pause = 4
  Gap = 2
  SendTimes = {0, 2}
  Healthy = {}
  Grace = 1
  MaxAttempts = 1
  MaxFaults = 1
INVARIANT OnceATick
PROPERTY DeliversAtLeastOnce
PROPERTY ConfirmedOnce
PROPERTY BreakerIsKept
