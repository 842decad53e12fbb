SPECIFICATION FairSpec
CONSTANTS
  Rows <- Three
  ChannelOf <- Workloads
  RegionOf <- DeadEast
  Channels <- AllChannels
  DestinationOf <- SharedKafka
  BatchSenders = {"kafka"}
  BATCH_SIZE = 2
  MIN_RETRY_WAIT = 2
  MAX_RETRY_DOUBLINGS = 2
  MAX_RETRY_WAIT = 8
  RetryBase = 2
  RetryMax = 2
  Budget = 2
  Thresholds = {2}
  Pause = 4
  Gap = 2
  SendTimes = {0, 2}
  Healthy = {3}
  Grace = 1
  MaxAttempts = 2
  MaxFaults = 1
PROPERTY HealthyRowsLeave
