CONSTANTS
  PacketSizes = {1, 2}
  max_size_bytes_ = 4
  drop_threshold_bytes_ = 1
  delay_ = 2
  TimesPerByte = {0, 2}
  MaxPackets = 4
  Horizon = 3
SPECIFICATION FairSpec
INVARIANTS FIFO BytesCounted OneEventEach
PROPERTIES PipeDelayExact Delivery
CHECK_DEADLOCK FALSE
