SPECIFICATION MCSpec
CONSTANTS
  HostCounters = {0, 1, 18}
  Types <- AllTypes
  Factory <- AllFactories
  Probe <- AllProbes
  MaxPackets = 3
  Values = {0, 1, 255}
  MaxLen = 9
  BufSize = 8
  PeekSize = 2
  MaxBlock = 10
  Sizes <- RecordSizes
  MaxRecords = 3
  Host = 1
  Players = {2, 3}
  MaxTurns = 2
  NoSlots = NoSlots
INVARIANTS ReadsWhatWasWritten StatRoundTrip AllReadBack SavedReplayIsTheSame
