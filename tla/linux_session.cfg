CONSTANTS
  chrome = chrome  firefox = firefox
  Hosts = {chrome}
  NumPcrs = 1
  Slots <- SmallTpm
  MaxCalls = 1
  MaxMeasurements = 0
  MaxFaults = 0
SPECIFICATION Spec
INVARIANT SessionConsumed
