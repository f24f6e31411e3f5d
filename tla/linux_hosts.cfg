CONSTANTS
  chrome = chrome  firefox = firefox
  Hosts = {chrome, firefox}
  NumPcrs = 1
  Slots <- SmallTpm
  MaxCalls = 2
  MaxMeasurements = 1
  MaxFaults = 1
SPECIFICATION ServedSpec
INVARIANTS LinuxTypeOK ObjectsScoped OkMeansEnrolled ReportedFollowsQuote LeaksBounded
PROPERTY RequestsAnswered
