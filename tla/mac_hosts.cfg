CONSTANTS
  chrome = chrome  firefox = firefox
  Hosts = {chrome, firefox}
  MaxCalls = 3
  MaxFaults = 1
SPECIFICATION ServedSpec
INVARIANTS MacTypeOK KeysBounded EvidenceByEnrolledKey OkMeansEnrolled
PROPERTY RequestsAnswered
