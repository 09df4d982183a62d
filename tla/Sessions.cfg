SPECIFICATION FairSpec
CONSTANTS
  MaxSessions = 2
  Fixtures = {"happy-path-short", "brain-timeout"}
  Failing = {"brain-timeout"}
  Files = 2
  MaxWaiting = 2
INVARIANTS CompleteMeansStored DescriptorsClosed
PROPERTIES SessionsImplementReports SessionReported
