SPECIFICATION Spec
CONSTANTS
  MaxRequests = 3
  Workers = 2
  MaxCrashes = 1
  n1 = n1
  n2 = n2
  n3 = n3
  x = x
  y = y
  NFTs = {n1, n2, n3}
  ImageOf <- MCImageOf
  NoImage = NoImage
  Unknown = Unknown
  Sizes = 2
  MaxBytes = 3
  Concurrency = 2
  MaxFailures = 1
  MaxSamples = 1
  Samples = {n1}
INVARIANTS WaitingIsPending OwnAnswers LoadIsExact BuildsAreCounted MediaAreKept
PROPERTY AllAnswered
CHECK_DEADLOCK FALSE
