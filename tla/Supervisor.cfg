SPECIFICATION FairSpec
CONSTANTS
  Slugs <- FourSlugs
  Populations <- AnyPopulation
  Workers = 2
  ProbeSize = 2
  MaxInterrupts = 2
INVARIANT CrashersIsolated
INVARIANT NeverRedone
PROPERTY Completes
