SPECIFICATION FairSpec
CONSTANTS
  Stale = 4
  Poll = 2
  MaxBeats = 3
INVARIANTS TypeOK OutageIsNoticed NoPhantomFlash
PROPERTIES FeedReturns EveryOnsetFlashes
