SPECIFICATION FairSpec
CONSTANTS
  Thread = {t0, t1}
  Boot = boot
  Depth = 2
INVARIANT ServiceMatches
PROPERTY RequestsServed
