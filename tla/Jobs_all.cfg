SPECIFICATION FairSpec
CONSTANTS
  MaxJobs = 2
  MaxChunks = 1
  Attended = {1}
  Waiters = {w1}
INVARIANTS AnnouncedOnce ResultIsLast
PROPERTIES ImplementsContract EndsAreReached
