SPECIFICATION FairSpec
CONSTANTS
  Threads = {t1, t2, t3, t4}
  NumBuffers = 2
INVARIANTS
  TypeOK
  BuffersAreLent
  FreeBuffersAreExpected
  ScopesCleanUp
PROPERTIES
  FreeBuffersAreTaken
