\* Three requests, so that one may meet the leftovers of two others; a client
\* stores or removes one secret at a time.
CONSTANTS
  k1 = k1
  k2 = k2
  Key = {k1, k2}
  ApiKey = k1
  PlayerId = k2
  NoSecret = NoSecret
  Asker = {0, 1, 2, 3}
  MaxRequests = 3
  MaxClientJobs = 1

SPECIFICATION FairSpec
INVARIANTS TypeOK TimerGuardsCredentials AwaitedReplyIsOnItsWay OneHttpRequestEach
           NoRequestIsForgotten SurplusOutcomesAreStray
PROPERTIES RequestsEnd
