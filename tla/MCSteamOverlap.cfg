\* Two requests, a client that stores or removes one secret at a time; the one
\* property is what SteamApiService.h says, and is violated.
CONSTANTS
  k1 = k1
  k2 = k2
  Key = {k1, k2}
  ApiKey = k1
  PlayerId = k2
  NoSecret = NoSecret
  Asker = {0, 1, 2}
  MaxRequests = 2
  MaxClientJobs = 1

SPECIFICATION Spec
INVARIANT OneHttpRequestInFlight
