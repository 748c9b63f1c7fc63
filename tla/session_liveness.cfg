SPECIFICATION FairSpec
CONSTANTS
  Threads = {t1}
  STRequests = {r1, r2}
  NonSTRequests = {}
  Cancellable = {}
  Credentials = {c1}
  TokenIds = {k1}
  CallIds = {i1}
  TokenResults = {"ok", "locked"}
  ApiResults = {"ok", "invalid_token", "async", "connection"}
  NoCredentials = NoCredentials
  NoToken = NoToken
  NoRequest = NoRequest
  max_tokens = 1
  max_in_progress_token_requests = 1
  skProlongedFailureThreshold = 1
  CountModulus = 2
  MaxCredentialCalls = 1
  MaxStateChanges = 10
  MaxStatusCalls = 1
  MaxTimeOuts = 1
  MaxTimerWaits = 1
CHECK_DEADLOCK FALSE
PROPERTIES
  CallAnswered
  CallServed
