SPECIFICATION Spec
CONSTANTS
  Threads = {t1, t2}
  STRequests = {r1}
  NonSTRequests = {}
  Cancellable = {}
  Credentials = {c1}
  TokenIds = {k1, k2}
  CallIds = {i1, i2}
  TokenResults = {"ok"}
  ApiResults = {"ok"}
  NoCredentials = NoCredentials
  NoToken = NoToken
  NoRequest = NoRequest
  max_tokens = 1
  max_in_progress_token_requests = 1
  skProlongedFailureThreshold = 2
  CountModulus = 64
  MaxCredentialCalls = 1
  MaxStateChanges = 5
  MaxStatusCalls = 1
  MaxTimeOuts = 1
  MaxTimerWaits = 1
SYMMETRY Symmetry
CHECK_DEADLOCK FALSE
INVARIANTS
  NoTokenLeak
