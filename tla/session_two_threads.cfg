SPECIFICATION Spec
CONSTANTS
  Threads = {t1, t2}
  STRequests = {r1, r2}
  NonSTRequests = {}
  Cancellable = {}
  Credentials = {c1}
  TokenIds = {k1, k2, k3}
  CallIds = {i1, i2}
  TokenResults = {"ok", "locked"}
  ApiResults = {"ok"}
  NoCredentials = NoCredentials
  NoToken = NoToken
  NoRequest = NoRequest
  max_tokens = 2
  max_in_progress_token_requests = 2
  skProlongedFailureThreshold = 2
  CountModulus = 64
  MaxCredentialCalls = 1
  MaxStateChanges = 4
  MaxStatusCalls = 1
  MaxTimeOuts = 1
  MaxTimerWaits = 1
SYMMETRY Symmetry
CHECK_DEADLOCK FALSE
INVARIANTS
  TokenBudget
  TokensDistinct
PROPERTIES
  ProlongedOnlyFromInitialized
