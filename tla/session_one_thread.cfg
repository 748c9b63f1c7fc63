SPECIFICATION Spec
CONSTANTS
  Threads = {t1}
  STRequests = {r1}
  NonSTRequests = {n1}
  Cancellable = {n1}
  Credentials = {c1, c2}
  TokenIds = {k1, k2}
  CallIds = {i1, i2}
  TokenResults = {"ok", "credentials", "locked", "error", "connection"}
  ApiResults = {"ok", "invalid_token", "async", "error", "connection"}
  NoCredentials = NoCredentials
  NoToken = NoToken
  NoRequest = NoRequest
  max_tokens = 1
  max_in_progress_token_requests = 2
  skProlongedFailureThreshold = 2
  CountModulus = 2
  MaxCredentialCalls = 2
  MaxStateChanges = 10
  MaxStatusCalls = 1
  MaxTimeOuts = 1
  MaxTimerWaits = 1
SYMMETRY Symmetry
CHECK_DEADLOCK FALSE
INVARIANTS
  TypeOK
  NoTokenLeak
  OnePlace
  NoLostWakeup
  CredentialsMatch
  AnsweredOnce

