------------------------ MODULE MCSessionMaintainer ------------------------
EXTENDS SessionMaintainer

Symmetry == Permutations(STRequests \ Cancellable) \cup Permutations(Credentials)
              \cup Permutations(TokenIds) \cup Permutations(CallIds)
              \cup Permutations(Threads)
============================================================================
