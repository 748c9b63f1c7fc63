---------------------- MODULE SessionMaintainerProofs ----------------------
(***************************************************************************)
(* Proofs about SessionMaintainer, for any number of requests and tokens   *)
(* and any limits.  First the types and what the tokens keep, for any      *)
(* number of threads.  Then what becomes of a request that was handed to   *)
(* Call, and of the session that serves it: a request is in one place at a *)
(* time and answered once, a lost connection is checked again (both for    *)
(* any number of threads), and with one thread no token leaks, the state   *)
(* and the tokens match the credentials and nobody waits for nothing.      *)
(***************************************************************************)
EXTENDS SessionMaintainer, FiniteSetTheorems, SequenceTheorems, TLAPS

USE DEF vars, lockerVars, stateVars, tokenVars, queueVars, connectionVars,
        failureVars, callVars, At, Goto

----------------------------------------------------------------------------
(***************************************************************************)
(* Lemmas about the operators the actions are built from.                  *)
(***************************************************************************)

\* A saturating counter stays within its bound.
LEMMA BumpType ==
  ASSUME NEW b \in Nat, NEW n \in 0..b
  PROVE  Bump(n, b) \in 0..b
BY DEF Bump

\* Erasing an element of a queue gives a queue (HandleTimedOutRequest).
LEMMA ErasedType ==
  ASSUME NEW S, NEW q \in Seq(S), NEW r, NEW p \in Erased(q, r)
  PROVE  p \in Seq(S)
<1>1. PICK i \in 1..Len(q) : p = RemoveAt(q, i)
  BY DEF Erased
<1>2. SubSeq(q, 1, i - 1) \in Seq(S) /\ SubSeq(q, i + 1, Len(q)) \in Seq(S)
  OBVIOUS
<1>. QED  BY <1>1, <1>2 DEF RemoveAt

\* Taking the front of a queue (deque::front, pop_front).
LEMMA PopFront ==
  ASSUME NEW S, NEW q \in Seq(S), q # <<>>
  PROVE  Head(q) \in S /\ Tail(q) \in Seq(S)
OBVIOUS

\* Adding at the back (push_back).
LEMMA PushBack ==
  ASSUME NEW S, NEW q \in Seq(S), NEW e \in S
  PROVE  /\ Append(q, e) \in Seq(S)
         /\ Len(Append(q, e)) = Len(q) + 1
         /\ \A i \in 1..Len(q) : Append(q, e)[i] = q[i]
         /\ Append(q, e)[Len(q) + 1] = e
BY AppendProperties

\* Taking the back of the token stack (vector::back, pop_back).
LEMMA PopBack ==
  ASSUME NEW S, NEW q \in Seq(S), q # <<>>
  PROVE  /\ Last(q) \in S
         /\ Front(q) \in Seq(S)
         /\ Len(Front(q)) = Len(q) - 1
         /\ \A i \in 1..Len(Front(q)) : Front(q)[i] = q[i]
<1>1. Len(q) \in Nat \ {0} /\ q[Len(q)] \in S
  OBVIOUS
<1>2. Front(q) = SubSeq(q, 1, Len(q) - 1)
  BY DEF Front
<1>3. Front(q) = [i \in 1..(Len(q) - 1) |-> q[i]]
  BY <1>1, <1>2
<1>4. \A i \in 1..(Len(q) - 1) : q[i] \in S
  BY <1>1
<1>5. Len(q) - 1 \in Nat
  BY <1>1
<1>. QED  BY <1>1, <1>3, <1>4, <1>5 DEF Last

\* Every session state the code constructs is a session state.
LEMMA SessionStateTypes ==
  /\ Uninitialized \in SessionStates
  /\ Initialized \in SessionStates
  /\ \A c \in Credentials : CredentialsFailure(c) \in SessionStates
  /\ \A c \in Credentials : Running(c) \in SessionStates
  /\ \A e \in AllTokenResults : ProlongedError(e) \in SessionStates
BY DEF SessionStates, SessionState, Uninitialized, Initialized,
       CredentialsFailure, Running, ProlongedError, AllTokenResults

\* A thread that waits for its next event has its locals in order.
LEMMA IdleType ==
  /\ IdleThread \in ThreadStates
  /\ [IdleThread EXCEPT !.pc = "attempt"] \in ThreadStates
  /\ [IdleThread EXCEPT !.pc = "need_force"] \in ThreadStates
  /\ [IdleThread EXCEPT !.pc = "attempt", !.after = "force"] \in ThreadStates
  /\ \A r \in Requests \cup {NoRequest} :
       [IdleThread EXCEPT !.pc = "attempt", !.finish = r] \in ThreadStates
  /\ \A r \in Requests :
       [IdleThread EXCEPT !.pc = "callback", !.finish = r] \in ThreadStates
BY SessionStateTypes, ValuesAssumption
   DEF IdleThread, ThreadStates, ThreadRecords, LocalsOK, PCs, TokenPCs,
       AnswerPCs, RequestPCs

\* Returning from AttemptRequests keeps them in order.
LEMMA ReturnedType ==
  ASSUME NEW th \in ThreadStates
  PROVE  Returned(th) \in ThreadStates
<1>1. th.finish \in Requests \cup {NoRequest}
  BY DEF ThreadStates, ThreadRecords
<1>. QED  BY <1>1, IdleType DEF Returned

\* No action leaves an old token behind when it returns.
LEMMA ReturnedHoldsNothing ==
  ASSUME NEW th
  PROVE  Returned(th).token = NoToken
BY DEF Returned, IdleThread

----------------------------------------------------------------------------
(***************************************************************************)
(* Type correctness.                                                       *)
(***************************************************************************)

\* Init establishes TypeOK.
LEMMA InitType == Init => TypeOK
<1>. SUFFICES ASSUME Init PROVE TypeOK
  OBVIOUS
<1>1. LockerOK
  BY SessionStateTypes, LimitsAssumption DEF Init, LockerOK
<1>2. request \in [Requests -> RequestStates]
  BY DEF Init, NewRequest, RequestStates
<1>3. thread \in [Threads -> ThreadStates]
  BY IdleType DEF Init
<1>. QED  BY <1>1, <1>2, <1>3, FS_EmptySet, LimitsAssumption DEF Init, TypeOK

\* A thread's locals are of their types.
LEMMA ThreadRecord == \A t \in Threads : TypeOK => thread[t] \in ThreadRecords
BY DEF TypeOK, ThreadStates

\* What the steps below use of a thread that is where the action finds it.
LEMMA ThreadFacts ==
  ASSUME TypeOK, NEW t \in Threads
  PROVE  /\ thread[t] \in ThreadRecords
         /\ LocalsOK(thread[t])
         /\ \A x \in ThreadStates :
              [thread EXCEPT ![t] = x] \in [Threads -> ThreadStates]
         /\ Returned(thread[t]) \in ThreadStates
BY ReturnedType DEF TypeOK, ThreadStates

\* A thread that goes on to p with new locals is a thread.
LEMMA MoveRecord ==
  ASSUME NEW th \in ThreadRecords, NEW p \in PCs
  PROVE  /\ \A r \in Requests \cup {NoRequest} :
              /\ [th EXCEPT !.pc = p, !.request = r] \in ThreadRecords
              /\ [th EXCEPT !.pc = p, !.finish = r] \in ThreadRecords
         /\ \A k \in Tokens \cup {NoToken} :
              [th EXCEPT !.pc = p, !.token = k] \in ThreadRecords
         /\ \A s \in SessionStates, n \in Nat :
              [th EXCEPT !.pc = p, !.state = s, !.count = n] \in ThreadRecords
BY DEF ThreadRecords

\* So is one that starts a request with a token.
LEMMA StartRecord ==
  ASSUME NEW th \in ThreadRecords, NEW p \in PCs,
         NEW r \in Requests \cup {NoRequest}, NEW k \in Tokens \cup {NoToken}
  PROVE  [th EXCEPT !.pc = p, !.request = r, !.token = k] \in ThreadRecords
BY DEF ThreadRecords

\* So is one that takes the answer of a get_session_token call.
LEMMA AnswerRecord ==
  ASSUME NEW th \in ThreadRecords, NEW p \in PCs,
         NEW k \in Tokens \cup {NoToken}, NEW c \in Credentials,
         NEW result \in AllTokenResults
  PROVE  [th EXCEPT !.pc = p, !.result = result, !.token = k,
                    !.credentials = c] \in ThreadRecords
BY DEF ThreadRecords

\* SessionMaintainerRequest::Init keeps the type of the request objects.
LEMMA InitRequestType ==
  ASSUME request \in [Requests -> RequestStates], NEW r \in Requests,
         InitRequest(r)
  PROVE  request' \in [Requests -> RequestStates]
<1>. DEFINE x == [request[r] EXCEPT !.inited = TRUE, !.http = "live"]
<1>1. x \in RequestStates
  BY DEF RequestStates
<1>2. request' = [request EXCEPT ![r] = x]
  BY DEF InitRequest
<1>. QED  BY <1>1, <1>2

\* The program points where no local variable is needed.
NeutralPCs == PCs \ (RequestPCs \cup AnswerPCs \cup {"callback", "try", "try_one"})

\* Moving to such a point is fine for a thread that holds no token.
LEMMA GotoType ==
  ASSUME TypeOK, NEW t \in Threads, NEW p \in NeutralPCs,
         thread[t].pc \notin TokenPCs \cup {"add_st"}
  PROVE  [thread EXCEPT ![t].pc = p] \in [Threads -> ThreadStates]
<1>. DEFINE x == [thread[t] EXCEPT !.pc = p]
<1>1. x \in ThreadRecords
  BY ThreadFacts DEF ThreadRecords, NeutralPCs
<1>2. x.pc = p /\ x.token = thread[t].token
  BY ThreadFacts DEF ThreadRecords
<1>3. LocalsOK(x)
  BY <1>2, ThreadFacts DEF LocalsOK, NeutralPCs, TokenPCs, AnswerPCs, RequestPCs
<1>4. [thread EXCEPT ![t].pc = p] = [thread EXCEPT ![t] = x]
  OBVIOUS
<1>. QED  BY <1>1, <1>3, <1>4, ThreadFacts DEF ThreadStates

\* A step that only moves a thread.
LEMMA OnlyThread ==
  ASSUME TypeOK, UNCHANGED <<lockerVars, request, credential_calls>>,
         thread' \in [Threads -> ThreadStates]
  PROVE  TypeOK'
BY DEF TypeOK, LockerOK

\* The steps of AttemptRequests keep the types.
LEMMA AttemptType ==
  ASSUME TypeOK, NEW t \in Threads, AttemptStep(t)
  PROVE  TypeOK'
<1>. USE LimitsAssumption
<1>0. \A p \in {"start_non_st", "check_running", "start_st", "need",
               "get_credentials", "get_credentials_one"} : p \in NeutralPCs
  BY DEF NeutralPCs, PCs, RequestPCs, AnswerPCs, TokenPCs
<1>1. CASE AttemptConnection(t)
  <2>1. thread' \in [Threads -> ThreadStates]
    BY <1>1, ThreadFacts DEF AttemptConnection, Return
  <2>2. status_calls' \in 0..MaxStatusCalls
    BY <1>1, BumpType DEF AttemptConnection, TypeOK
  <2>. QED  BY <1>1, <2>1, <2>2 DEF AttemptConnection, TypeOK, LockerOK
<1>2. CASE AttemptConnected(t)
  <2>1. thread' \in [Threads -> ThreadStates]
    BY <1>0, <1>2, GotoType DEF AttemptConnected, TokenPCs
  <2>. QED  BY <1>2, <2>1, OnlyThread DEF AttemptConnected
<1>3. CASE StartNonSTRequest(t)
  <2>. DEFINE r == Head(waiting_non_st_requests)
              x == [thread[t] EXCEPT !.pc = "add_non_st", !.request = r]
  <2>1. r \in NonSTRequests /\ waiting_non_st_requests' \in Seq(NonSTRequests)
    BY <1>3, PopFront DEF StartNonSTRequest, TypeOK, LockerOK
  <2>2. x \in ThreadRecords
    <3>1. "add_non_st" \in PCs /\ thread[t] \in ThreadRecords /\ r \in Requests
      BY <2>1, ThreadRecord DEF PCs, Requests
    <3>. QED  BY <3>1, MoveRecord
  <2>3. LocalsOK(x)
    BY <1>3, <2>1, ThreadFacts
       DEF StartNonSTRequest, ThreadRecords, LocalsOK, TokenPCs, AnswerPCs,
           RequestPCs, Requests
  <2>4. thread' \in [Threads -> ThreadStates]
    BY <1>3, <2>2, <2>3, ThreadFacts DEF StartNonSTRequest, ThreadStates
  <2>5. request' \in [Requests -> RequestStates]
    BY <1>3, <2>1, InitRequestType DEF StartNonSTRequest, TypeOK, Requests
  <2>. QED  BY <1>3, <2>1, <2>4, <2>5 DEF StartNonSTRequest, TypeOK, LockerOK
<1>4. CASE NoMoreNonSTRequests(t)
  <2>1. thread' \in [Threads -> ThreadStates]
    BY <1>0, <1>4, GotoType DEF NoMoreNonSTRequests, TokenPCs
  <2>. QED  BY <1>4, <2>1, OnlyThread DEF NoMoreNonSTRequests
<1>5. CASE AddInProgressNonST(t)
  <2>. DEFINE x == [thread[t] EXCEPT !.pc = "start_non_st",
                                     !.request = NoRequest]
  <2>1. x \in ThreadRecords
    <3>1. "start_non_st" \in PCs /\ thread[t] \in ThreadRecords
      BY ThreadRecord DEF PCs
    <3>. QED  BY <3>1, MoveRecord
  <2>2. LocalsOK(x)
    BY <1>5, ThreadFacts
       DEF AddInProgressNonST, ThreadRecords, LocalsOK, TokenPCs, AnswerPCs,
           RequestPCs
  <2>3. thread' \in [Threads -> ThreadStates]
    BY <1>5, <2>1, <2>2, ThreadFacts DEF AddInProgressNonST, ThreadStates
  <2>4. in_progress_requests' \subseteq Requests
    BY <1>5, ThreadFacts
       DEF AddInProgressNonST, LocalsOK, RequestPCs, TypeOK, LockerOK
  <2>. QED  BY <1>5, <2>3, <2>4 DEF AddInProgressNonST, TypeOK, LockerOK
<1>6. CASE CheckRunning(t)
  <2>1. thread' \in [Threads -> ThreadStates]
    BY <1>0, <1>6, GotoType DEF CheckRunning, TokenPCs
  <2>. QED  BY <1>6, <2>1, OnlyThread DEF CheckRunning
<1>7. CASE StartSTRequest(t)
  <2>. DEFINE r == Head(waiting_st_requests)
              k == Last(session_tokens)
              x == [thread[t] EXCEPT !.pc = "add_st", !.request = r,
                                     !.token = k]
  <2>1. r \in STRequests /\ waiting_st_requests' \in Seq(STRequests)
    BY <1>7, PopFront DEF StartSTRequest, TypeOK, LockerOK
  <2>2. k \in Tokens /\ session_tokens' \in Seq(Tokens)
    BY <1>7, PopBack DEF StartSTRequest, TypeOK, LockerOK
  <2>3. x \in ThreadRecords
    <3>1. r \in Requests \cup {NoRequest} /\ "add_st" \in PCs
      BY <2>1 DEF Requests, PCs
    <3>2. thread[t] \in ThreadRecords
      BY ThreadFacts
    <3>. QED  BY <2>2, <3>1, <3>2, StartRecord
  <2>4. LocalsOK(x)
    BY <1>7, <2>1, <2>2, ThreadFacts
       DEF StartSTRequest, ThreadRecords, LocalsOK, TokenPCs, AnswerPCs,
           RequestPCs, Requests
  <2>5. thread' \in [Threads -> ThreadStates]
    BY <1>7, <2>3, <2>4, ThreadFacts DEF StartSTRequest, ThreadStates
  <2>6. request' \in [Requests -> RequestStates]
    BY <1>7, <2>1, InitRequestType DEF StartSTRequest, TypeOK, Requests
  <2>. QED  BY <1>7, <2>1, <2>2, <2>5, <2>6 DEF StartSTRequest, TypeOK, LockerOK
<1>8. CASE NoMoreSTRequests(t)
  <2>1. thread' \in [Threads -> ThreadStates]
    BY <1>0, <1>8, GotoType DEF NoMoreSTRequests, TokenPCs
  <2>. QED  BY <1>8, <2>1, OnlyThread DEF NoMoreSTRequests
<1>9. CASE AddInProgressST(t)
  <2>. DEFINE x == [thread[t] EXCEPT !.pc = "check_running",
                                     !.request = NoRequest, !.token = NoToken]
  <2>1. x \in ThreadRecords
    <3>1. "check_running" \in PCs /\ thread[t] \in ThreadRecords
      BY ThreadRecord DEF PCs
    <3>. QED  BY <3>1, StartRecord
  <2>2. LocalsOK(x)
    BY <1>9, ThreadFacts, ValuesAssumption
       DEF AddInProgressST, ThreadRecords, LocalsOK, TokenPCs, AnswerPCs,
           RequestPCs
  <2>3. thread' \in [Threads -> ThreadStates]
    BY <1>9, <2>1, <2>2, ThreadFacts DEF AddInProgressST, ThreadStates
  <2>4. thread[t].request \in Requests /\ thread[t].token \in Tokens
    BY <1>9, ThreadFacts DEF AddInProgressST, LocalsOK, RequestPCs
  <2>5. in_progress_requests' \subseteq Requests
    BY <1>9, <2>4 DEF AddInProgressST, TypeOK, LockerOK
  <2>6. checked_out_tokens' \in [Requests -> Tokens \cup {NoToken}]
    BY <1>9, <2>4 DEF AddInProgressST, TypeOK, LockerOK
  <2>. QED  BY <1>9, <2>3, <2>5, <2>6 DEF AddInProgressST, TypeOK, LockerOK
<1>10. CASE RequestNeededSessionTokens(t)
  <2>1. thread' \in [Threads -> ThreadStates]
    BY <1>0, <1>10, GotoType, ThreadFacts
       DEF RequestNeededSessionTokens, Return, TokenPCs
  <2>. QED  BY <1>10, <2>1, OnlyThread DEF RequestNeededSessionTokens
<1>11. CASE GetCredentials(t)
  <2>. DEFINE p == IF At(t, "get_credentials") THEN "try" ELSE "try_one"
              x == [thread[t] EXCEPT !.credentials = credentials, !.pc = p]
  <2>1. CASE credentials = NoCredentials
    BY <1>11, <2>1, ThreadFacts, OnlyThread DEF GetCredentials, Return
  <2>2. CASE credentials # NoCredentials
    <3>0. p \in PCs /\ credentials \in Credentials \cup {NoCredentials}
      BY DEF PCs, TypeOK, LockerOK
    <3>1. x \in ThreadRecords
      BY <3>0, ThreadRecord DEF ThreadRecords
    <3>2. LocalsOK(x)
      <4>1. credentials \in Credentials
        BY <2>2, <3>0
      <4>2. x.pc \in {"try", "try_one"} /\ x.credentials = credentials
            /\ x.token = thread[t].token
        BY ThreadRecord DEF ThreadRecords
      <4>3. thread[t].token \notin Tokens
        BY <1>11, ThreadFacts DEF GetCredentials, LocalsOK, TokenPCs
      <4>. QED  BY <4>1, <4>2, <4>3
                DEF LocalsOK, TokenPCs, AnswerPCs, RequestPCs
    <3>3. thread' = [thread EXCEPT ![t] = x]
      BY <1>11, <2>2 DEF GetCredentials
    <3>. QED  BY <1>11, <3>1, <3>2, <3>3, ThreadFacts, OnlyThread
              DEF GetCredentials, ThreadStates
  <2>. QED  BY <2>1, <2>2
<1>12. CASE TryRequestSessionToken(t)
  <2>1. thread[t].credentials \in Credentials
    BY <1>12, ThreadFacts DEF TryRequestSessionToken, LocalsOK
  <2>2. token_calls' \subseteq TokenCalls /\ IsFiniteSet(token_calls')
    <3>1. PICK i \in CallIds : token_calls' = token_calls \cup
                 {[credentials |-> thread[t].credentials, id |-> i]}
      BY <1>12 DEF TryRequestSessionToken
    <3>2. [credentials |-> thread[t].credentials, id |-> i] \in TokenCalls
      BY <2>1 DEF TokenCalls
    <3>. QED  BY <3>1, <3>2, FS_AddElement DEF TypeOK
  <2>3. thread' \in [Threads -> ThreadStates]
    BY <1>12, ThreadFacts DEF TryRequestSessionToken, Return, TypeOK
  <2>. QED  BY <1>12, <2>2, <2>3 DEF TryRequestSessionToken, TypeOK, LockerOK
<1>13. CASE SessionTokenRequestRefused(t)
  BY <1>13, ThreadFacts, OnlyThread DEF SessionTokenRequestRefused, Return
<1>14. CASE CompletionCallback(t)
  <2>1. thread[t].finish \in Requests
    BY <1>14, ThreadFacts DEF CompletionCallback, LocalsOK
  <2>2. request' \in [Requests -> RequestStates]
    <3>1. Bump(request[thread[t].finish].completions, 2) \in 0..2
      BY <2>1, BumpType DEF TypeOK, RequestStates
    <3>. QED  BY <1>14, <2>1, <3>1 DEF CompletionCallback, TypeOK, RequestStates
  <2>3. thread' \in [Threads -> ThreadStates]
    BY <1>14, ThreadFacts, IdleType DEF CompletionCallback
  <2>. QED  BY <1>14, <2>2, <2>3 DEF CompletionCallback, TypeOK, LockerOK
<1>. QED
  BY <1>1, <1>2, <1>3, <1>4, <1>5, <1>6, <1>7, <1>8, <1>9, <1>10, <1>11,
     <1>12, <1>13, <1>14 DEF AttemptStep

\* The changes of the session state keep the types.
LEMMA ChangeStateType ==
  ASSUME TypeOK, NEW s \in SessionStates, ChangeSessionState(s)
  PROVE  /\ session_state' \in SessionStates
         /\ session_state_change_count' \in 0..(CountModulus - 1)
         /\ session_tokens' \in Seq(Tokens)
         /\ checked_out_tokens' \in [Requests -> Tokens \cup {NoToken}]
<1>1. (session_state_change_count + 1) % CountModulus \in 0..(CountModulus - 1)
  BY LimitsAssumption DEF TypeOK, LockerOK
<1>2. <<>> \in Seq(Tokens)
  OBVIOUS
<1>. QED  BY <1>1, <1>2 DEF ChangeSessionState, TypeOK, LockerOK

\* So do the changes made only if the change count is the one read before.
LEMMA SetStateSafeType ==
  ASSUME TypeOK, NEW s \in SessionStates, NEW n, SetSessionStateSafe(s, n)
  PROVE  /\ session_state' \in SessionStates
         /\ session_state_change_count' \in 0..(CountModulus - 1)
         /\ session_tokens' \in Seq(Tokens)
         /\ checked_out_tokens' \in [Requests -> Tokens \cup {NoToken}]
BY ChangeStateType DEF SetSessionStateSafe, TypeOK, LockerOK

\* Giving a token back, or deleting it, keeps the types.
LEMMA ReleaseType ==
  ASSUME TypeOK, NEW r \in Requests,
         DeleteCheckedOutToken(r) \/ ReuseToken(r)
  PROVE  /\ session_tokens' \in Seq(Tokens)
         /\ checked_out_tokens' \in [Requests -> Tokens \cup {NoToken}]
<1>1. HoldsToken(r) =>
        Append(session_tokens, checked_out_tokens[r]) \in Seq(Tokens)
  BY PushBack DEF HoldsToken, TypeOK, LockerOK
<1>. QED  BY <1>1 DEF DeleteCheckedOutToken, ReuseToken, TypeOK, LockerOK

\* Queueing a request keeps the types.
LEMMA PushType ==
  ASSUME TypeOK, NEW r \in Requests, PushWaiting(r)
  PROVE  /\ waiting_st_requests' \in Seq(STRequests)
         /\ waiting_non_st_requests' \in Seq(NonSTRequests)
<1>1. CASE r \in STRequests
  <2>1. Append(waiting_st_requests, r) \in Seq(STRequests)
    BY <1>1, PushBack DEF TypeOK, LockerOK
  <2>. QED  BY <1>1, <2>1 DEF PushWaiting, TypeOK, LockerOK
<1>2. CASE r \notin STRequests
  <2>1. r \in NonSTRequests
    BY <1>2 DEF Requests
  <2>2. Append(waiting_non_st_requests, r) \in Seq(NonSTRequests)
    BY <2>1, PushBack DEF TypeOK, LockerOK
  <2>. QED  BY <1>2, <2>2 DEF PushWaiting, TypeOK, LockerOK
<1>. QED  BY <1>1, <1>2

\* AddWaitingRequest, with its timeout, keeps the types.
LEMMA AddWaitingType ==
  ASSUME TypeOK, NEW r \in Requests, AddWaitingRequest(r)
  PROVE  /\ waiting_st_requests' \in Seq(STRequests)
         /\ waiting_non_st_requests' \in Seq(NonSTRequests)
         /\ time_out_requests' \in [Requests -> 0..MaxTimeOuts]
<1>1. Bump(time_out_requests[r], MaxTimeOuts) \in 0..MaxTimeOuts
  BY BumpType, LimitsAssumption DEF TypeOK, LockerOK
<1>. QED  BY <1>1, PushType DEF AddWaitingRequest, TypeOK, LockerOK

\* UpdateConnectionStateFromErrorCode keeps the types.
LEMMA ConnectionType ==
  ASSUME TypeOK, NEW result, UpdateConnectionState(result)
  PROVE  /\ connection_state' \in {"Uninitialized", "Unconnected", "Connected"}
         /\ connection_state_recheck_timer' \in 0..MaxTimerWaits
<1>1. Bump(connection_state_recheck_timer, MaxTimerWaits) \in 0..MaxTimerWaits
  BY BumpType, LimitsAssumption DEF TypeOK, LockerOK
<1>. QED  BY <1>1, LimitsAssumption
          DEF UpdateConnectionState, Rearmed, TypeOK, LockerOK

\* The steps after an API response keep the types.
LEMMA ApiType ==
  ASSUME TypeOK, NEW t \in Threads, ApiStep(t)
  PROVE  TypeOK'
<1>. DEFINE th == thread[t]
<1>1. CASE RemoveInProgressRequest(t)
  <2>. DEFINE x == [th EXCEPT !.pc = "release", !.finish = th.request]
  <2>1. x \in ThreadRecords
    <3>1. "release" \in PCs /\ thread[t] \in ThreadRecords /\ th.request \in Requests \cup {NoRequest}
      BY ThreadRecord DEF PCs, ThreadRecords
    <3>. QED  BY <3>1, MoveRecord
  <2>2. LocalsOK(x)
    BY <1>1, ThreadFacts
       DEF RemoveInProgressRequest, ThreadRecords, LocalsOK, TokenPCs,
           AnswerPCs, RequestPCs
  <2>3. thread' \in [Threads -> ThreadStates]
    BY <1>1, <2>1, <2>2, ThreadFacts DEF RemoveInProgressRequest, ThreadStates
  <2>. QED  BY <1>1, <2>3 DEF RemoveInProgressRequest, TypeOK, LockerOK
<1>2. ASSUME MoveInProgressToWaiting(t) \/ MoveInProgressToDelayed(t)
      PROVE  TypeOK'
  <2>. DEFINE x == [th EXCEPT !.pc = "release"]
  <2>1. x \in ThreadRecords
    BY ThreadRecord DEF ThreadRecords, PCs
  <2>2. LocalsOK(x)
    BY <1>2, ThreadFacts
       DEF MoveInProgressToWaiting, MoveInProgressToDelayed, ThreadRecords,
           LocalsOK, TokenPCs, AnswerPCs, RequestPCs
  <2>3. thread' \in [Threads -> ThreadStates]
    BY <1>2, <2>1, <2>2, ThreadFacts
       DEF MoveInProgressToWaiting, MoveInProgressToDelayed, ThreadStates
  <2>4. th.request \in Requests
    BY <1>2, ThreadFacts
       DEF MoveInProgressToWaiting, MoveInProgressToDelayed, LocalsOK,
           RequestPCs
  <2>5. CASE MoveInProgressToWaiting(t)
    BY <2>3, <2>4, <2>5, PushType DEF MoveInProgressToWaiting, TypeOK, LockerOK
  <2>6. CASE MoveInProgressToDelayed(t)
    BY <2>3, <2>4, <2>6 DEF MoveInProgressToDelayed, TypeOK, LockerOK
  <2>. QED  BY <1>2, <2>5, <2>6
<1>3. CASE ReleaseToken(t)
  <2>1. th.request \in Requests /\ th.finish \in Requests \cup {NoRequest}
    BY <1>3, ThreadFacts DEF ReleaseToken, LocalsOK, RequestPCs, ThreadRecords
  <2>2. /\ session_tokens' \in Seq(Tokens)
        /\ checked_out_tokens' \in [Requests -> Tokens \cup {NoToken}]
    BY <1>3, <2>1, ReleaseType DEF ReleaseToken
  <2>3. thread' \in [Threads -> ThreadStates]
    BY <1>3, <2>1, IdleType, ThreadFacts DEF ReleaseToken
  <2>. QED  BY <1>3, <2>2, <2>3 DEF ReleaseToken, TypeOK, LockerOK
<1>. QED  BY <1>1, <1>2, <1>3 DEF ApiStep

\* The steps of HandleSessionTokenResponse keep the types.
LEMMA TokenType ==
  ASSUME TypeOK, NEW t \in Threads, TokenStep(t)
  PROVE  TypeOK'
<1>. DEFINE th == thread[t]
<1>1. CASE GetSessionState(t)
  <2>. DEFINE x == [th EXCEPT !.pc = "update_connection",
                              !.state = session_state,
                              !.count = session_state_change_count]
  <2>0. session_state \in SessionStates /\ session_state_change_count \in Nat
    BY LimitsAssumption DEF TypeOK, LockerOK
  <2>1. x \in ThreadRecords
    <3>1. "update_connection" \in PCs /\ thread[t] \in ThreadRecords
      BY ThreadRecord DEF PCs
    <3>. QED  BY <2>0, <3>1, MoveRecord
  <2>2. LocalsOK(x)
    BY <1>1, ThreadFacts
       DEF GetSessionState, ThreadRecords, LocalsOK, TokenPCs, AnswerPCs,
           RequestPCs
  <2>. QED  BY <1>1, <2>1, <2>2, ThreadFacts, OnlyThread
            DEF GetSessionState, ThreadStates
<1>2. CASE TokenConnectionUpdate(t)
  <2>. DEFINE p == IF th.result = "ok" THEN "reset_failures" ELSE "failed"
              x == [th EXCEPT !.pc = p]
  <2>1. p \in PCs
    BY DEF PCs
  <2>2. x \in ThreadRecords
    BY <2>1, ThreadFacts DEF ThreadRecords
  <2>3. LocalsOK(x)
    BY <1>2, ThreadFacts
       DEF TokenConnectionUpdate, ThreadRecords, LocalsOK, TokenPCs,
           AnswerPCs, RequestPCs
  <2>4. thread' \in [Threads -> ThreadStates]
    BY <1>2, <2>2, <2>3, ThreadFacts DEF TokenConnectionUpdate, ThreadStates
  <2>. QED  BY <1>2, <2>4, ConnectionType
            DEF TokenConnectionUpdate, TypeOK, LockerOK
<1>3. CASE IncrementFailureCount(t)
  <2>. DEFINE x == [th EXCEPT !.pc = "judge"]
  <2>1. x \in ThreadRecords
    BY ThreadRecord DEF ThreadRecords, PCs
  <2>2. LocalsOK(x)
    BY <1>3, ThreadFacts
       DEF IncrementFailureCount, ThreadRecords, LocalsOK, TokenPCs,
           AnswerPCs, RequestPCs
  <2>3. thread' \in [Threads -> ThreadStates]
    BY <1>3, <2>1, <2>2, ThreadFacts DEF IncrementFailureCount, ThreadStates
  <2>4. failure_count' \in 0..skProlongedFailureThreshold
    BY <1>3, BumpType, LimitsAssumption
       DEF IncrementFailureCount, TypeOK, LockerOK
  <2>5. session_token_failure_timer' \in 0..MaxTimerWaits
    <3>1. session_token_failure_timer' \in {0, session_token_failure_timer}
      BY <1>3 DEF IncrementFailureCount
    <3>. QED  BY <3>1, LimitsAssumption DEF TypeOK, LockerOK
  <2>. QED  BY <1>3, <2>3, <2>4, <2>5 DEF IncrementFailureCount, TypeOK, LockerOK
<1>4. CASE JudgeFailure(t)
  <2>1. PICK p \in {"set_failure", "arm"} :
          thread' = [thread EXCEPT ![t].pc = p]
    BY <1>4 DEF JudgeFailure
  <2>. DEFINE x == [th EXCEPT !.pc = p]
  <2>2. x \in ThreadRecords
    BY ThreadRecord DEF ThreadRecords, PCs
  <2>3. LocalsOK(x)
    BY <1>4, ThreadFacts
       DEF JudgeFailure, ThreadRecords, LocalsOK, TokenPCs, AnswerPCs,
           RequestPCs
  <2>. QED  BY <1>4, <2>1, <2>2, <2>3, ThreadFacts, OnlyThread
            DEF JudgeFailure, ThreadStates
<1>5. CASE SetFailureState(t)
  <2>. DEFINE x == [th EXCEPT !.pc = "arm"]
  <2>1. x \in ThreadRecords
    BY ThreadRecord DEF ThreadRecords, PCs
  <2>2. LocalsOK(x)
    BY <1>5, ThreadFacts
       DEF SetFailureState, ThreadRecords, LocalsOK, TokenPCs, AnswerPCs,
           RequestPCs
  <2>3. thread' \in [Threads -> ThreadStates]
    BY <1>5, <2>1, <2>2, ThreadFacts DEF SetFailureState, ThreadStates
  <2>4. th.credentials \in Credentials /\ th.result \in AllTokenResults
    BY <1>5, ThreadFacts DEF SetFailureState, LocalsOK, AnswerPCs
  <2>5. FailureState(th) \in SessionStates
    BY <2>4, SessionStateTypes DEF FailureState
  <2>. QED  BY <1>5, <2>3, <2>5, SetStateSafeType
            DEF SetFailureState, TypeOK, LockerOK
<1>6. CASE ArmFailureTimer(t)
  <2>1. session_token_failure_timer' \in 0..MaxTimerWaits
    BY <1>6, BumpType, LimitsAssumption DEF ArmFailureTimer, TypeOK, LockerOK
  <2>. QED  BY <1>6, <2>1, IdleType, ThreadFacts
            DEF ArmFailureTimer, TypeOK, LockerOK
<1>7. CASE ResetFailureCount(t)
  <2>. DEFINE x == [th EXCEPT !.pc = "add_token"]
  <2>1. x \in ThreadRecords
    BY ThreadRecord DEF ThreadRecords, PCs
  <2>2. LocalsOK(x)
    BY <1>7, ThreadFacts
       DEF ResetFailureCount, ThreadRecords, LocalsOK, TokenPCs, AnswerPCs,
           RequestPCs
  <2>3. thread' \in [Threads -> ThreadStates]
    BY <1>7, <2>1, <2>2, ThreadFacts DEF ResetFailureCount, ThreadStates
  <2>4. failure_count' \in 0..skProlongedFailureThreshold
    BY <1>7, LimitsAssumption DEF ResetFailureCount
  <2>. QED  BY <1>7, <2>3, <2>4 DEF ResetFailureCount, TypeOK, LockerOK
<1>8. CASE AddToken(t)
  <2>. DEFINE x == [th EXCEPT !.pc = "set_running", !.token = NoToken]
  <2>1. x \in ThreadRecords
    <3>1. "set_running" \in PCs /\ thread[t] \in ThreadRecords
      BY ThreadRecord DEF PCs
    <3>. QED  BY <3>1, MoveRecord
  <2>2. LocalsOK(x)
    BY <1>8, ThreadFacts, ValuesAssumption
       DEF AddToken, ThreadRecords, LocalsOK, TokenPCs, AnswerPCs, RequestPCs
  <2>3. thread' \in [Threads -> ThreadStates]
    BY <1>8, <2>1, <2>2, IdleType, ThreadFacts
       DEF AddToken, AttemptRequests, ThreadStates
  <2>4. th.token \in Tokens
    BY <1>8, ThreadFacts DEF AddToken, LocalsOK, TokenPCs
  <2>5. session_tokens' \in Seq(Tokens)
    BY <1>8, <2>4, PushBack DEF AddToken, AddSessionToken, TypeOK, LockerOK
  <2>. QED  BY <1>8, <2>3, <2>5 DEF AddToken, AddSessionToken, TypeOK, LockerOK
<1>9. CASE SetRunning(t)
  <2>1. thread' \in [Threads -> ThreadStates]
    BY <1>9, IdleType, ThreadFacts DEF SetRunning, AttemptRequests
  <2>2. Running(th.credentials) \in SessionStates
    BY <1>9, ThreadFacts, SessionStateTypes DEF SetRunning, LocalsOK, AnswerPCs
  <2>3. SetSessionStateSafe(Running(th.credentials), th.count)
    BY <1>9 DEF SetRunning
  <2>4. /\ session_state' \in SessionStates
        /\ session_state_change_count' \in 0..(CountModulus - 1)
        /\ session_tokens' \in Seq(Tokens)
        /\ checked_out_tokens' \in [Requests -> Tokens \cup {NoToken}]
    BY <2>2, <2>3, SetStateSafeType
  <2>. QED  BY <1>9, <2>1, <2>4 DEF SetRunning, TypeOK, LockerOK
<1>. QED
  BY <1>1, <1>2, <1>3, <1>4, <1>5, <1>6, <1>7, <1>8, <1>9 DEF TokenStep

\* Every event that an idle thread starts to handle keeps the types.
LEMMA EventType ==
  ASSUME TypeOK, NEW t \in Threads
  PROVE  /\ \A c \in Credentials : SetLoginCredentials(t, c) => TypeOK'
         /\ SessionTokenFailureTimeout(t) => TypeOK'
         /\ ConnectionStateRecheckTimeout(t) => TypeOK'
         /\ \A result : CheckConnectionStatusResponse(t, result) => TypeOK'
         /\ StatusChecked(t) => TypeOK'
         /\ \A call \in token_calls, result \in TokenResults,
               tk \in Tokens \cup {NoToken} :
              SessionTokenResponse(t, call, result, tk) => TypeOK'
<1>. USE LimitsAssumption
<1>1. ASSUME NEW c \in Credentials, SetLoginCredentials(t, c)  PROVE TypeOK'
  <2>1. thread' \in [Threads -> ThreadStates]
    BY <1>1, IdleType, ThreadFacts DEF SetLoginCredentials, AttemptRequests
  <2>2. credential_calls' \in 0..MaxCredentialCalls
    BY <1>1 DEF SetLoginCredentials, TypeOK
  <2>3. /\ session_state' \in SessionStates
        /\ session_state_change_count' \in 0..(CountModulus - 1)
        /\ session_tokens' \in Seq(Tokens)
        /\ checked_out_tokens' \in [Requests -> Tokens \cup {NoToken}]
        /\ credentials' \in Credentials \cup {NoCredentials}
    <3>1. CASE c = credentials
      BY <1>1, <3>1 DEF SetLoginCredentials, SetCredentials, TypeOK, LockerOK
    <3>2. CASE c # credentials
      <4>1. credentials' = c /\ ChangeSessionState(Initialized)
        BY <1>1, <3>2 DEF SetLoginCredentials, SetCredentials
      <4>. QED  BY <4>1, ChangeStateType, SessionStateTypes
    <3>. QED  BY <3>1, <3>2
  <2>. QED  BY <1>1, <2>1, <2>2, <2>3 DEF SetLoginCredentials, TypeOK, LockerOK
<1>2. ASSUME SessionTokenFailureTimeout(t)  PROVE TypeOK'
  <2>1. thread' \in [Threads -> ThreadStates]
    BY <1>2, IdleType, ThreadFacts DEF SessionTokenFailureTimeout
  <2>2. session_token_failure_timer' \in 0..MaxTimerWaits
    <3>1. /\ session_token_failure_timer \in 0..MaxTimerWaits
          /\ session_token_failure_timer > 0
          /\ session_token_failure_timer' = session_token_failure_timer - 1
      BY <1>2 DEF SessionTokenFailureTimeout, TypeOK, LockerOK
    <3>. QED  BY <3>1
  <2>. QED  BY <1>2, <2>1, <2>2 DEF SessionTokenFailureTimeout, TypeOK, LockerOK
<1>3. ASSUME ConnectionStateRecheckTimeout(t)  PROVE TypeOK'
  <2>1. thread' \in [Threads -> ThreadStates]
    BY <1>3, IdleType, ThreadFacts
       DEF ConnectionStateRecheckTimeout, AttemptRequests
  <2>2. connection_state_recheck_timer' \in 0..MaxTimerWaits
    BY <1>3 DEF ConnectionStateRecheckTimeout, TypeOK, LockerOK
  <2>. QED  BY <1>3, <2>1, <2>2
            DEF ConnectionStateRecheckTimeout, TypeOK, LockerOK
<1>4. ASSUME NEW result, CheckConnectionStatusResponse(t, result)
      PROVE  TypeOK'
  <2>1. thread' \in [Threads -> ThreadStates]
    <3>1. "status_checked" \in NeutralPCs
      BY DEF NeutralPCs, PCs, RequestPCs, AnswerPCs, TokenPCs
    <3>. QED  BY <1>4, <3>1, GotoType DEF CheckConnectionStatusResponse, TokenPCs
  <2>2. status_calls' \in 0..MaxStatusCalls
    BY <1>4 DEF CheckConnectionStatusResponse, TypeOK
  <2>3. /\ connection_state' \in {"Uninitialized", "Unconnected", "Connected"}
        /\ connection_state_recheck_timer' \in 0..MaxTimerWaits
    BY <1>4, ConnectionType DEF CheckConnectionStatusResponse
  <2>. QED  BY <1>4, <2>1, <2>2, <2>3
            DEF CheckConnectionStatusResponse, TypeOK, LockerOK
<1>5. ASSUME StatusChecked(t)  PROVE TypeOK'
  <2>1. thread' \in [Threads -> ThreadStates]
    <3>1. PICK x \in ThreadStates : thread' = [thread EXCEPT ![t] = x]
      <4>1. CASE connection_state = "Connected"
        BY <1>5, <4>1, IdleType DEF StatusChecked, AttemptRequests
      <4>2. CASE connection_state # "Connected"
        BY <1>5, <4>2, ThreadFacts DEF StatusChecked, Return
      <4>. QED  BY <4>1, <4>2
    <3>. QED  BY <3>1, ThreadFacts
  <2>. QED  BY <1>5, <2>1, OnlyThread DEF StatusChecked
<1>6. ASSUME NEW call \in token_calls, NEW result \in TokenResults,
             NEW tk \in Tokens \cup {NoToken},
             SessionTokenResponse(t, call, result, tk)
      PROVE  TypeOK'
  <2>. DEFINE x == [thread[t] EXCEPT !.pc = "snapshot", !.result = result,
                      !.token = tk, !.credentials = call.credentials]
  <2>1. call.credentials \in Credentials /\ result \in AllTokenResults
    BY ValuesAssumption DEF TypeOK, TokenCalls
  <2>2. x \in ThreadRecords
    <3>1. "snapshot" \in PCs /\ thread[t] \in ThreadRecords
      BY ThreadFacts DEF PCs
    <3>. QED  BY <2>1, <3>1, AnswerRecord
  <2>3. tk \in Tokens <=> result = "ok"
    BY <1>6, ValuesAssumption DEF SessionTokenResponse, ServerToken
  <2>4. LocalsOK(x)
    BY <2>1, <2>3, ThreadFacts
       DEF ThreadRecords, LocalsOK, TokenPCs, AnswerPCs, RequestPCs
  <2>5. thread' \in [Threads -> ThreadStates]
    <3>1. thread' = [thread EXCEPT ![t] = x]
      BY <1>6 DEF SessionTokenResponse
    <3>2. x \in ThreadStates
      BY <2>2, <2>4 DEF ThreadStates
    <3>. QED  BY <3>1, <3>2, ThreadFacts
  <2>6. token_calls' \subseteq TokenCalls /\ IsFiniteSet(token_calls')
    BY <1>6, FS_RemoveElement DEF SessionTokenResponse, TypeOK
  <2>7. in_progress_session_token_requests' \in Int
    <3>1. in_progress_session_token_requests \in Int
      BY DEF TypeOK, LockerOK
    <3>. QED  BY <1>6, <3>1 DEF SessionTokenResponse
  <2>. HIDE DEF x
  <2>. QED  BY <1>6, <2>5, <2>6, <2>7 DEF SessionTokenResponse, TypeOK, LockerOK
<1>. QED  BY <1>1, <1>2, <1>3, <1>4, <1>5, <1>6

\* Every event about one request keeps the types.
LEMMA RequestType ==
  ASSUME TypeOK, NEW r \in Requests
  PROVE  /\ \A t \in Threads : RequestEvent(t, r) => TypeOK'
         /\ RetryTimePasses(r) => TypeOK'
<1>. USE LimitsAssumption
<1>0. /\ request[r] \in RequestStates
      /\ Bump(request[r].completions, 2) \in 0..2
      /\ \A x \in RequestStates :
           [request EXCEPT ![r] = x] \in [Requests -> RequestStates]
  <2>1. request[r] \in RequestStates /\ request[r].completions \in 0..2
    BY DEF TypeOK, RequestStates
  <2>. QED  BY <2>1, BumpType DEF TypeOK
<1>1. ASSUME NEW t \in Threads, Call(t, r)  PROVE TypeOK'
  <2>1. thread' \in [Threads -> ThreadStates]
    BY <1>1, IdleType, ThreadFacts DEF Call, AttemptRequests
  <2>. DEFINE x == [request[r] EXCEPT !.called = TRUE]
  <2>2. x \in RequestStates
    BY <1>0 DEF RequestStates
  <2>3. request' \in [Requests -> RequestStates]
    BY <1>0, <1>1, <2>2 DEF Call
  <2>4. /\ waiting_st_requests' \in Seq(STRequests)
        /\ waiting_non_st_requests' \in Seq(NonSTRequests)
        /\ time_out_requests' \in [Requests -> 0..MaxTimeOuts]
    BY <1>1, AddWaitingType DEF Call
  <2>. QED  BY <1>1, <2>1, <2>3, <2>4 DEF Call, TypeOK, LockerOK
<1>2. ASSUME NEW t \in Threads, Cancel(t, r)  PROVE TypeOK'
  <2>. DEFINE h == IF request[r].http = "live" THEN "cancelling"
                                               ELSE request[r].http
              n == IF request[r].inited THEN request[r].completions
                                        ELSE Bump(request[r].completions, 2)
              x == [request[r] EXCEPT !.cancelled = TRUE, !.http = h,
                                      !.completions = n]
  <2>1. h \in {"none", "live", "cancelling"} /\ n \in 0..2
    BY <1>0 DEF RequestStates
  <2>2. x \in RequestStates
    BY <1>0, <2>1 DEF RequestStates
  <2>3. request' = [request EXCEPT ![r] = x]
    BY <1>2 DEF Cancel
  <2>4. request' \in [Requests -> RequestStates]
    BY <1>0, <2>2, <2>3
  <2>. HIDE DEF x, n, h
  <2>. QED  BY <1>2, <2>4 DEF Cancel, TypeOK, LockerOK
<1>3. ASSUME NEW t \in Threads,
             NEW result \in ApiResults \cup {"cancelled"},
             ApiResponse(t, r, result)
      PROVE  TypeOK'
  <2>. DEFINE y == [request[r] EXCEPT !.http = "none"]
              p == IF r \in STRequests /\ Retryable(result) /\ ~request[r].expired
                   THEN "retry" ELSE "remove"
              x == [thread[t] EXCEPT !.request = r, !.result = result, !.pc = p]
  <2>1. y \in RequestStates
    BY <1>0 DEF RequestStates
  <2>2. request' \in [Requests -> RequestStates]
    BY <1>0, <1>3, <2>1 DEF ApiResponse
  <2>3. p \in {"retry", "remove"} /\ p \in PCs
    BY DEF PCs
  <2>4. result \in AllApiResults \cup {"cancelled"}
    BY ValuesAssumption
  <2>. HIDE DEF p
  <2>5. x \in ThreadRecords
    BY <2>3, <2>4, ThreadFacts DEF ThreadRecords
  <2>6. LocalsOK(x)
    BY <1>3, <2>3, ThreadFacts
       DEF ApiResponse, ThreadRecords, LocalsOK, TokenPCs, AnswerPCs, RequestPCs
  <2>7. thread' = [thread EXCEPT ![t] = x]
    BY <1>3 DEF ApiResponse, p
  <2>8. thread' \in [Threads -> ThreadStates]
    BY <2>5, <2>6, <2>7, ThreadFacts DEF ThreadStates
  <2>9. /\ connection_state' \in {"Uninitialized", "Unconnected", "Connected"}
        /\ connection_state_recheck_timer' \in 0..MaxTimerWaits
    BY <1>3, ConnectionType DEF ApiResponse
  <2>. QED  BY <1>3, <2>2, <2>8, <2>9 DEF ApiResponse, TypeOK, LockerOK
<1>4. ASSUME NEW t \in Threads, DelayedRequestTimeout(t, r)  PROVE TypeOK'
  <2>1. thread' \in [Threads -> ThreadStates]
    BY <1>4, IdleType, ThreadFacts DEF DelayedRequestTimeout, AttemptRequests
  <2>2. /\ waiting_st_requests' \in Seq(STRequests)
        /\ waiting_non_st_requests' \in Seq(NonSTRequests)
        /\ time_out_requests' \in [Requests -> 0..MaxTimeOuts]
    BY <1>4, AddWaitingType DEF DelayedRequestTimeout
  <2>. QED  BY <1>4, <2>1, <2>2 DEF DelayedRequestTimeout, TypeOK, LockerOK
<1>5. ASSUME NEW t \in Threads, HandleTimedOutRequest(t, r)  PROVE TypeOK'
  <2>1. time_out_requests' \in [Requests -> 0..MaxTimeOuts]
    <3>1. time_out_requests[r] \in 0..MaxTimeOuts /\ time_out_requests[r] > 0
      BY <1>5 DEF HandleTimedOutRequest, TypeOK, LockerOK
    <3>2. time_out_requests[r] - 1 \in 0..MaxTimeOuts
      BY <3>1
    <3>. QED  BY <1>5, <3>2 DEF HandleTimedOutRequest, TypeOK, LockerOK
  <2>2. waiting_st_requests' \in Seq(STRequests)
    BY <1>5, ErasedType DEF HandleTimedOutRequest, TypeOK, LockerOK
  <2>3. waiting_non_st_requests' \in Seq(NonSTRequests)
    BY <1>5, ErasedType DEF HandleTimedOutRequest, TypeOK, LockerOK
  <2>. DEFINE x == [request[r] EXCEPT !.completions = Bump(@, 2)]
  <2>4. x \in RequestStates
    BY <1>0 DEF RequestStates
  <2>5. request' \in [Requests -> RequestStates]
    BY <1>0, <1>5, <2>4 DEF HandleTimedOutRequest, TypeOK
  <2>. QED  BY <1>5, <2>1, <2>2, <2>3, <2>5
            DEF HandleTimedOutRequest, TypeOK, LockerOK
<1>6. ASSUME RetryTimePasses(r)  PROVE TypeOK'
  <2>. DEFINE x == [request[r] EXCEPT !.expired = TRUE]
  <2>1. x \in RequestStates
    BY <1>0 DEF RequestStates
  <2>2. request' \in [Requests -> RequestStates]
    BY <1>0, <1>6, <2>1 DEF RetryTimePasses
  <2>. QED  BY <1>6, <2>2 DEF RetryTimePasses, TypeOK, LockerOK
<1>. QED  BY <1>1, <1>2, <1>3, <1>4, <1>5, <1>6 DEF RequestEvent, ApiResponseAny

\* Every step keeps the types.
LEMMA NextType == TypeOK /\ [Next]_vars => TypeOK'
<1>. SUFFICES ASSUME TypeOK, [Next]_vars  PROVE TypeOK'
  OBVIOUS
<1>1. CASE UNCHANGED vars
  BY <1>1 DEF TypeOK, LockerOK
<1>2. CASE Next
  BY <1>2, AttemptType, ApiType, TokenType, EventType, RequestType
     DEF Next, ThreadStep, SetLoginCredentialsAny, SessionTokenResponseAny,
         CheckConnectionStatusResponseAny
<1>. QED  BY <1>1, <1>2

\* In every reachable state the members of the locker, the request objects,
\* the outstanding calls and the handlers' local variables are well formed: in
\* particular a thread carries a token exactly between popping (or receiving)
\* it and storing it, and no handler uses a local that was not set.
THEOREM TypeCorrect == Spec => []TypeOK
BY InitType, NextType, PTL DEF Spec

----------------------------------------------------------------------------
(***************************************************************************)
(* The session token pool, for any number of threads: how far max_tokens   *)
(* can be exceeded, and that no token is in two places.                    *)
(***************************************************************************)

(***************************************************************************)
(* Only six actions move a token or a get_session_token call.  Every other *)
(* step leaves the pool alone or clears it, and at most drops what a       *)
(* thread holds.                                                           *)
(***************************************************************************)
Quiet ==
  /\ UNCHANGED callVars
  /\ \/ UNCHANGED tokenVars
     \/ session_tokens' = <<>> /\ checked_out_tokens' = [r \in Requests |-> NoToken]
  /\ \A u \in Threads : thread'[u].token \in {NoToken, thread[u].token}

\* The six steps that move a token.
TokenMove(t) ==
  \/ StartSTRequest(t) \/ AddInProgressST(t) \/ TryRequestSessionToken(t)
  \/ ReleaseToken(t) \/ AddToken(t)
  \/ \E call \in token_calls : SessionTokenResponseAny(t, call)

\* Replacing a thread's locals by ones that hold nothing, or what it held,
\* takes no token.
LEMMA QuietThread ==
  ASSUME TypeOK, NEW t \in Threads, NEW x,
         thread' = [thread EXCEPT ![t] = x],
         x.token \in {NoToken, thread[t].token}
  PROVE  \A u \in Threads : thread'[u].token \in {NoToken, thread[u].token}
BY DEF TypeOK

\* Returning, going idle, going on to AttemptRequests or elsewhere are such
\* replacements.
LEMMA QuietMoves ==
  ASSUME TypeOK, NEW t \in Threads, NEW p,
         \/ UNCHANGED thread
         \/ Return(t)
         \/ AttemptRequests(t)
         \/ Goto(t, p)
         \/ thread' = [thread EXCEPT ![t] = IdleThread]
  PROVE  \A u \in Threads : thread'[u].token \in {NoToken, thread[u].token}
<1>1. CASE UNCHANGED thread
  BY <1>1
<1>2. CASE Return(t)
  BY <1>2, QuietThread, ReturnedHoldsNothing DEF Return
<1>3. CASE AttemptRequests(t)
  <2>. DEFINE x == [IdleThread EXCEPT !.pc = "attempt"]
  <2>1. x.token = NoToken
    BY DEF IdleThread
  <2>. QED  BY <1>3, <2>1, QuietThread DEF AttemptRequests
<1>4. CASE Goto(t, p)
  <2>. DEFINE x == [thread[t] EXCEPT !.pc = p]
  <2>1. x.token = thread[t].token
    BY ThreadFacts DEF ThreadRecords
  <2>2. thread' = [thread EXCEPT ![t] = x]
    BY <1>4
  <2>. QED  BY <2>1, <2>2, QuietThread
<1>5. CASE thread' = [thread EXCEPT ![t] = IdleThread]
  <2>1. IdleThread.token = NoToken
    BY DEF IdleThread
  <2>. QED  BY <1>5, <2>1, QuietThread
<1>. QED  BY <1>1, <1>2, <1>3, <1>4, <1>5

\* ChangeSessionStateInternal keeps every token or clears them all.
LEMMA StateChangeTokens ==
  ASSUME NEW s, NEW n, ChangeSessionState(s) \/ SetSessionStateSafe(s, n)
  PROVE  \/ UNCHANGED tokenVars
         \/ session_tokens' = <<>> /\ checked_out_tokens' = [r \in Requests |-> NoToken]
BY DEF ChangeSessionState, SetSessionStateSafe

\* The steps of AttemptRequests that are quiet.
LEMMA QuietAttempt ==
  ASSUME TypeOK, NEW t \in Threads, AttemptStep(t)
  PROVE  Quiet \/ TokenMove(t)
<1>1. ASSUME AttemptConnection(t) \/ SessionTokenRequestRefused(t)  PROVE Quiet
  BY <1>1, QuietMoves DEF AttemptConnection, SessionTokenRequestRefused, Quiet
<1>2. ASSUME \/ AttemptConnected(t) \/ NoMoreNonSTRequests(t)
             \/ CheckRunning(t) \/ NoMoreSTRequests(t)
      PROVE  Quiet
  <2>1. \E p : Goto(t, p)
    BY <1>2 DEF AttemptConnected, NoMoreNonSTRequests, CheckRunning,
                NoMoreSTRequests
  <2>2. UNCHANGED lockerVars
    BY <1>2 DEF AttemptConnected, NoMoreNonSTRequests, CheckRunning,
                NoMoreSTRequests
  <2>. QED  BY <2>1, <2>2, QuietMoves DEF Quiet
<1>3. CASE StartNonSTRequest(t)
  <2>. DEFINE x == [thread[t] EXCEPT !.pc = "add_non_st",
                      !.request = Head(waiting_non_st_requests)]
  <2>1. x.token = thread[t].token
    BY ThreadFacts DEF ThreadRecords
  <2>2. thread' = [thread EXCEPT ![t] = x]
    BY <1>3 DEF StartNonSTRequest
  <2>. QED  BY <1>3, <2>1, <2>2, QuietThread DEF StartNonSTRequest, Quiet
<1>4. CASE AddInProgressNonST(t)
  <2>. DEFINE x == [thread[t] EXCEPT !.pc = "start_non_st",
                                     !.request = NoRequest]
  <2>1. x.token = thread[t].token
    BY ThreadFacts DEF ThreadRecords
  <2>2. thread' = [thread EXCEPT ![t] = x]
    BY <1>4 DEF AddInProgressNonST
  <2>. QED  BY <1>4, <2>1, <2>2, QuietThread DEF AddInProgressNonST, Quiet
<1>5. CASE RequestNeededSessionTokens(t)
  <2>1. Return(t) \/ \E p : Goto(t, p)
    BY <1>5 DEF RequestNeededSessionTokens
  <2>. QED  BY <1>5, <2>1, QuietMoves DEF RequestNeededSessionTokens, Quiet
<1>6. CASE GetCredentials(t)
  <2>. DEFINE x == [thread[t] EXCEPT !.credentials = credentials,
                      !.pc = IF @ = "get_credentials" THEN "try" ELSE "try_one"]
  <2>1. x.token = thread[t].token
    BY ThreadFacts DEF ThreadRecords
  <2>2. Return(t) \/ thread' = [thread EXCEPT ![t] = x]
    BY <1>6 DEF GetCredentials
  <2>3. \A u \in Threads : thread'[u].token \in {NoToken, thread[u].token}
    <3>1. CASE Return(t)
      BY <3>1, QuietMoves
    <3>2. CASE thread' = [thread EXCEPT ![t] = x]
      BY <2>1, <3>2, QuietThread
    <3>. QED  BY <2>2, <3>1, <3>2
  <2>. QED  BY <1>6, <2>3 DEF GetCredentials, Quiet
<1>7. CASE CompletionCallback(t)
  BY <1>7, QuietMoves DEF CompletionCallback, Quiet
<1>. QED
  BY <1>1, <1>2, <1>3, <1>4, <1>5, <1>6, <1>7 DEF AttemptStep, TokenMove

\* The steps after a response that are quiet.
LEMMA QuietAnswer ==
  ASSUME TypeOK, NEW t \in Threads, ApiStep(t) \/ TokenStep(t) \/ StatusChecked(t)
  PROVE  Quiet \/ TokenMove(t)
<1>1. CASE RemoveInProgressRequest(t)
  <2>. DEFINE x == [thread[t] EXCEPT !.pc = "release",
                                     !.finish = thread[t].request]
  <2>1. x.token = thread[t].token
    BY ThreadFacts DEF ThreadRecords
  <2>2. thread' = [thread EXCEPT ![t] = x]
    BY <1>1 DEF RemoveInProgressRequest
  <2>. QED  BY <1>1, <2>1, <2>2, QuietThread DEF RemoveInProgressRequest, Quiet
<1>2. ASSUME MoveInProgressToWaiting(t) \/ MoveInProgressToDelayed(t)
      PROVE  Quiet
  BY <1>2, QuietMoves DEF MoveInProgressToWaiting, MoveInProgressToDelayed, Quiet
<1>3. CASE GetSessionState(t)
  <2>. DEFINE x == [thread[t] EXCEPT !.pc = "update_connection",
                      !.state = session_state,
                      !.count = session_state_change_count]
  <2>1. x.token = thread[t].token
    BY ThreadFacts DEF ThreadRecords
  <2>2. thread' = [thread EXCEPT ![t] = x]
    BY <1>3 DEF GetSessionState
  <2>. QED  BY <1>3, <2>1, <2>2, QuietThread DEF GetSessionState, Quiet
<1>4. ASSUME \/ TokenConnectionUpdate(t) \/ IncrementFailureCount(t)
             \/ JudgeFailure(t) \/ ResetFailureCount(t)
      PROVE  Quiet
  <2>1. \E p : Goto(t, p)
    BY <1>4 DEF TokenConnectionUpdate, IncrementFailureCount, JudgeFailure,
                ResetFailureCount
  <2>2. UNCHANGED <<tokenVars, callVars>>
    BY <1>4 DEF TokenConnectionUpdate, IncrementFailureCount, JudgeFailure,
                ResetFailureCount
  <2>. QED  BY <2>1, <2>2, QuietMoves DEF Quiet
<1>5. CASE SetFailureState(t)
  BY <1>5, QuietMoves, StateChangeTokens DEF SetFailureState, Quiet
<1>6. CASE ArmFailureTimer(t)
  BY <1>6, QuietMoves DEF ArmFailureTimer, Quiet
<1>7. CASE SetRunning(t)
  BY <1>7, QuietMoves, StateChangeTokens DEF SetRunning, Quiet
<1>8. CASE StatusChecked(t)
  BY <1>8, QuietMoves DEF StatusChecked, Quiet
<1>. QED
  BY <1>1, <1>2, <1>3, <1>4, <1>5, <1>6, <1>7, <1>8
     DEF ApiStep, TokenStep, TokenMove

\* The events that are quiet.
LEMMA QuietEvent ==
  ASSUME TypeOK, NEW t \in Threads
  PROVE  /\ \A c \in Credentials : SetLoginCredentials(t, c) => Quiet
         /\ SessionTokenFailureTimeout(t) => Quiet
         /\ ConnectionStateRecheckTimeout(t) => Quiet
         /\ \A result : CheckConnectionStatusResponse(t, result) => Quiet
         /\ \A r \in Requests : RequestEvent(t, r) => Quiet
<1>1. ASSUME NEW c \in Credentials, SetLoginCredentials(t, c)  PROVE Quiet
  BY <1>1, QuietMoves, StateChangeTokens
     DEF SetLoginCredentials, SetCredentials, Quiet
<1>2. ASSUME SessionTokenFailureTimeout(t)  PROVE Quiet
  <2>. DEFINE x == [IdleThread EXCEPT !.pc = "attempt", !.after = "force"]
  <2>1. x.token = NoToken
    BY DEF IdleThread
  <2>2. thread' = [thread EXCEPT ![t] = x]
    BY <1>2 DEF SessionTokenFailureTimeout
  <2>. QED  BY <1>2, <2>1, <2>2, QuietThread DEF SessionTokenFailureTimeout, Quiet
<1>3. ASSUME ConnectionStateRecheckTimeout(t)  PROVE Quiet
  BY <1>3, QuietMoves DEF ConnectionStateRecheckTimeout, Quiet
<1>4. ASSUME NEW result, CheckConnectionStatusResponse(t, result)  PROVE Quiet
  BY <1>4, QuietMoves DEF CheckConnectionStatusResponse, Quiet
<1>5. ASSUME NEW r \in Requests,
             Call(t, r) \/ Cancel(t, r) \/ DelayedRequestTimeout(t, r)
               \/ HandleTimedOutRequest(t, r)
      PROVE  Quiet
  BY <1>5, QuietMoves
     DEF Call, Cancel, DelayedRequestTimeout, HandleTimedOutRequest, Quiet
<1>6. ASSUME NEW r \in Requests, NEW result, ApiResponse(t, r, result)
      PROVE  Quiet
  <2>. DEFINE p == IF r \in STRequests /\ Retryable(result) /\ ~request[r].expired
                   THEN "retry" ELSE "remove"
              x == [thread[t] EXCEPT !.request = r, !.result = result, !.pc = p]
  <2>1. x.token = thread[t].token
    BY ThreadFacts DEF ThreadRecords
  <2>2. thread' = [thread EXCEPT ![t] = x]
    BY <1>6 DEF ApiResponse
  <2>3. UNCHANGED <<tokenVars, callVars>>
    BY <1>6 DEF ApiResponse
  <2>. HIDE DEF x
  <2>. QED  BY <2>1, <2>2, <2>3, QuietThread DEF Quiet
<1>. QED  BY <1>1, <1>2, <1>3, <1>4, <1>5, <1>6 DEF RequestEvent, ApiResponseAny

\* Every step is quiet or one of the six.
LEMMA StepKinds ==
  ASSUME TypeOK, [Next]_vars
  PROVE  Quiet \/ \E t \in Threads : TokenMove(t)
<1>1. CASE UNCHANGED vars
  BY <1>1 DEF Quiet
<1>2. ASSUME NEW r \in Requests, RetryTimePasses(r)  PROVE Quiet
  BY <1>2 DEF RetryTimePasses, Quiet
<1>. QED
  BY <1>1, <1>2, QuietAttempt, QuietAnswer, QuietEvent
     DEF Next, ThreadStep, SetLoginCredentialsAny,
         CheckConnectionStatusResponseAny, TokenMove

----------------------------------------------------------------------------
(***************************************************************************)
(* TokenBudget.  A step that moves a token takes it from one term of the   *)
(* sum and adds it to another.  Only TryRequestSessionToken adds to the    *)
(* sum: its check sees all terms but the tokens other threads hold, and    *)
(* its own thread holds none.                                              *)
(***************************************************************************)

\* What the sum of TokenBudget is made of.
BudgetTerms ==
  /\ IsFiniteSet(CheckedOut) /\ Cardinality(CheckedOut) \in Nat
  /\ IsFiniteSet(Holders) /\ Cardinality(Holders) \in Nat
  /\ IsFiniteSet(token_calls) /\ Cardinality(token_calls) \in Nat
  /\ Len(session_tokens) \in Nat
  /\ in_progress_session_token_requests \in Int

\* The terms of the budget are numbers.
LEMMA BudgetTermsType == TypeOK => BudgetTerms
<1>. SUFFICES ASSUME TypeOK PROVE BudgetTerms
  OBVIOUS
<1>1. CheckedOut \in SUBSET Requests /\ Holders \in SUBSET Threads
  BY DEF CheckedOut, Holders
<1>2. IsFiniteSet(CheckedOut) /\ IsFiniteSet(Holders)
  BY <1>1, FS_Subset, RequestsAssumption, ThreadsAssumption
<1>3. Len(session_tokens) \in Nat
  BY DEF TypeOK, LockerOK
<1>. QED  BY <1>2, <1>3, FS_CardinalityType DEF BudgetTerms, TypeOK, LockerOK

\* There is at least one thread.
LEMMA ThreadsCount == Cardinality(Threads) \in Nat \ {0}
BY FS_CardinalityType, FS_EmptySet, ThreadsAssumption

\* A thread holds a token exactly where LocalsOK says.
LEMMA HoldersFact ==
  ASSUME TypeOK, NEW t \in Threads
  PROVE  t \in Holders <=> thread[t].token \in Tokens
<1>1. thread[t].token \in Tokens \cup {NoToken}
  BY ThreadFacts DEF ThreadRecords
<1>. QED  BY <1>1, ValuesAssumption DEF Holders

\* How the holders change when one thread does.
LEMMA HoldersStep ==
  ASSUME TypeOK, NEW t \in Threads, NEW x,
         thread' = [thread EXCEPT ![t] = x]
  PROVE  /\ x.token = NoToken => Holders' = Holders \ {t}
         /\ x.token # NoToken => Holders' = Holders \cup {t}
BY DEF TypeOK, Holders

\* What remains to be shown of a step that adds nothing to the sum.
LEMMA BudgetKept ==
  ASSUME TypeOK, TypeOK', TokenBudget,
         in_progress_session_token_requests' = Cardinality(token_calls'),
         in_progress_session_token_requests' <= in_progress_session_token_requests,
         in_progress_session_token_requests' + Len(session_tokens')
             + Cardinality(CheckedOut') + Cardinality(Holders')
           <= in_progress_session_token_requests + Len(session_tokens)
                + Cardinality(CheckedOut) + Cardinality(Holders)
  PROVE  TokenBudget'
<1>1. BudgetTerms /\ BudgetTerms'
  BY BudgetTermsType, PTL
<1>2. in_progress_session_token_requests' <= max_in_progress_token_requests
  BY <1>1, LimitsAssumption DEF BudgetTerms, TokenBudget
<1>3. in_progress_session_token_requests + Len(session_tokens)
        + Cardinality(CheckedOut) + Cardinality(Holders)
        <= max_tokens + Cardinality(Threads) - 1
  BY <1>1 DEF BudgetTerms, TokenBudget, TokensInUse
<1>4. in_progress_session_token_requests' + Len(session_tokens')
        + Cardinality(CheckedOut') + Cardinality(Holders')
        <= max_tokens + Cardinality(Threads) - 1
  <2>1. max_tokens + Cardinality(Threads) - 1 \in Int
    BY ThreadsCount, LimitsAssumption
  <2>2. in_progress_session_token_requests + Len(session_tokens)
          + Cardinality(CheckedOut) + Cardinality(Holders) \in Int
    BY <1>1 DEF BudgetTerms
  <2>3. in_progress_session_token_requests' + Len(session_tokens')
          + Cardinality(CheckedOut') + Cardinality(Holders') \in Int
    BY <1>1 DEF BudgetTerms
  <2>. QED  BY <1>3, <2>1, <2>2, <2>3
<1>. QED  BY <1>1, <1>2, <1>4 DEF BudgetTerms, TokenBudget, TokensInUse

\* Initially nothing is spent.
LEMMA InitBudget == Init => TokenBudget
<1>. SUFFICES ASSUME Init PROVE TokenBudget
  OBVIOUS
<1>1. CheckedOut = {}
  BY DEF Init, CheckedOut, HoldsToken
<1>2. Holders = {}
  BY DEF Init, Holders, IdleThread
<1>. QED  BY <1>1, <1>2, FS_EmptySet, ThreadsCount, LimitsAssumption
          DEF Init, TokenBudget, TokensInUse

\* Quiet steps spend nothing.
LEMMA QuietBudget ==
  ASSUME TypeOK, TypeOK', TokenBudget, Quiet
  PROVE  TokenBudget'
<1>0. BudgetTerms /\ BudgetTerms'
  BY BudgetTermsType, PTL
<1>1. Cardinality(Holders') <= Cardinality(Holders)
  <2>1. Holders' \in SUBSET Holders
    BY DEF Quiet, Holders
  <2>. QED  BY <1>0, <2>1, FS_Subset DEF BudgetTerms
<1>2. /\ Len(session_tokens') <= Len(session_tokens)
      /\ Cardinality(CheckedOut') <= Cardinality(CheckedOut)
  <2>1. CASE UNCHANGED tokenVars
    <3>1. CheckedOut' = CheckedOut
      BY <2>1 DEF CheckedOut, HoldsToken
    <3>. QED  BY <1>0, <2>1, <3>1 DEF BudgetTerms
  <2>2. CASE /\ session_tokens' = <<>>
             /\ checked_out_tokens' = [r \in Requests |-> NoToken]
    <3>1. CheckedOut' = {}
      BY <2>2 DEF CheckedOut, HoldsToken
    <3>2. Cardinality(CheckedOut') = 0 /\ Len(session_tokens') = 0
      BY <2>2, <3>1, FS_EmptySet
    <3>. QED  BY <1>0, <3>2 DEF BudgetTerms
  <2>. QED  BY <2>1, <2>2 DEF Quiet
<1>3. /\ in_progress_session_token_requests' = Cardinality(token_calls')
      /\ in_progress_session_token_requests' = in_progress_session_token_requests
  BY DEF Quiet, TokenBudget
<1>. QED  BY <1>0, <1>1, <1>2, <1>3, BudgetKept DEF BudgetTerms

\* A token popped for a request moves from the pool to the thread.
LEMMA StartBudget ==
  ASSUME TypeOK, TypeOK', TokenBudget, NEW t \in Threads, StartSTRequest(t)
  PROVE  TokenBudget'
<1>0. BudgetTerms /\ BudgetTerms'
  BY BudgetTermsType, PTL
<1>. DEFINE x == [thread[t] EXCEPT !.pc = "add_st",
                    !.request = Head(waiting_st_requests),
                    !.token = Last(session_tokens)]
<1>1. thread' = [thread EXCEPT ![t] = x]
  BY DEF StartSTRequest
<1>2. /\ Last(session_tokens) \in Tokens
      /\ Len(session_tokens') = Len(session_tokens) - 1
  BY PopBack DEF StartSTRequest, TypeOK, LockerOK
<1>3. x.token # NoToken
  BY <1>2, ThreadFacts, ValuesAssumption DEF ThreadRecords
<1>. HIDE DEF x
<1>4. Holders' = Holders \cup {t}
  BY <1>1, <1>3, HoldersStep
<1>5. Cardinality(Holders') <= Cardinality(Holders) + 1
  <2>1. Cardinality(Holders \cup {t})
          \in {Cardinality(Holders), Cardinality(Holders) + 1}
    BY <1>0, FS_AddElement DEF BudgetTerms
  <2>. QED  BY <1>0, <1>4, <2>1 DEF BudgetTerms
<1>6. CheckedOut' = CheckedOut
  BY DEF StartSTRequest, CheckedOut, HoldsToken
<1>7. /\ in_progress_session_token_requests' = Cardinality(token_calls')
      /\ in_progress_session_token_requests' = in_progress_session_token_requests
  BY DEF StartSTRequest, TokenBudget
<1>. QED  BY <1>0, <1>2, <1>5, <1>6, <1>7, BudgetKept DEF BudgetTerms

\* Checking a token out moves it from the thread to checked_out_tokens_.
LEMMA CheckOutBudget ==
  ASSUME TypeOK, TypeOK', TokenBudget, NEW t \in Threads, AddInProgressST(t)
  PROVE  TokenBudget'
<1>0. BudgetTerms /\ BudgetTerms'
  BY BudgetTermsType, PTL
<1>. DEFINE x == [thread[t] EXCEPT !.pc = "check_running",
                    !.request = NoRequest, !.token = NoToken]
            r == thread[t].request
<1>1. thread' = [thread EXCEPT ![t] = x]
  BY DEF AddInProgressST
<1>2. x.token = NoToken
  BY ThreadFacts DEF ThreadRecords
<1>. HIDE DEF x
<1>3. Holders' = Holders \ {t}
  BY <1>1, <1>2, HoldersStep
<1>4. t \in Holders
  BY HoldersFact, ThreadFacts DEF AddInProgressST, LocalsOK
<1>5. Cardinality(Holders') = Cardinality(Holders) - 1
  BY <1>0, <1>3, <1>4, FS_RemoveElement DEF BudgetTerms
<1>6. CheckedOut' \in SUBSET (CheckedOut \cup {r})
  BY DEF AddInProgressST, CheckedOut, HoldsToken, TypeOK, LockerOK
<1>7. /\ IsFiniteSet(CheckedOut \cup {r})
      /\ Cardinality(CheckedOut \cup {r}) <= Cardinality(CheckedOut) + 1
      /\ Cardinality(CheckedOut \cup {r}) \in Nat
  <2>1. /\ IsFiniteSet(CheckedOut \cup {r})
        /\ Cardinality(CheckedOut \cup {r})
             \in {Cardinality(CheckedOut), Cardinality(CheckedOut) + 1}
    BY <1>0, FS_AddElement DEF BudgetTerms
  <2>. QED  BY <1>0, <2>1 DEF BudgetTerms
<1>8. Cardinality(CheckedOut') <= Cardinality(CheckedOut \cup {r})
  BY <1>6, <1>7, FS_Subset
<1>9. /\ in_progress_session_token_requests' = Cardinality(token_calls')
      /\ in_progress_session_token_requests' = in_progress_session_token_requests
      /\ Len(session_tokens') = Len(session_tokens)
  BY DEF AddInProgressST, TokenBudget
<1>. QED  BY <1>0, <1>5, <1>7, <1>8, <1>9, BudgetKept DEF BudgetTerms

\* A token given back moves from checked_out_tokens_ to the pool; a deleted one
\* is gone.
LEMMA ReleaseBudget ==
  ASSUME TypeOK, TypeOK', TokenBudget, NEW t \in Threads, ReleaseToken(t)
  PROVE  TokenBudget'
<1>0. BudgetTerms /\ BudgetTerms'
  BY BudgetTermsType, PTL
<1>. DEFINE x == [IdleThread EXCEPT !.pc = "attempt", !.finish = thread[t].finish]
            r == thread[t].request
<1>1. thread' = [thread EXCEPT ![t] = x]
  BY DEF ReleaseToken
<1>2. x.token = NoToken
  BY DEF IdleThread
<1>. HIDE DEF x
<1>3. Cardinality(Holders') <= Cardinality(Holders)
  <2>1. Holders' \in SUBSET Holders
    BY <1>1, <1>2, HoldersStep
  <2>. QED  BY <1>0, <2>1, FS_Subset DEF BudgetTerms
<1>4. r \in Requests
  BY ThreadFacts DEF ReleaseToken, LocalsOK, RequestPCs
<1>. HIDE DEF r
<1>5. Len(session_tokens') + Cardinality(CheckedOut')
        <= Len(session_tokens) + Cardinality(CheckedOut)
  <2>1. DeleteCheckedOutToken(r) \/ ReuseToken(r)
    BY DEF ReleaseToken, r
  <2>2. CASE DeleteCheckedOutToken(r)
    <3>1. CheckedOut' \in SUBSET CheckedOut
      BY <2>2 DEF DeleteCheckedOutToken, CheckedOut, HoldsToken, TypeOK, LockerOK
    <3>2. Cardinality(CheckedOut') <= Cardinality(CheckedOut)
      BY <1>0, <3>1, FS_Subset DEF BudgetTerms
    <3>. QED  BY <1>0, <2>2, <3>2 DEF BudgetTerms, DeleteCheckedOutToken
  <2>3. CASE ReuseToken(r) /\ HoldsToken(r)
    <3>1. r \in CheckedOut /\ CheckedOut' = CheckedOut \ {r}
      BY <1>4, <2>3 DEF ReuseToken, CheckedOut, HoldsToken, TypeOK, LockerOK
    <3>2. Cardinality(CheckedOut') = Cardinality(CheckedOut) - 1
      BY <1>0, <3>1, FS_RemoveElement DEF BudgetTerms
    <3>3. checked_out_tokens[r] \in Tokens
      BY <1>4, <2>3 DEF HoldsToken, TypeOK, LockerOK
    <3>4. Len(session_tokens') = Len(session_tokens) + 1
      BY <2>3, <3>3, PushBack DEF ReuseToken, TypeOK, LockerOK
    <3>. QED  BY <1>0, <3>2, <3>4 DEF BudgetTerms
  <2>4. CASE ReuseToken(r) /\ ~HoldsToken(r)
    <3>1. CheckedOut' = CheckedOut /\ session_tokens' = session_tokens
      BY <2>4 DEF ReuseToken, CheckedOut, HoldsToken
    <3>. QED  BY <1>0, <3>1 DEF BudgetTerms
  <2>. QED  BY <2>1, <2>2, <2>3, <2>4
<1>6. /\ in_progress_session_token_requests' = Cardinality(token_calls')
      /\ in_progress_session_token_requests' = in_progress_session_token_requests
  BY DEF ReleaseToken, TokenBudget
<1>. QED  BY <1>0, <1>3, <1>5, <1>6, BudgetKept DEF BudgetTerms

\* A token that has arrived moves from the thread to the pool, or is dropped.
LEMMA AddTokenBudget ==
  ASSUME TypeOK, TypeOK', TokenBudget, NEW t \in Threads, AddToken(t)
  PROVE  TokenBudget'
<1>0. BudgetTerms /\ BudgetTerms'
  BY BudgetTermsType, PTL
<1>1. \E x : thread' = [thread EXCEPT ![t] = x] /\ x.token = NoToken
  <2>. DEFINE y == [thread[t] EXCEPT !.pc = "set_running", !.token = NoToken]
              z == [IdleThread EXCEPT !.pc = "attempt"]
  <2>1. y.token = NoToken /\ z.token = NoToken
    BY ThreadFacts DEF ThreadRecords, IdleThread
  <2>2. thread' = [thread EXCEPT ![t] = y] \/ thread' = [thread EXCEPT ![t] = z]
    BY DEF AddToken, AttemptRequests
  <2>. HIDE DEF y, z
  <2>. QED  BY <2>1, <2>2
<1>2. Holders' = Holders \ {t}
  BY <1>1, HoldersStep
<1>3. t \in Holders /\ thread[t].token \in Tokens
  BY HoldersFact, ThreadFacts DEF AddToken, LocalsOK, TokenPCs
<1>4. Cardinality(Holders') = Cardinality(Holders) - 1
  BY <1>0, <1>2, <1>3, FS_RemoveElement DEF BudgetTerms
<1>5. Len(session_tokens') \in {Len(session_tokens), Len(session_tokens) + 1}
  BY <1>3, PushBack DEF AddToken, AddSessionToken, TypeOK, LockerOK
<1>6. CheckedOut' = CheckedOut
  BY DEF AddToken, AddSessionToken, CheckedOut, HoldsToken
<1>7. /\ in_progress_session_token_requests' = Cardinality(token_calls')
      /\ in_progress_session_token_requests' = in_progress_session_token_requests
  BY DEF AddToken, TokenBudget
<1>. QED  BY <1>0, <1>4, <1>5, <1>6, <1>7, BudgetKept DEF BudgetTerms

\* An answered call gives up its place to the token it brings, if any.
LEMMA AnswerBudget ==
  ASSUME TypeOK, TypeOK', TokenBudget, NEW t \in Threads, NEW call \in token_calls,
         NEW result, NEW tk, SessionTokenResponse(t, call, result, tk)
  PROVE  TokenBudget'
<1>0. BudgetTerms /\ BudgetTerms'
  BY BudgetTermsType, PTL
<1>1. Cardinality(Holders') <= Cardinality(Holders) + 1
  <2>. DEFINE x == [thread[t] EXCEPT !.pc = "snapshot", !.result = result,
                      !.token = tk, !.credentials = call.credentials]
  <2>1. thread' = [thread EXCEPT ![t] = x]
    BY DEF SessionTokenResponse
  <2>. HIDE DEF x
  <2>2. Holders' \in SUBSET (Holders \cup {t})
    BY <2>1, HoldersStep
  <2>3. /\ IsFiniteSet(Holders \cup {t})
        /\ Cardinality(Holders \cup {t})
             \in {Cardinality(Holders), Cardinality(Holders) + 1}
    BY <1>0, FS_AddElement DEF BudgetTerms
  <2>4. Cardinality(Holders') <= Cardinality(Holders \cup {t})
    BY <2>2, <2>3, FS_Subset
  <2>. QED  BY <1>0, <2>3, <2>4 DEF BudgetTerms
<1>2. Cardinality(token_calls') = Cardinality(token_calls) - 1
  BY <1>0, FS_RemoveElement DEF SessionTokenResponse, BudgetTerms
<1>3. /\ in_progress_session_token_requests' =
           in_progress_session_token_requests - 1
      /\ in_progress_session_token_requests' = Cardinality(token_calls')
  BY <1>2 DEF SessionTokenResponse, TokenBudget
<1>4. CheckedOut' = CheckedOut /\ session_tokens' = session_tokens
  BY DEF SessionTokenResponse, CheckedOut, HoldsToken
<1>. QED  BY <1>0, <1>1, <1>3, <1>4, BudgetKept DEF BudgetTerms

\* The one step that spends.
LEMMA TryBudget ==
  ASSUME TypeOK, TypeOK', TokenBudget, NEW t \in Threads,
         TryRequestSessionToken(t)
  PROVE  TokenBudget'
<1>0. BudgetTerms /\ BudgetTerms'
  BY BudgetTermsType, PTL
<1>. DEFINE n == in_progress_session_token_requests
            w == Len(session_tokens)
            c == Cardinality(CheckedOut)
            h == Cardinality(Holders)
<1>1. t \notin Holders
  BY HoldersFact, ThreadFacts DEF TryRequestSessionToken, LocalsOK, TokenPCs
<1>2. Holders' = Holders
  <2>1. UNCHANGED thread \/ Return(t)
    BY DEF TryRequestSessionToken
  <2>2. CASE UNCHANGED thread
    BY <2>2 DEF Holders
  <2>3. CASE Return(t)
    <3>1. Holders' = Holders \ {t}
      BY <2>3, ReturnedHoldsNothing, HoldersStep DEF Return
    <3>. QED  BY <1>1, <3>1
  <2>. QED  BY <2>1, <2>2, <2>3
<1>3. h <= Cardinality(Threads) - 1
  <2>1. Holders \in SUBSET (Threads \ {t})
    BY <1>1 DEF Holders
  <2>2. /\ IsFiniteSet(Threads \ {t})
        /\ Cardinality(Threads \ {t}) = Cardinality(Threads) - 1
    BY FS_RemoveElement, ThreadsAssumption
  <2>. QED  BY <2>1, <2>2, FS_Subset
<1>4. CheckedOut' = CheckedOut /\ session_tokens' = session_tokens
  BY DEF TryRequestSessionToken, CheckedOut, HoldsToken
<1>5. Cardinality(token_calls') = Cardinality(token_calls) + 1
  <2>1. PICK i \in CallIds :
          /\ \A call \in token_calls : call.id # i
          /\ token_calls' = token_calls \cup
                {[credentials |-> thread[t].credentials, id |-> i]}
    BY DEF TryRequestSessionToken
  <2>2. [credentials |-> thread[t].credentials, id |-> i] \notin token_calls
    BY <2>1
  <2>. QED  BY <1>0, <2>1, <2>2, FS_AddElement DEF BudgetTerms
<1>6. /\ in_progress_session_token_requests' = n + 1
      /\ in_progress_session_token_requests' = Cardinality(token_calls')
  BY <1>5 DEF TryRequestSessionToken, TokenBudget
<1>7. /\ n \in Int /\ w \in Nat /\ c \in Nat /\ h \in Nat
      /\ \/ n = 0 /\ w + c = 0
         \/ n < max_in_progress_token_requests /\ n + (w + c) < max_tokens
  BY <1>0 DEF TryRequestSessionToken, MayRequestSessionToken, TokensInUse,
              BudgetTerms
<1>. HIDE DEF n, w, c, h
<1>8. /\ n + 1 <= max_in_progress_token_requests
      /\ n + 1 + (w + c) + h <= max_tokens + Cardinality(Threads) - 1
  BY <1>3, <1>7, ThreadsCount, LimitsAssumption
<1>. QED  BY <1>2, <1>4, <1>6, <1>8 DEF TokenBudget, TokensInUse, n, w, c, h

\* Every step keeps the budget.
LEMMA NextBudget == TypeOK /\ TypeOK' /\ TokenBudget /\ [Next]_vars => TokenBudget'
<1>. SUFFICES ASSUME TypeOK, TypeOK', TokenBudget, [Next]_vars  PROVE TokenBudget'
  OBVIOUS
<1>1. CASE Quiet
  BY <1>1, QuietBudget
<1>2. ASSUME NEW t \in Threads, TokenMove(t)  PROVE TokenBudget'
  BY <1>2, StartBudget, CheckOutBudget, TryBudget, ReleaseBudget,
     AddTokenBudget, AnswerBudget DEF TokenMove, SessionTokenResponseAny
<1>. QED  BY <1>1, <1>2, StepKinds

\* For any number of threads, requests and tokens and any limits: every
\* outstanding get_session_token call is counted exactly once, never more than
\* max_in_progress_token_requests are outstanding, and the tokens that exist or
\* are asked for exceed max_tokens by at most one per additional thread.
THEOREM BudgetKeptForever == Spec => []TokenBudget
<1>1. Init => TypeOK /\ TokenBudget
  BY InitType, InitBudget
<1>2. TypeOK /\ TokenBudget /\ [Next]_vars => (TypeOK /\ TokenBudget)'
  BY NextType, NextBudget
<1>. QED  BY <1>1, <1>2, PTL DEF Spec

\* With one thread the sum never exceeds max_tokens, as the tests expect of
\* the maintainer: only a second thread can break TokenCap.
THEOREM OneThreadCap == Cardinality(Threads) = 1 => (Spec => []TokenCap)
<1>. SUFFICES ASSUME Cardinality(Threads) = 1  PROVE Spec => []TokenCap
  OBVIOUS
<1>1. TypeOK /\ TokenBudget => TokenCap
  <2>. SUFFICES ASSUME TypeOK, TokenBudget  PROVE TokenCap
    OBVIOUS
  <2>1. BudgetTerms
    BY BudgetTermsType
  <2>. QED  BY <2>1, LimitsAssumption
            DEF BudgetTerms, TokenBudget, TokenCap, TokensInUse
<1>. QED  BY <1>1, TypeCorrect, BudgetKeptForever, PTL

----------------------------------------------------------------------------
(***************************************************************************)
(* TokensDistinct is inductive as it stands: each step takes a token out   *)
(* of one place before it is in the next, and the server never issues one  *)
(* that is still held.                                                     *)
(***************************************************************************)

\* Adding a new element at the back of a sequence without repetitions.
LEMMA PushDistinct ==
  ASSUME NEW S, NEW q \in Seq(S), NEW e \in S, e \notin Range(q), IsInjective(q)
  PROVE  /\ IsInjective(Append(q, e))
         /\ Range(Append(q, e)) = Range(q) \cup {e}
<1>. DEFINE p == Append(q, e)
<1>1. /\ DOMAIN q = 1..Len(q) /\ DOMAIN p = 1..(Len(q) + 1)
      /\ \A i \in 1..Len(q) : p[i] = q[i]
      /\ p[Len(q) + 1] = e
      /\ Len(q) \in Nat
  BY PushBack
<1>. HIDE DEF p
<1>2. \A i \in 1..(Len(q) + 1) : i \in 1..Len(q) \/ i = Len(q) + 1
  BY <1>1
<1>3. IsInjective(p)
  BY <1>1, <1>2 DEF IsInjective, Range
<1>4. Range(p) = Range(q) \cup {e}
  BY <1>1, <1>2 DEF Range
<1>. QED  BY <1>3, <1>4 DEF p

\* Taking the back off a sequence without repetitions.
LEMMA PopDistinct ==
  ASSUME NEW S, NEW q \in Seq(S), q # <<>>, IsInjective(q)
  PROVE  /\ IsInjective(Front(q))
         /\ Range(Front(q)) \subseteq Range(q)
         /\ Last(q) \in Range(q)
         /\ Last(q) \notin Range(Front(q))
<1>. DEFINE p == Front(q)
<1>1. /\ DOMAIN q = 1..Len(q) /\ DOMAIN p = 1..(Len(q) - 1)
      /\ \A i \in 1..(Len(q) - 1) : p[i] = q[i]
      /\ Len(q) \in Nat \ {0}
  BY PopBack
<1>2. Last(q) = q[Len(q)]
  BY DEF Last
<1>. HIDE DEF p
<1>. QED  BY <1>1, <1>2 DEF IsInjective, Range, p

\* TokensDistinct in terms of the tokens' holders.
LEMMA DistinctFacts ==
  ASSUME TypeOK
  PROVE  /\ session_tokens \in Seq(Tokens)
         /\ \A u \in Threads : thread[u].token \in Tokens \cup {NoToken}
         /\ \A r \in Requests : checked_out_tokens[r] \in Tokens \cup {NoToken}
         /\ DOMAIN checked_out_tokens = Requests
BY ThreadFacts DEF TypeOK, LockerOK, ThreadRecords

\* Initially there is no token.
LEMMA InitDistinct == Init => TokensDistinct
BY DEF Init, TokensDistinct, CheckedOut, HoldsToken, Holders, IdleThread,
       IsInjective

\* Quiet steps only drop tokens.
LEMMA QuietDistinct ==
  ASSUME TypeOK, TypeOK', TokensDistinct, Quiet
  PROVE  TokensDistinct'
<1>1. \A u \in Holders' : u \in Holders /\ thread'[u].token = thread[u].token
  BY DEF Quiet, Holders
<1>2. CASE UNCHANGED tokenVars
  BY <1>1, <1>2 DEF TokensDistinct, CheckedOut, HoldsToken
<1>3. CASE /\ session_tokens' = <<>>
           /\ checked_out_tokens' = [r \in Requests |-> NoToken]
  <2>1. CheckedOut' = {} /\ Range(session_tokens') = {} /\ IsInjective(session_tokens')
    BY <1>3 DEF CheckedOut, HoldsToken, Range, IsInjective
  <2>. QED  BY <1>1, <2>1 DEF TokensDistinct
<1>. QED  BY <1>2, <1>3 DEF Quiet

\* Each of the six token moves keeps the tokens distinct.
LEMMA MoveDistinct ==
  ASSUME TypeOK, TypeOK', TokensDistinct, NEW t \in Threads, TokenMove(t)
  PROVE  TokensDistinct'
<1>. DEFINE others == \A u \in Threads \ {t} : thread'[u] = thread[u]
<1>1. CASE StartSTRequest(t)
  <2>1. others /\ thread'[t].token = Last(session_tokens)
    BY <1>1, ThreadFacts DEF StartSTRequest, TypeOK, ThreadRecords
  <2>2. session_tokens' = Front(session_tokens) /\ CheckedOut' = CheckedOut
        /\ checked_out_tokens' = checked_out_tokens
    BY <1>1 DEF StartSTRequest, CheckedOut, HoldsToken
  <2>3. /\ IsInjective(session_tokens')
        /\ Range(session_tokens') \subseteq Range(session_tokens)
        /\ thread'[t].token \in Range(session_tokens)
        /\ thread'[t].token \notin Range(session_tokens')
    BY <1>1, <2>1, <2>2, PopDistinct, DistinctFacts DEF StartSTRequest, TokensDistinct
  <2>. QED  BY <2>1, <2>2, <2>3 DEF TokensDistinct, Holders
<1>2. CASE AddInProgressST(t)
  <2>. DEFINE r == thread[t].request
  <2>1. others /\ thread'[t].token = NoToken
    BY <1>2, ThreadFacts DEF AddInProgressST, TypeOK, ThreadRecords
  <2>2. session_tokens' = session_tokens
    BY <1>2 DEF AddInProgressST
  <2>3. r \in Requests /\ t \in Holders
    BY <1>2, HoldersFact, ThreadFacts DEF AddInProgressST, LocalsOK, RequestPCs
  <2>. HIDE DEF r
  <2>4. \A s \in CheckedOut' :
          /\ s \in CheckedOut \/ s = r
          /\ \/ s \in CheckedOut /\ checked_out_tokens'[s] = checked_out_tokens[s]
             \/ s = r /\ checked_out_tokens'[s] = thread[t].token
    BY <1>2, <2>3, DistinctFacts DEF AddInProgressST, CheckedOut, HoldsToken, r
  <2>5. \A u \in Holders' : u \in Holders \ {t} /\ thread'[u].token = thread[u].token
    BY <2>1 DEF Holders
  <2>. HIDE DEF others
  <2>. QED  BY <2>2, <2>3, <2>4, <2>5 DEF TokensDistinct
<1>3. CASE TryRequestSessionToken(t)
  <2>1. UNCHANGED tokenVars /\ (UNCHANGED thread \/ Return(t))
    BY <1>3 DEF TryRequestSessionToken
  <2>2. \A u \in Threads : thread'[u].token \in {NoToken, thread[u].token}
    BY <2>1, QuietMoves
  <2>3. \A u \in Holders' : u \in Holders /\ thread'[u].token = thread[u].token
    BY <2>2 DEF Holders
  <2>. QED  BY <2>1, <2>3 DEF TokensDistinct, CheckedOut, HoldsToken
<1>4. CASE ReleaseToken(t)
  <2>. DEFINE r == thread[t].request
  <2>1. others /\ thread'[t].token = NoToken
    BY <1>4 DEF ReleaseToken, TypeOK, IdleThread
  <2>2. \A u \in Holders' : u \in Holders /\ thread'[u].token = thread[u].token
    BY <2>1 DEF Holders
  <2>3. r \in Requests
    BY <1>4, ThreadFacts DEF ReleaseToken, LocalsOK, RequestPCs
  <2>4. DeleteCheckedOutToken(r) \/ ReuseToken(r)
    BY <1>4 DEF ReleaseToken
  <2>. HIDE DEF r, others
  <2>5. CASE ReuseToken(r) /\ HoldsToken(r)
    <3>1. r \in CheckedOut /\ checked_out_tokens[r] \in Tokens
      BY <2>3, <2>5, DistinctFacts DEF CheckedOut, HoldsToken
    <3>2. \A s \in CheckedOut' : s \in CheckedOut \ {r}
                 /\ checked_out_tokens'[s] = checked_out_tokens[s]
      BY <2>3, <2>5, DistinctFacts DEF ReuseToken, CheckedOut, HoldsToken
    <3>3. /\ IsInjective(session_tokens')
          /\ Range(session_tokens') = Range(session_tokens) \cup {checked_out_tokens[r]}
      <4>1. /\ session_tokens' = Append(session_tokens, checked_out_tokens[r])
            /\ checked_out_tokens[r] \notin Range(session_tokens)
            /\ IsInjective(session_tokens)
            /\ session_tokens \in Seq(Tokens)
        BY <2>5, <3>1, DistinctFacts DEF ReuseToken, TokensDistinct
      <4>. QED  BY <3>1, <4>1, PushDistinct
    <3>. QED  BY <2>2, <3>1, <3>2, <3>3 DEF TokensDistinct
  <2>6. CASE DeleteCheckedOutToken(r) \/ (ReuseToken(r) /\ ~HoldsToken(r))
    <3>1. session_tokens' = session_tokens
      BY <2>6 DEF DeleteCheckedOutToken, ReuseToken
    <3>2. \A s \in CheckedOut' : s \in CheckedOut
                 /\ checked_out_tokens'[s] = checked_out_tokens[s]
      BY <2>3, <2>6, DistinctFacts
         DEF DeleteCheckedOutToken, ReuseToken, CheckedOut, HoldsToken
    <3>. QED  BY <2>2, <3>1, <3>2 DEF TokensDistinct
  <2>. QED  BY <2>4, <2>5, <2>6
<1>5. CASE AddToken(t)
  <2>1. others /\ thread'[t].token = NoToken
    BY <1>5, ThreadFacts
       DEF AddToken, AttemptRequests, TypeOK, IdleThread, ThreadRecords
  <2>2. \A u \in Holders' : u \in Holders \ {t} /\ thread'[u].token = thread[u].token
    BY <2>1 DEF Holders
  <2>3. t \in Holders /\ thread[t].token \in Tokens
    BY <1>5, HoldersFact, ThreadFacts DEF AddToken, LocalsOK, TokenPCs
  <2>4. CheckedOut' = CheckedOut /\ checked_out_tokens' = checked_out_tokens
    BY <1>5 DEF AddToken, AddSessionToken, CheckedOut, HoldsToken
  <2>5. /\ IsInjective(session_tokens')
        /\ Range(session_tokens') \subseteq Range(session_tokens) \cup {thread[t].token}
    <3>1. session_tokens' \in {session_tokens, Append(session_tokens, thread[t].token)}
      BY <1>5 DEF AddToken, AddSessionToken
    <3>2. /\ thread[t].token \notin Range(session_tokens)
          /\ IsInjective(session_tokens)
          /\ session_tokens \in Seq(Tokens)
      BY <2>3, DistinctFacts DEF TokensDistinct
    <3>3. /\ IsInjective(Append(session_tokens, thread[t].token))
          /\ Range(Append(session_tokens, thread[t].token)) =
               Range(session_tokens) \cup {thread[t].token}
      BY <2>3, <3>2, PushDistinct
    <3>. QED  BY <3>1, <3>2, <3>3
  <2>. HIDE DEF others
  <2>. QED  BY <2>2, <2>3, <2>4, <2>5 DEF TokensDistinct
<1>6. ASSUME NEW call \in token_calls, NEW result, NEW tk,
             SessionTokenResponse(t, call, result, tk)
      PROVE  TokensDistinct'
  <2>1. others /\ thread'[t].token = tk
    BY <1>6, ThreadFacts DEF SessionTokenResponse, TypeOK, ThreadRecords
  <2>2. CheckedOut' = CheckedOut /\ UNCHANGED tokenVars
    BY <1>6 DEF SessionTokenResponse, CheckedOut, HoldsToken
  <2>3. tk = NoToken \/ tk \notin HeldTokens
    BY <1>6 DEF SessionTokenResponse, ServerToken
  <2>4. \A u \in Holders' : u = t \/ (u \in Holders /\ thread'[u].token = thread[u].token)
    BY <2>1 DEF Holders
  <2>5. t \in Holders' => tk # NoToken
    BY <2>1 DEF Holders
  <2>. QED  BY <2>1, <2>2, <2>3, <2>4, <2>5 DEF TokensDistinct, HeldTokens, Holders
<1>. QED
  BY <1>1, <1>2, <1>3, <1>4, <1>5, <1>6 DEF TokenMove, SessionTokenResponseAny

\* For any number of threads, requests and tokens: no session token is stored
\* twice, given to two requests, or stored while a request or a thread still
\* has it.  The assertions in AddSessionToken and ReuseToken never fail.
THEOREM TokensAlwaysDistinct == Spec => []TokensDistinct
<1>1. Init => TypeOK /\ TokensDistinct
  BY InitType, InitDistinct
<1>2. TypeOK /\ TokensDistinct /\ [Next]_vars => (TypeOK /\ TokensDistinct)'
  BY NextType, StepKinds, QuietDistinct, MoveDistinct
<1>. QED  BY <1>1, <1>2, PTL DEF Spec

----------------------------------------------------------------------------
(***************************************************************************)
(* The inductive invariant of the queues.  A request moves from place to   *)
(* place: a waiting queue, the wire, the hands of the thread that got its  *)
(* answer, the delay, and that thread's debt of a callback.                *)
(***************************************************************************)
InST(r) == r \in Range(waiting_st_requests)
InNonST(r) == r \in Range(waiting_non_st_requests)
OnWire(r) == request[r].http # "none"

\* The request is in one of the places that OnePlace counts.
Placed(r) == InST(r) \/ InNonST(r) \/ r \in delayed_requests \/ OnWire(r)

\* A thread that got the answer of the request, and is going to queue it again
\* or to complete it; and one that is going to call its callback.
Answering(t, r) == thread[t].pc \in {"remove", "retry"} /\ thread[t].request = r
Owes(t, r) == thread[t].finish = r

\* The places exclude each other, and so do the threads that handle its answer.
PlaceOK(r) ==
  /\ InST(r) => r \notin delayed_requests /\ ~OnWire(r)
  /\ InNonST(r) => ~OnWire(r) /\ ~request[r].inited
  /\ r \in delayed_requests => ~OnWire(r)
  /\ \A t \in Threads : Answering(t, r) =>
       /\ ~Placed(r) /\ request[r].inited
       /\ \A u \in Threads : (Answering(u, r) => u = t) /\ ~Owes(u, r)
  /\ \A t \in Threads : Owes(t, r) =>
       /\ ~Placed(r)
       /\ \A u \in Threads : Owes(u, r) => u = t

\* Nobody handles an answer of the request or owes its callback.
Unhandled(r) == \A t \in Threads : ~Answering(t, r) /\ ~Owes(t, r)

\* Nothing happened to a request that was not handed to Call, nothing more is
\* going to happen to one that was answered and not cancelled, and something is
\* to one that was not answered, unless it was dropped by its timeout.
AnswerOK(r) ==
  /\ ~request[r].called =>
       request[r].completions = 0 /\ ~request[r].inited /\ ~Placed(r) /\ Unhandled(r)
  /\ ~request[r].cancelled /\ request[r].completions > 0 =>
       request[r].completions = 1 /\ ~Placed(r) /\ Unhandled(r)
  /\ OnWire(r) => request[r].inited
  /\ request[r].called /\ request[r].completions = 0 =>
       \/ Placed(r) \/ ~Unhandled(r)
       \/ r \in STRequests /\ request[r].inited /\ request[r].expired

\* The points of AttemptRequests, at which a thread may owe a callback.
AttemptPCs == {"attempt", "start_non_st", "add_non_st", "check_running", "start_st",
               "add_st", "need", "get_credentials", "get_credentials_one", "try",
               "try_one"}

\* What follows AttemptRequests is a callback or a forced request for tokens,
\* and only session token requests are retried.
FinishOK(th) ==
  /\ th.finish # NoRequest =>
       th.pc \in AttemptPCs \cup {"release", "callback"} /\ th.after = "return"
  /\ th.pc \in {"idle", "remove", "retry"} => th.after = "return"
  /\ th.pc = "retry" => th.request \in STRequests

QueueInv ==
  /\ IsInjective(waiting_st_requests) /\ IsInjective(waiting_non_st_requests)
  /\ \A r \in Requests : PlaceOK(r) /\ AnswerOK(r)
  /\ \A t \in Threads : FinishOK(thread[t])
  /\ delayed_requests \subseteq STRequests

----------------------------------------------------------------------------
(***************************************************************************)
(* Lemmas about the queues.                                                *)
(***************************************************************************)

\* Taking the front off a queue in which nobody waits twice.
LEMMA PopFrontDistinct ==
  ASSUME NEW S, NEW q \in Seq(S), q # <<>>, IsInjective(q)
  PROVE  /\ IsInjective(Tail(q))
         /\ Head(q) \in Range(q)
         /\ Range(Tail(q)) = Range(q) \ {Head(q)}
<1>. DEFINE p == Tail(q)
<1>1. /\ DOMAIN q = 1..Len(q) /\ DOMAIN p = 1..(Len(q) - 1)
      /\ \A i \in 1..(Len(q) - 1) : p[i] = q[i + 1]
      /\ Len(q) \in Nat \ {0}
      /\ Head(q) = q[1]
  BY HeadTailProperties
<1>. HIDE DEF p
<1>2. \A i \in 1..Len(q) : i = 1 \/ (i - 1 \in 1..(Len(q) - 1) /\ p[i - 1] = q[i])
  BY <1>1
<1>3. IsInjective(p)
  BY <1>1 DEF IsInjective
<1>4. Head(q) \in Range(q)
  BY <1>1 DEF Range
<1>5. \A i \in 1..(Len(q) - 1) : i + 1 \in 1..Len(q) /\ i + 1 # 1
  BY <1>1
<1>6. \A e \in Range(p) : e \in Range(q) /\ e # Head(q)
  BY <1>1, <1>5 DEF IsInjective, Range
<1>7. \A e \in Range(q) : e = Head(q) \/ e \in Range(p)
  BY <1>1, <1>2 DEF Range
<1>. QED  BY <1>3, <1>4, <1>6, <1>7 DEF p

\* Erasing a request from such a queue (HandleTimedOutRequest).
LEMMA EraseDistinct ==
  ASSUME NEW S, NEW q \in Seq(S), IsInjective(q), NEW r, NEW p \in Erased(q, r)
  PROVE  IsInjective(p) /\ Range(p) = Range(q) \ {r}
<1>1. PICK i \in 1..Len(q) : q[i] = r /\ p = RemoveAt(q, i)
  BY DEF Erased
<1>. DEFINE n == Len(q) - 1
            f(j) == IF j < i THEN j ELSE j + 1
<1>2. n \in Nat /\ Len(q) = n + 1 /\ DOMAIN q = 1..(n + 1) /\ i \in 1..(n + 1)
  OBVIOUS
<1>3. DOMAIN p = 1..n /\ \A j \in 1..n : p[j] = q[f(j)]
  <2>. DEFINE a == SubSeq(q, 1, i - 1)
              b == SubSeq(q, i + 1, Len(q))
  <2>1. a \in Seq(S) /\ Len(a) = i - 1 /\ \A j \in 1..(i - 1) : a[j] = q[j]
    OBVIOUS
  <2>2. b \in Seq(S) /\ Len(b) = Len(q) - i /\ \A j \in 1..(Len(q) - i) : b[j] = q[i + j]
    OBVIOUS
  <2>3. p = a \o b
    BY <1>1 DEF RemoveAt
  <2>. HIDE DEF a, b
  <2>4. Len(p) = n /\ \A j \in 1..n : p[j] = IF j <= i - 1 THEN a[j] ELSE b[j - (i - 1)]
    <3>1. /\ Len(p) = Len(a) + Len(b)
          /\ \A j \in 1..(Len(a) + Len(b)) :
               p[j] = IF j <= Len(a) THEN a[j] ELSE b[j - Len(a)]
      BY <2>1, <2>2, <2>3, ConcatProperties
    <3>2. Len(a) + Len(b) = n
      BY <1>2, <2>1, <2>2
    <3>. QED  BY <2>1, <3>1, <3>2
  <2>5. p \in Seq(S)
    BY <2>1, <2>2, <2>3, ConcatProperties
  <2>6. \A j \in 1..n : p[j] = q[f(j)]
    <3>. SUFFICES ASSUME NEW j \in 1..n  PROVE p[j] = q[f(j)]
      OBVIOUS
    <3>1. CASE j < i
      BY <1>2, <2>1, <2>4, <3>1
    <3>2. CASE ~(j < i)
      <4>1. j - (i - 1) \in 1..(Len(q) - i) /\ i + (j - (i - 1)) = j + 1
        BY <1>2, <3>2
      <4>. QED  BY <1>2, <2>2, <2>4, <3>2, <4>1
    <3>. QED  BY <3>1, <3>2
  <2>. QED  BY <2>4, <2>5, <2>6
<1>4. \A j \in 1..n : f(j) \in 1..(n + 1) /\ f(j) # i
  BY <1>2
<1>5. \A j, k \in 1..n : f(j) = f(k) => j = k
  BY <1>2
<1>6. \A m \in 1..(n + 1) : m = i \/ \E j \in 1..n : f(j) = m
  <2>. SUFFICES ASSUME NEW m \in 1..(n + 1), m # i  PROVE \E j \in 1..n : f(j) = m
    OBVIOUS
  <2>1. CASE m < i
    <3>1. m \in 1..n /\ f(m) = m
      BY <1>2, <2>1
    <3>. QED  BY <3>1
  <2>2. CASE m > i
    <3>1. m - 1 \in 1..n /\ f(m - 1) = m
      BY <1>2, <2>2
    <3>. QED  BY <3>1
  <2>. QED  BY <1>2, <2>1, <2>2
<1>. HIDE DEF f, n
<1>7. IsInjective(p)
  BY <1>2, <1>3, <1>4, <1>5 DEF IsInjective
<1>8. \A e \in Range(p) : e \in Range(q) /\ e # r
  BY <1>1, <1>2, <1>3, <1>4 DEF IsInjective, Range
<1>9. \A e \in Range(q) : e = r \/ e \in Range(p)
  BY <1>1, <1>2, <1>3, <1>6 DEF Range
<1>. QED  BY <1>7, <1>8, <1>9

\* A request counts once for a queue it waits in.
LEMMA TimesInQueue ==
  ASSUME NEW S, NEW q \in Seq(S), IsInjective(q), NEW r
  PROVE  Times(q, r) = IF r \in Range(q) THEN 1 ELSE 0
<1>. DEFINE places == {i \in DOMAIN q : q[i] = r}
<1>1. CASE r \in Range(q)
  <2>1. PICK i \in DOMAIN q : q[i] = r
    BY <1>1 DEF Range
  <2>2. places = {i}
    BY <2>1 DEF IsInjective
  <2>. QED  BY <1>1, <2>2, FS_Singleton DEF Times
<1>2. CASE r \notin Range(q)
  <2>1. places = {}
    BY <1>2 DEF Range
  <2>. QED  BY <1>2, <2>1, FS_EmptySet DEF Times
<1>. QED  BY <1>1, <1>2

----------------------------------------------------------------------------
(***************************************************************************)
(* The steps.  A step concerns one request at most, and most concern none. *)
(***************************************************************************)

\* Nothing that the invariant says of the request changes.
Same(r) ==
  /\ InST(r)' <=> InST(r)
  /\ InNonST(r)' <=> InNonST(r)
  /\ r \in delayed_requests' <=> r \in delayed_requests
  /\ request'[r] = request[r]
  /\ \A t \in Threads :
       (Answering(t, r)' <=> Answering(t, r)) /\ (Owes(t, r)' <=> Owes(t, r))

\* Then the invariant keeps holding of it.
LEMMA SameKept ==
  ASSUME NEW r \in Requests, Same(r), PlaceOK(r), AnswerOK(r)
  PROVE  PlaceOK(r)' /\ AnswerOK(r)'
<1>1. /\ OnWire(r)' <=> OnWire(r)
      /\ Placed(r)' <=> Placed(r)
      /\ Unhandled(r)' <=> Unhandled(r)
  BY DEF Same, OnWire, Placed, Unhandled
<1>. HIDE DEF Placed, Unhandled, OnWire, Answering, Owes, InST, InNonST
<1>2. PlaceOK(r)'
  BY <1>1 DEF Same, PlaceOK
<1>3. AnswerOK(r)'
  BY <1>1 DEF Same, AnswerOK
<1>. QED  BY <1>2, <1>3

\* A thread goes on with x, which handles the same requests as before.
LEMMA SameThreads ==
  ASSUME TypeOK, NEW t \in Threads, NEW x, NEW r,
         thread' = [thread EXCEPT ![t] = x],
         /\ x.pc \in {"remove", "retry"} /\ x.request = r
            <=> thread[t].pc \in {"remove", "retry"} /\ thread[t].request = r,
         x.finish = r <=> thread[t].finish = r
  PROVE  \A u \in Threads :
           (Answering(u, r)' <=> Answering(u, r)) /\ (Owes(u, r)' <=> Owes(u, r))
<1>1. thread'[t] = x /\ \A u \in Threads \ {t} : thread'[u] = thread[u]
  BY DEF TypeOK
<1>. QED  BY <1>1 DEF Answering, Owes

\* The steps that concern no request: the moving thread handles no answer, before
\* or after, and owes what it owed.
LEMMA NeutralStep ==
  ASSUME TypeOK, QueueInv, NEW t \in Threads, NEW x,
         thread' = [thread EXCEPT ![t] = x],
         thread[t].pc \notin {"remove", "retry"}, x.pc \notin {"remove", "retry"},
         x.finish = thread[t].finish, FinishOK(x),
         UNCHANGED <<waiting_st_requests, waiting_non_st_requests,
                     delayed_requests, request>>
  PROVE  QueueInv'
<1>1. \A r \in Requests : Same(r)
  BY SameThreads DEF Same, InST, InNonST
<1>2. \A r \in Requests : PlaceOK(r)' /\ AnswerOK(r)'
  BY <1>1, SameKept DEF QueueInv
<1>3. \A u \in Threads : FinishOK(thread'[u])
  BY DEF TypeOK, QueueInv
<1>. QED  BY <1>2, <1>3 DEF QueueInv

\* Where such a thread may go: back to its caller, on to another point, or on to
\* AttemptRequests.
LEMMA NeutralMoves ==
  ASSUME TypeOK, QueueInv, NEW t \in Threads,
         UNCHANGED <<waiting_st_requests, waiting_non_st_requests,
                     delayed_requests, request>>
  PROVE  /\ thread[t].pc \in AttemptPCs \cup {"status_checked", "need_force"} /\ Return(t)
              => QueueInv'
         /\ \A p \in AttemptPCs : thread[t].pc \in AttemptPCs /\ Goto(t, p) => QueueInv'
         /\ \A p \in PCs \ {"idle", "retry", "remove"} :
              /\ thread[t].pc \notin AttemptPCs \cup {"retry", "remove", "release", "callback"}
              /\ Goto(t, p)
              => QueueInv'
         /\ /\ thread[t].pc \notin AttemptPCs \cup {"retry", "remove", "release", "callback"}
            /\ AttemptRequests(t) \/ thread' = [thread EXCEPT ![t] = IdleThread]
            => QueueInv'
<1>0. thread[t] \in ThreadRecords /\ FinishOK(thread[t])
  BY ThreadRecord DEF QueueInv
<1>1. ASSUME thread[t].pc \in AttemptPCs \cup {"status_checked", "need_force"}, Return(t)
      PROVE  QueueInv'
  <2>1. /\ Returned(thread[t]).finish = thread[t].finish
        /\ Returned(thread[t]).pc \in {"need_force", "callback", "idle"}
        /\ FinishOK(Returned(thread[t]))
    BY <1>0, <1>1 DEF Returned, IdleThread, FinishOK, ThreadRecords
  <2>2. thread[t].pc \notin {"remove", "retry"}
    BY <1>1 DEF AttemptPCs
  <2>. QED  BY <1>1, <2>1, <2>2, NeutralStep DEF Return
<1>2. ASSUME NEW p \in PCs, Goto(t, p), p \notin {"idle", "retry", "remove"},
             thread[t].pc \notin {"retry", "remove"},
             thread[t].finish # NoRequest => p \in AttemptPCs
      PROVE  QueueInv'
  <2>. DEFINE x == [thread[t] EXCEPT !.pc = p]
  <2>1. x.pc = p /\ x.finish = thread[t].finish /\ x.after = thread[t].after
    BY <1>0 DEF ThreadRecords
  <2>2. thread' = [thread EXCEPT ![t] = x]
    BY <1>2
  <2>3. FinishOK(x)
    BY <1>0, <1>2, <2>1 DEF FinishOK
  <2>. HIDE DEF x
  <2>. QED  BY <1>2, <2>1, <2>2, <2>3, NeutralStep
<1>3. ASSUME NEW p \in AttemptPCs, thread[t].pc \in AttemptPCs, Goto(t, p)
      PROVE  QueueInv'
  <2>1. p \in PCs /\ p \notin {"idle", "retry", "remove"} /\ thread[t].pc \notin {"retry", "remove"}
    BY <1>3 DEF AttemptPCs, PCs
  <2>. QED  BY <1>2, <1>3, <2>1
<1>4. ASSUME thread[t].pc \notin AttemptPCs \cup {"retry", "remove", "release", "callback"}
      PROVE  thread[t].finish = NoRequest
  BY <1>0, <1>4 DEF FinishOK
<1>5. ASSUME thread[t].pc \notin AttemptPCs \cup {"retry", "remove", "release", "callback"},
             AttemptRequests(t) \/ thread' = [thread EXCEPT ![t] = IdleThread]
      PROVE  QueueInv'
  <2>1. PICK x \in {IdleThread, [IdleThread EXCEPT !.pc = "attempt"]} :
          thread' = [thread EXCEPT ![t] = x]
    BY <1>5 DEF AttemptRequests
  <2>2. x.finish = NoRequest /\ x.pc \in {"idle", "attempt"} /\ FinishOK(x)
    BY DEF IdleThread, FinishOK
  <2>. QED  BY <1>4, <1>5, <2>1, <2>2, NeutralStep
<1>. QED  BY <1>1, <1>2, <1>3, <1>4, <1>5

\* The steps that concern one request.
LEMMA FocusStep ==
  ASSUME TypeOK, QueueInv, NEW r \in Requests, PlaceOK(r)', AnswerOK(r)',
         \A s \in Requests \ {r} : Same(s),
         \A u \in Threads : FinishOK(thread'[u]),
         IsInjective(waiting_st_requests'), IsInjective(waiting_non_st_requests'),
         delayed_requests' \subseteq STRequests
  PROVE  QueueInv'
<1>1. \A s \in Requests : PlaceOK(s)' /\ AnswerOK(s)'
  BY SameKept DEF QueueInv
<1>. QED  BY <1>1 DEF QueueInv

\* A request is queued, so that nobody may have it: AddWaitingRequest and
\* MoveInProgressToWaiting.
LEMMA PushFacts ==
  ASSUME TypeOK, QueueInv, NEW r \in Requests, ~InST(r), ~InNonST(r), PushWaiting(r)
  PROVE  /\ IsInjective(waiting_st_requests') /\ IsInjective(waiting_non_st_requests')
         /\ InST(r)' <=> r \in STRequests
         /\ InNonST(r)' <=> r \in NonSTRequests
         /\ \A s \in Requests \ {r} : (InST(s)' <=> InST(s)) /\ (InNonST(s)' <=> InNonST(s))
<1>0. /\ waiting_st_requests \in Seq(STRequests) /\ IsInjective(waiting_st_requests)
      /\ waiting_non_st_requests \in Seq(NonSTRequests)
      /\ IsInjective(waiting_non_st_requests)
  BY DEF TypeOK, LockerOK, QueueInv
<1>1. CASE r \in STRequests
  <2>1. /\ waiting_st_requests' = Append(waiting_st_requests, r)
        /\ waiting_non_st_requests' = waiting_non_st_requests
    BY <1>1 DEF PushWaiting
  <2>2. IsInjective(Append(waiting_st_requests, r))
        /\ Range(Append(waiting_st_requests, r)) = Range(waiting_st_requests) \cup {r}
    BY <1>0, <1>1, PushDistinct DEF InST
  <2>. QED  BY <1>0, <1>1, <2>1, <2>2, RequestsAssumption DEF InST, InNonST
<1>2. CASE r \in NonSTRequests
  <2>0. r \notin STRequests
    BY <1>2, RequestsAssumption
  <2>1. /\ waiting_non_st_requests' = Append(waiting_non_st_requests, r)
        /\ waiting_st_requests' = waiting_st_requests
    BY <2>0 DEF PushWaiting
  <2>2. IsInjective(Append(waiting_non_st_requests, r))
        /\ Range(Append(waiting_non_st_requests, r)) = Range(waiting_non_st_requests) \cup {r}
    BY <1>0, <1>2, PushDistinct DEF InNonST
  <2>. QED  BY <1>0, <1>2, <2>0, <2>1, <2>2 DEF InST, InNonST
<1>. QED  BY <1>1, <1>2 DEF Requests

\* The steps of AttemptRequests that start no request.
LEMMA QueueAttempt ==
  ASSUME TypeOK, QueueInv, NEW t \in Threads, AttemptStep(t),
         ~StartNonSTRequest(t), ~StartSTRequest(t), ~CompletionCallback(t)
  PROVE  QueueInv'
<1>0. thread[t] \in ThreadRecords /\ FinishOK(thread[t])
  BY ThreadRecord DEF QueueInv
<1>1. ASSUME AttemptConnection(t) \/ SessionTokenRequestRefused(t)  PROVE QueueInv'
  BY <1>1, NeutralMoves DEF AttemptConnection, SessionTokenRequestRefused, AttemptPCs
<1>2. ASSUME \/ AttemptConnected(t) \/ NoMoreNonSTRequests(t)
             \/ CheckRunning(t) \/ NoMoreSTRequests(t)
      PROVE  QueueInv'
  <2>1. thread[t].pc \in AttemptPCs /\ \E p \in AttemptPCs : Goto(t, p)
    BY <1>2 DEF AttemptConnected, NoMoreNonSTRequests, CheckRunning,
                NoMoreSTRequests, AttemptPCs
  <2>2. UNCHANGED lockerVars /\ UNCHANGED request
    BY <1>2 DEF AttemptConnected, NoMoreNonSTRequests, CheckRunning,
                NoMoreSTRequests
  <2>. QED  BY <2>1, <2>2, NeutralMoves
<1>3. CASE AddInProgressNonST(t)
  <2>. DEFINE x == [thread[t] EXCEPT !.pc = "start_non_st", !.request = NoRequest]
  <2>1. x.pc = "start_non_st" /\ x.finish = thread[t].finish /\ x.after = thread[t].after
    BY <1>0 DEF ThreadRecords
  <2>2. thread' = [thread EXCEPT ![t] = x]
    BY <1>3 DEF AddInProgressNonST
  <2>3. FinishOK(x)
    BY <1>0, <1>3, <2>1 DEF FinishOK, AddInProgressNonST, AttemptPCs
  <2>. HIDE DEF x
  <2>. QED  BY <1>3, <2>1, <2>2, <2>3, NeutralStep DEF AddInProgressNonST
<1>4. CASE AddInProgressST(t)
  <2>. DEFINE x == [thread[t] EXCEPT !.pc = "check_running", !.request = NoRequest,
                                     !.token = NoToken]
  <2>1. x.pc = "check_running" /\ x.finish = thread[t].finish /\ x.after = thread[t].after
    BY <1>0 DEF ThreadRecords
  <2>2. thread' = [thread EXCEPT ![t] = x]
    BY <1>4 DEF AddInProgressST
  <2>3. FinishOK(x)
    BY <1>0, <1>4, <2>1 DEF FinishOK, AddInProgressST, AttemptPCs
  <2>. HIDE DEF x
  <2>. QED  BY <1>4, <2>1, <2>2, <2>3, NeutralStep DEF AddInProgressST
<1>5. CASE RequestNeededSessionTokens(t)
  <2>1. thread[t].pc \in {"need", "need_force"} /\ UNCHANGED lockerVars /\ UNCHANGED request
    BY <1>5 DEF RequestNeededSessionTokens
  <2>2. Return(t) \/ \E p \in {"get_credentials", "get_credentials_one"} : Goto(t, p)
    BY <1>5 DEF RequestNeededSessionTokens
  <2>3. CASE Return(t)
    BY <2>1, <2>3, NeutralMoves DEF AttemptPCs
  <2>4. ASSUME NEW p \in {"get_credentials", "get_credentials_one"}, Goto(t, p)
        PROVE  QueueInv'
    <3>1. CASE thread[t].pc = "need"
      BY <2>1, <2>4, <3>1, NeutralMoves DEF AttemptPCs
    <3>2. CASE thread[t].pc = "need_force"
      <4>1. p \in PCs \ {"idle", "retry", "remove"}
        BY DEF PCs
      <4>2. thread[t].pc \notin AttemptPCs \cup {"retry", "remove", "release", "callback"}
        BY <3>2 DEF AttemptPCs
      <4>. QED  BY <2>1, <2>4, <4>1, <4>2, NeutralMoves
    <3>. QED  BY <2>1, <3>1, <3>2
  <2>. QED  BY <2>2, <2>3, <2>4
<1>6. CASE GetCredentials(t)
  <2>. DEFINE p == IF At(t, "get_credentials") THEN "try" ELSE "try_one"
              x == [thread[t] EXCEPT !.credentials = credentials, !.pc = p]
  <2>1. x.pc = p /\ x.finish = thread[t].finish /\ x.after = thread[t].after
    BY <1>0 DEF ThreadRecords
  <2>2. p \in {"try", "try_one"}
    OBVIOUS
  <2>3. CASE Return(t)
    BY <1>6, <2>3, NeutralMoves DEF GetCredentials, AttemptPCs
  <2>4. CASE thread' = [thread EXCEPT ![t] = x]
    <3>1. FinishOK(x)
      BY <1>0, <1>6, <2>1, <2>2 DEF FinishOK, GetCredentials, AttemptPCs
    <3>. HIDE DEF x, p
    <3>. QED  BY <1>6, <2>1, <2>2, <2>4, <3>1, NeutralStep DEF GetCredentials
  <2>5. Return(t) \/ thread' = [thread EXCEPT ![t] = x]
    BY <1>6 DEF GetCredentials
  <2>. QED  BY <2>3, <2>4, <2>5
<1>7. CASE TryRequestSessionToken(t)
  <2>1. CASE Return(t)
    BY <1>7, <2>1, NeutralMoves DEF TryRequestSessionToken, AttemptPCs
  <2>2. CASE UNCHANGED thread
    <3>1. thread' = [thread EXCEPT ![t] = thread[t]]
      BY <2>2 DEF TypeOK
    <3>. QED  BY <1>0, <1>7, <3>1, NeutralStep DEF TryRequestSessionToken
  <2>. QED  BY <1>7, <2>1, <2>2 DEF TryRequestSessionToken
<1>. QED
  BY <1>1, <1>2, <1>3, <1>4, <1>5, <1>6, <1>7 DEF AttemptStep

\* The steps of HandleSessionTokenResponse.
LEMMA QueueToken ==
  ASSUME TypeOK, QueueInv, NEW t \in Threads, TokenStep(t)
  PROVE  QueueInv'
<1>0. thread[t] \in ThreadRecords /\ FinishOK(thread[t])
  BY ThreadRecord DEF QueueInv
<1>1. UNCHANGED queueVars /\ UNCHANGED request
  BY DEF TokenStep, GetSessionState, TokenConnectionUpdate, IncrementFailureCount,
         JudgeFailure, SetFailureState, ArmFailureTimer, ResetFailureCount, AddToken,
         SetRunning
<1>2. thread[t].pc \notin AttemptPCs \cup {"retry", "remove", "release", "callback"}
  BY DEF TokenStep, GetSessionState, TokenConnectionUpdate, IncrementFailureCount,
         JudgeFailure, SetFailureState, ArmFailureTimer, ResetFailureCount, AddToken,
         SetRunning, AttemptPCs
<1>3. ASSUME NEW p \in {"reset_failures", "failed", "judge", "set_failure", "arm",
                        "add_token"}, Goto(t, p)
      PROVE  QueueInv'
  <2>1. p \in PCs \ {"idle", "retry", "remove"}
    BY DEF PCs
  <2>. QED  BY <1>1, <1>2, <1>3, <2>1, NeutralMoves
<1>4. ASSUME AttemptRequests(t) \/ thread' = [thread EXCEPT ![t] = IdleThread]
      PROVE  QueueInv'
  BY <1>1, <1>2, <1>4, NeutralMoves
<1>5. ASSUME NEW x, thread' = [thread EXCEPT ![t] = x], x.finish = thread[t].finish,
             x.pc \in {"update_connection", "set_running"}
      PROVE  QueueInv'
  <2>1. thread[t].finish = NoRequest
    BY <1>0, <1>2 DEF FinishOK
  <2>2. FinishOK(x)
    BY <1>5, <2>1 DEF FinishOK
  <2>. QED  BY <1>1, <1>2, <1>5, <2>2, NeutralStep
<1>6. CASE GetSessionState(t)
  <2>. DEFINE x == [thread[t] EXCEPT !.pc = "update_connection", !.state = session_state,
                      !.count = session_state_change_count]
  <2>1. x.pc = "update_connection" /\ x.finish = thread[t].finish
    BY <1>0 DEF ThreadRecords
  <2>2. thread' = [thread EXCEPT ![t] = x]
    BY <1>6 DEF GetSessionState
  <2>. HIDE DEF x
  <2>. QED  BY <1>5, <2>1, <2>2
<1>7. CASE AddToken(t)
  <2>. DEFINE x == [thread[t] EXCEPT !.pc = "set_running", !.token = NoToken]
  <2>1. x.pc = "set_running" /\ x.finish = thread[t].finish
    BY <1>0 DEF ThreadRecords
  <2>2. thread' = [thread EXCEPT ![t] = x] \/ AttemptRequests(t)
    BY <1>7 DEF AddToken
  <2>. HIDE DEF x
  <2>. QED  BY <1>4, <1>5, <2>1, <2>2
<1>8. ASSUME \/ TokenConnectionUpdate(t) \/ IncrementFailureCount(t) \/ JudgeFailure(t)
             \/ SetFailureState(t) \/ ResetFailureCount(t)
      PROVE  QueueInv'
  <2>1. \E p \in {"reset_failures", "failed", "judge", "set_failure", "arm",
                  "add_token"} : Goto(t, p)
    BY <1>8 DEF TokenConnectionUpdate, IncrementFailureCount, JudgeFailure,
                SetFailureState, ResetFailureCount
  <2>. QED  BY <1>3, <2>1
<1>9. ASSUME ArmFailureTimer(t) \/ SetRunning(t)
      PROVE  QueueInv'
  BY <1>4, <1>9 DEF ArmFailureTimer, SetRunning
<1>. QED  BY <1>6, <1>7, <1>8, <1>9 DEF TokenStep

\* The events that concern no request.
LEMMA QueueEvent ==
  ASSUME TypeOK, QueueInv, NEW t \in Threads,
         \/ SetLoginCredentialsAny(t)
         \/ SessionTokenFailureTimeout(t)
         \/ ConnectionStateRecheckTimeout(t)
         \/ CheckConnectionStatusResponseAny(t)
         \/ StatusChecked(t)
         \/ \E call \in token_calls : SessionTokenResponseAny(t, call)
  PROVE  QueueInv'
<1>0. thread[t] \in ThreadRecords /\ FinishOK(thread[t])
  BY ThreadRecord DEF QueueInv
<1>1. UNCHANGED queueVars /\ UNCHANGED request
  BY DEF SetLoginCredentialsAny, SetLoginCredentials, SessionTokenFailureTimeout,
         ConnectionStateRecheckTimeout, CheckConnectionStatusResponseAny,
         CheckConnectionStatusResponse, StatusChecked, SessionTokenResponseAny,
         SessionTokenResponse
<1>2. thread[t].pc \in {"idle", "status_checked"}
  BY DEF SetLoginCredentialsAny, SetLoginCredentials, SessionTokenFailureTimeout,
         ConnectionStateRecheckTimeout, CheckConnectionStatusResponseAny,
         CheckConnectionStatusResponse, StatusChecked, SessionTokenResponseAny,
         SessionTokenResponse
<1>3. thread[t].pc \notin AttemptPCs \cup {"retry", "remove", "release", "callback"}
  BY <1>2 DEF AttemptPCs
<1>4. ASSUME \/ SetLoginCredentialsAny(t) \/ ConnectionStateRecheckTimeout(t)
             \/ StatusChecked(t)
      PROVE  QueueInv'
  <2>1. AttemptRequests(t) \/ (Return(t) /\ thread[t].pc = "status_checked")
    BY <1>4 DEF SetLoginCredentialsAny, SetLoginCredentials,
                ConnectionStateRecheckTimeout, StatusChecked
  <2>. QED  BY <1>1, <1>3, <2>1, NeutralMoves
<1>5. CASE CheckConnectionStatusResponseAny(t)
  <2>1. Goto(t, "status_checked") /\ "status_checked" \in PCs \ {"idle", "retry", "remove"}
    BY <1>5 DEF CheckConnectionStatusResponseAny, CheckConnectionStatusResponse, PCs
  <2>. QED  BY <1>1, <1>3, <2>1, NeutralMoves
<1>6. CASE SessionTokenFailureTimeout(t)
  <2>. DEFINE x == [IdleThread EXCEPT !.pc = "attempt", !.after = "force"]
  <2>1. x.pc = "attempt" /\ x.finish = NoRequest
    BY DEF IdleThread
  <2>2. thread' = [thread EXCEPT ![t] = x]
    BY <1>6 DEF SessionTokenFailureTimeout
  <2>3. thread[t].finish = NoRequest /\ FinishOK(x)
    BY <1>0, <1>3, <2>1 DEF FinishOK
  <2>. HIDE DEF x
  <2>. QED  BY <1>1, <1>3, <2>1, <2>2, <2>3, NeutralStep
<1>7. ASSUME NEW call, NEW result, NEW tk, SessionTokenResponse(t, call, result, tk)
      PROVE  QueueInv'
  <2>. DEFINE x == [thread[t] EXCEPT !.pc = "snapshot", !.result = result, !.token = tk,
                      !.credentials = call.credentials]
  <2>1. x.pc = "snapshot" /\ x.finish = thread[t].finish
    BY <1>0 DEF ThreadRecords
  <2>2. thread' = [thread EXCEPT ![t] = x]
    BY <1>7 DEF SessionTokenResponse
  <2>3. thread[t].finish = NoRequest /\ FinishOK(x)
    BY <1>0, <1>3, <2>1 DEF FinishOK
  <2>. HIDE DEF x
  <2>. QED  BY <1>1, <1>3, <2>1, <2>2, <2>3, NeutralStep
<1>. QED  BY <1>4, <1>5, <1>6, <1>7 DEF SessionTokenResponseAny

\* NextWaiting...Request and Init: the request goes from its queue to the wire.
LEMMA QueueStart ==
  ASSUME TypeOK, QueueInv, NEW t \in Threads, StartNonSTRequest(t) \/ StartSTRequest(t)
  PROVE  QueueInv'
<1>0. /\ waiting_st_requests \in Seq(STRequests) /\ IsInjective(waiting_st_requests)
      /\ waiting_non_st_requests \in Seq(NonSTRequests)
      /\ IsInjective(waiting_non_st_requests)
  BY DEF TypeOK, LockerOK, QueueInv
<1>1. PICK r \in Requests :
        /\ InitRequest(r)
        /\ InST(r) \/ InNonST(r)
        /\ ~InST(r)' /\ ~InNonST(r)'
        /\ \A s \in Requests \ {r} : (InST(s)' <=> InST(s)) /\ (InNonST(s)' <=> InNonST(s))
        /\ IsInjective(waiting_st_requests') /\ IsInjective(waiting_non_st_requests')
  <2>1. CASE StartNonSTRequest(t)
    <3>. DEFINE r == Head(waiting_non_st_requests)
    <3>1. /\ waiting_non_st_requests # <<>> /\ InitRequest(r)
          /\ waiting_non_st_requests' = Tail(waiting_non_st_requests)
          /\ waiting_st_requests' = waiting_st_requests
      BY <2>1 DEF StartNonSTRequest
    <3>2. r \in NonSTRequests
      BY <1>0, <3>1, PopFront
    <3>3. /\ IsInjective(Tail(waiting_non_st_requests))
          /\ r \in Range(waiting_non_st_requests)
          /\ Range(Tail(waiting_non_st_requests)) = Range(waiting_non_st_requests) \ {r}
      BY <1>0, <3>1, PopFrontDistinct
    <3>4. r \notin Range(waiting_st_requests)
      BY <1>0, <3>2, RequestsAssumption DEF Range
    <3>. HIDE DEF r
    <3>. QED  BY <1>0, <3>1, <3>2, <3>3, <3>4 DEF InST, InNonST, Requests
  <2>2. CASE StartSTRequest(t)
    <3>. DEFINE r == Head(waiting_st_requests)
    <3>1. /\ waiting_st_requests # <<>> /\ InitRequest(r)
          /\ waiting_st_requests' = Tail(waiting_st_requests)
          /\ waiting_non_st_requests' = waiting_non_st_requests
      BY <2>2 DEF StartSTRequest
    <3>2. r \in STRequests
      BY <1>0, <3>1, PopFront
    <3>3. /\ IsInjective(Tail(waiting_st_requests))
          /\ r \in Range(waiting_st_requests)
          /\ Range(Tail(waiting_st_requests)) = Range(waiting_st_requests) \ {r}
      BY <1>0, <3>1, PopFrontDistinct
    <3>4. r \notin Range(waiting_non_st_requests)
      BY <1>0, <3>2, RequestsAssumption DEF Range
    <3>. HIDE DEF r
    <3>. QED  BY <1>0, <3>1, <3>2, <3>3, <3>4 DEF InST, InNonST, Requests
  <2>. QED  BY <2>1, <2>2
<1>2. PICK x : /\ thread' = [thread EXCEPT ![t] = x]
               /\ x.pc \in {"add_non_st", "add_st"}
               /\ x.finish = thread[t].finish /\ x.after = thread[t].after
  <2>1. CASE StartNonSTRequest(t)
    <3>. DEFINE x == [thread[t] EXCEPT !.pc = "add_non_st",
                                       !.request = Head(waiting_non_st_requests)]
    <3>1. thread' = [thread EXCEPT ![t] = x]
      BY <2>1 DEF StartNonSTRequest
    <3>2. x.pc = "add_non_st" /\ x.finish = thread[t].finish /\ x.after = thread[t].after
      BY ThreadRecord DEF ThreadRecords
    <3>. HIDE DEF x
    <3>. QED  BY <3>1, <3>2
  <2>2. CASE StartSTRequest(t)
    <3>. DEFINE x == [thread[t] EXCEPT !.pc = "add_st",
                                       !.request = Head(waiting_st_requests),
                                       !.token = Last(session_tokens)]
    <3>1. thread' = [thread EXCEPT ![t] = x]
      BY <2>2 DEF StartSTRequest
    <3>2. x.pc = "add_st" /\ x.finish = thread[t].finish /\ x.after = thread[t].after
      BY ThreadRecord DEF ThreadRecords
    <3>. HIDE DEF x
    <3>. QED  BY <3>1, <3>2
  <2>. QED  BY <2>1, <2>2
<1>3. thread[t].pc \in {"start_non_st", "start_st"} /\ UNCHANGED delayed_requests
  BY DEF StartNonSTRequest, StartSTRequest
<1>4. \A u \in Threads : FinishOK(thread'[u])
  BY <1>2, <1>3 DEF TypeOK, QueueInv, FinishOK, AttemptPCs
<1>5. \A s \in Requests, u \in Threads :
        (Answering(u, s)' <=> Answering(u, s)) /\ (Owes(u, s)' <=> Owes(u, s))
  <2>. SUFFICES ASSUME NEW s \in Requests
                PROVE  \A u \in Threads : /\ Answering(u, s)' <=> Answering(u, s)
                                          /\ Owes(u, s)' <=> Owes(u, s)
    OBVIOUS
  <2>. QED  BY <1>2, <1>3, SameThreads
<1>6. /\ request'[r] = [request[r] EXCEPT !.inited = TRUE, !.http = "live"]
      /\ \A s \in Requests \ {r} : request'[s] = request[s]
  BY <1>1 DEF InitRequest, TypeOK
<1>7. /\ request'[r].inited /\ OnWire(r)'
      /\ request'[r].called = request[r].called
      /\ request'[r].completions = request[r].completions
      /\ request'[r].cancelled = request[r].cancelled
      /\ request'[r].expired = request[r].expired
  BY <1>6 DEF OnWire, TypeOK, RequestStates
<1>8. \A s \in Requests \ {r} : Same(s)
  BY <1>1, <1>3, <1>5, <1>6 DEF Same
<1>10. PlaceOK(r) /\ AnswerOK(r)
  BY DEF QueueInv
<1>9. Placed(r) /\ Placed(r)' /\ r \notin delayed_requests'
  <2>1. InNonST(r) => r \in NonSTRequests /\ delayed_requests \subseteq STRequests
    BY <1>0 DEF InNonST, Range, QueueInv
  <2>2. r \notin delayed_requests
    BY <1>1, <1>10, <2>1, RequestsAssumption DEF PlaceOK
  <2>. QED  BY <1>1, <1>3, <1>7, <2>2 DEF Placed
<1>11. Unhandled(r) /\ Unhandled(r)'
  BY <1>5, <1>9, <1>10 DEF PlaceOK, Unhandled
<1>12. PlaceOK(r)'
  BY <1>1, <1>9, <1>11 DEF PlaceOK, Unhandled
<1>13. AnswerOK(r)'
  BY <1>7, <1>9, <1>10, <1>11 DEF AnswerOK
<1>. QED  BY <1>1, <1>3, <1>4, <1>8, <1>12, <1>13, FocusStep DEF QueueInv

\* completion_callback_: the debt is paid.
LEMMA QueueCallback ==
  ASSUME TypeOK, QueueInv, NEW t \in Threads, CompletionCallback(t)
  PROVE  QueueInv'
<1>1. PICK r \in Requests : r = thread[t].finish /\ thread[t].pc = "callback"
  BY ThreadFacts DEF CompletionCallback, LocalsOK
<1>2. Owes(t, r) /\ PlaceOK(r) /\ AnswerOK(r)
  BY <1>1 DEF Owes, QueueInv
<1>3. UNCHANGED queueVars /\ thread' = [thread EXCEPT ![t] = IdleThread]
  BY DEF CompletionCallback
<1>4. IdleThread.pc = "idle" /\ IdleThread.finish = NoRequest /\ FinishOK(IdleThread)
  BY DEF IdleThread, FinishOK
<1>5. \A u \in Threads : FinishOK(thread'[u])
  BY <1>3, <1>4 DEF TypeOK, QueueInv
<1>6. /\ request'[r] = [request[r] EXCEPT !.completions = Bump(@, 2)]
      /\ \A s \in Requests \ {r} : request'[s] = request[s]
  BY <1>1 DEF CompletionCallback, TypeOK
<1>7. \A s \in Requests \ {r} : Same(s)
  <2>. SUFFICES ASSUME NEW s \in Requests \ {r}  PROVE Same(s)
    OBVIOUS
  <2>1. thread[t].finish # s /\ IdleThread.finish # s
    BY <1>1, <1>4, RequestsAssumption
  <2>2. \A u \in Threads : /\ Answering(u, s)' <=> Answering(u, s)
                           /\ Owes(u, s)' <=> Owes(u, s)
    BY <1>1, <1>3, <1>4, <2>1, SameThreads
  <2>. QED  BY <1>3, <1>6, <2>2 DEF Same, InST, InNonST
<1>8. /\ request'[r].called = request[r].called
      /\ request'[r].inited = request[r].inited
      /\ request'[r].http = request[r].http
      /\ request'[r].cancelled = request[r].cancelled
      /\ request[r].completions = 0 => request'[r].completions = 1
      /\ request'[r].completions # 0 /\ request[r].completions \in 0..2
      /\ request'[r].completions \in 0..2
  BY <1>1, <1>6 DEF Bump, TypeOK, RequestStates
<1>9a. ~Placed(r) /\ \A u \in Threads : ~Answering(u, r) /\ (Owes(u, r) => u = t)
  BY <1>2 DEF PlaceOK
<1>9. Unhandled(r)'
  <2>1. thread'[t] = IdleThread /\ \A u \in Threads \ {t} : thread'[u] = thread[u]
    BY <1>3 DEF TypeOK
  <2>2. \A u \in Threads : ~Owes(u, r)'
    BY <1>1, <1>9a, <1>4, <2>1, RequestsAssumption DEF Owes
  <2>3. \A u \in Threads : ~Answering(u, r)'
    BY <1>9a, <1>4, <2>1 DEF Answering
  <2>. QED  BY <2>2, <2>3 DEF Unhandled
<1>10. ~Placed(r) /\ ~Placed(r)'
  BY <1>9a, <1>3, <1>8 DEF Placed, InST, InNonST, OnWire
<1>11. PlaceOK(r)'
  BY <1>9, <1>10 DEF PlaceOK, Unhandled, Placed
<1>12. AnswerOK(r)'
  <2>1. ~Unhandled(r)
    BY <1>2 DEF Unhandled
  <2>2. ~OnWire(r)'
    BY <1>10 DEF Placed
  <2>. QED  BY <1>2, <1>8, <1>9, <1>10, <2>1, <2>2 DEF AnswerOK
<1>. QED  BY <1>1, <1>3, <1>5, <1>7, <1>11, <1>12, FocusStep DEF QueueInv

\* The steps after an API response: complete the request, queue it again, delay it.
LEMMA QueueAnswer ==
  ASSUME TypeOK, QueueInv, NEW t \in Threads, ApiStep(t)
  PROVE  QueueInv'
<1>0. thread[t] \in ThreadRecords /\ FinishOK(thread[t])
  BY ThreadRecord DEF QueueInv
<1>1. CASE ReleaseToken(t)
  <2>. DEFINE x == [IdleThread EXCEPT !.pc = "attempt", !.finish = thread[t].finish]
  <2>1. x.pc = "attempt" /\ x.finish = thread[t].finish /\ x.after = "return"
    BY DEF IdleThread
  <2>2. thread' = [thread EXCEPT ![t] = x] /\ FinishOK(x)
    BY <1>1, <2>1 DEF ReleaseToken, FinishOK, AttemptPCs
  <2>. HIDE DEF x
  <2>. QED  BY <1>1, <2>1, <2>2, NeutralStep DEF ReleaseToken
<1>2. ASSUME ~ReleaseToken(t)  PROVE QueueInv'
  <2>1. PICK r \in Requests : r = thread[t].request /\ thread[t].pc \in {"remove", "retry"}
    BY <1>2, ThreadFacts
       DEF ApiStep, RemoveInProgressRequest, MoveInProgressToWaiting,
           MoveInProgressToDelayed, LocalsOK, RequestPCs
  <2>2. /\ PlaceOK(r) /\ AnswerOK(r) /\ Answering(t, r) /\ ~Placed(r) /\ request[r].inited
        /\ \A u \in Threads : (Answering(u, r) => u = t) /\ ~Owes(u, r)
    BY <2>1 DEF QueueInv, PlaceOK, Answering
  <2>3. thread[t].finish = NoRequest
    BY <1>0, <2>1 DEF FinishOK, AttemptPCs
  <2>4. UNCHANGED request
    BY <1>2 DEF ApiStep, RemoveInProgressRequest, MoveInProgressToWaiting,
                MoveInProgressToDelayed
  <2>5. PICK x : /\ thread' = [thread EXCEPT ![t] = x]
                 /\ x.pc = "release" /\ x.after = thread[t].after
                 /\ \/ x.finish = NoRequest /\ ~RemoveInProgressRequest(t)
                    \/ x.finish = r /\ RemoveInProgressRequest(t)
    <3>1. CASE RemoveInProgressRequest(t)
      <4>. DEFINE x == [thread[t] EXCEPT !.pc = "release", !.finish = thread[t].request]
      <4>1. thread' = [thread EXCEPT ![t] = x]
        BY <3>1 DEF RemoveInProgressRequest
      <4>2. x.pc = "release" /\ x.finish = r /\ x.after = thread[t].after
        BY <1>0, <2>1 DEF ThreadRecords
      <4>. HIDE DEF x
      <4>. QED  BY <3>1, <4>1, <4>2
    <3>2. CASE MoveInProgressToWaiting(t) \/ MoveInProgressToDelayed(t)
      <4>. DEFINE x == [thread[t] EXCEPT !.pc = "release"]
      <4>1. thread' = [thread EXCEPT ![t] = x]
        BY <3>2 DEF MoveInProgressToWaiting, MoveInProgressToDelayed
      <4>2. x.pc = "release" /\ x.finish = NoRequest /\ x.after = thread[t].after
        BY <1>0, <2>3 DEF ThreadRecords
      <4>3. ~RemoveInProgressRequest(t)
        BY <3>2 DEF MoveInProgressToWaiting, MoveInProgressToDelayed,
                    RemoveInProgressRequest
      <4>. HIDE DEF x
      <4>. QED  BY <4>1, <4>2, <4>3
    <3>. QED  BY <1>2, <3>1, <3>2 DEF ApiStep
  <2>6. thread'[t] = x /\ \A u \in Threads \ {t} : thread'[u] = thread[u]
    BY <2>5 DEF TypeOK
  <2>7. \A u \in Threads : FinishOK(thread'[u])
    <3>1. FinishOK(x)
      <4>1. thread[t].after = "return" \/ x.finish = NoRequest \/ RemoveInProgressRequest(t)
        BY <2>5
      <4>2. thread[t].after = "return"
        BY <1>0, <2>1 DEF FinishOK
      <4>. QED  BY <2>5, <4>2 DEF FinishOK
    <3>. QED  BY <2>6, <3>1 DEF QueueInv
  <2>8. \A s \in Requests \ {r}, u \in Threads :
          (Answering(u, s)' <=> Answering(u, s)) /\ (Owes(u, s)' <=> Owes(u, s))
    <3>. SUFFICES ASSUME NEW s \in Requests \ {r}
                  PROVE  \A u \in Threads : /\ Answering(u, s)' <=> Answering(u, s)
                                            /\ Owes(u, s)' <=> Owes(u, s)
      OBVIOUS
    <3>1. s # NoRequest
      BY RequestsAssumption
    <3>. QED  BY <2>1, <2>3, <2>5, <3>1, SameThreads
  <2>9. /\ \A u \in Threads : ~Answering(u, r)'
        /\ \A u \in Threads : Owes(u, r)' => u = t
        /\ Owes(t, r)' <=> RemoveInProgressRequest(t)
    BY <2>2, <2>5, <2>6, RequestsAssumption DEF Answering, Owes
  <2>10. CASE RemoveInProgressRequest(t)
    <3>1. UNCHANGED <<waiting_st_requests, waiting_non_st_requests, delayed_requests>>
      BY <2>10 DEF RemoveInProgressRequest
    <3>2. \A s \in Requests \ {r} : Same(s)
      BY <2>4, <2>8, <3>1 DEF Same, InST, InNonST
    <3>3. ~Placed(r)'
      BY <2>2, <2>4, <3>1 DEF Placed, InST, InNonST, OnWire
    <3>4. ~InST(r)' /\ ~InNonST(r)' /\ r \notin delayed_requests' /\ ~OnWire(r)'
      BY <3>3 DEF Placed
    <3>5. PlaceOK(r)'
      BY <2>9, <3>3, <3>4 DEF PlaceOK
    <3>6. ~Unhandled(r) /\ ~Unhandled(r)'
      BY <2>2, <2>9, <2>10 DEF Unhandled
    <3>7. AnswerOK(r)'
      BY <2>2, <2>4, <3>3, <3>4, <3>6 DEF AnswerOK
    <3>. QED  BY <2>7, <3>1, <3>2, <3>5, <3>7, FocusStep DEF QueueInv
  <2>11. CASE MoveInProgressToWaiting(t) \/ MoveInProgressToDelayed(t)
    <3>0. r \in STRequests
      BY <1>0, <2>1, <2>11 DEF FinishOK, MoveInProgressToWaiting, MoveInProgressToDelayed
    <3>1. Unhandled(r)'
      BY <2>9, <2>11 DEF Unhandled, MoveInProgressToWaiting, MoveInProgressToDelayed,
                         RemoveInProgressRequest
    <3>2. ~InST(r) /\ ~InNonST(r) /\ r \notin delayed_requests /\ ~OnWire(r)
      BY <2>2 DEF Placed
    <3>3. ~OnWire(r)'
      BY <2>4, <3>2 DEF OnWire
    <3>4. /\ IsInjective(waiting_st_requests') /\ IsInjective(waiting_non_st_requests')
          /\ delayed_requests' \subseteq STRequests
          /\ ~InNonST(r)' /\ Placed(r)'
          /\ ~(InST(r)' /\ r \in delayed_requests')
          /\ \A s \in Requests \ {r} : Same(s)
      <4>1. CASE MoveInProgressToWaiting(t)
        <5>1. PushWaiting(r) /\ UNCHANGED delayed_requests
          BY <2>1, <4>1 DEF MoveInProgressToWaiting
        <5>2. /\ IsInjective(waiting_st_requests') /\ IsInjective(waiting_non_st_requests')
              /\ InST(r)' <=> r \in STRequests
              /\ InNonST(r)' <=> r \in NonSTRequests
              /\ \A s \in Requests \ {r} : (InST(s)' <=> InST(s)) /\ (InNonST(s)' <=> InNonST(s))
          BY <3>2, <5>1, PushFacts
        <5>3. \A s \in Requests \ {r} : Same(s)
          BY <2>4, <2>8, <5>1, <5>2 DEF Same
        <5>. QED  BY <3>0, <3>2, <5>1, <5>2, <5>3, RequestsAssumption DEF QueueInv, Placed
      <4>2. CASE MoveInProgressToDelayed(t)
        <5>1. /\ UNCHANGED <<waiting_st_requests, waiting_non_st_requests>>
              /\ delayed_requests' = delayed_requests \cup {r}
          BY <2>1, <4>2 DEF MoveInProgressToDelayed
        <5>2. \A s \in Requests : (InST(s)' <=> InST(s)) /\ (InNonST(s)' <=> InNonST(s))
          BY <5>1 DEF InST, InNonST
        <5>3. \A s \in Requests \ {r} : Same(s)
          BY <2>4, <2>8, <5>1, <5>2 DEF Same
        <5>. QED  BY <3>0, <3>2, <5>1, <5>2, <5>3 DEF QueueInv, Placed
      <4>. QED  BY <2>11, <4>1, <4>2
    <3>5. PlaceOK(r)'
      BY <3>1, <3>3, <3>4 DEF PlaceOK, Unhandled
    <3>6. ~Unhandled(r)
      BY <2>2 DEF Unhandled
    <3>7. AnswerOK(r)'
      BY <2>2, <2>4, <3>1, <3>3, <3>4, <3>6 DEF AnswerOK
    <3>. QED  BY <2>7, <3>4, <3>5, <3>7, FocusStep
  <2>. QED  BY <1>2, <2>10, <2>11 DEF ApiStep
<1>. QED  BY <1>1, <1>2

\* What an event about one request changes of its request object.
LEMMA ObjectFacts ==
  ASSUME TypeOK, NEW r \in Requests
  PROVE  /\ request[r] \in RequestStates
         /\ request[r].completions \in 0..2
         /\ \A x : request' = [request EXCEPT ![r] = x] =>
              request'[r] = x /\ \A s \in Requests \ {r} : request'[s] = request[s]
BY DEF TypeOK, RequestStates

\* A thread starts to handle an event that is not the answer of a request.
LEMMA ThreadEvent ==
  ASSUME TypeOK, QueueInv, NEW t \in Threads, At(t, "idle"),
         UNCHANGED thread \/ AttemptRequests(t)
  PROVE  /\ \A u \in Threads : FinishOK(thread'[u])
         /\ \A s \in Requests, u \in Threads :
              (Answering(u, s)' <=> Answering(u, s)) /\ (Owes(u, s)' <=> Owes(u, s))
         /\ \A s \in Requests : Unhandled(s)' <=> Unhandled(s)
<1>1. CASE UNCHANGED thread
  BY <1>1 DEF QueueInv, Answering, Owes, Unhandled
<1>2. CASE AttemptRequests(t)
  <2>. DEFINE x == [IdleThread EXCEPT !.pc = "attempt"]
  <2>1. x.pc = "attempt" /\ x.finish = NoRequest /\ FinishOK(x)
    BY DEF IdleThread, FinishOK
  <2>2. thread' = [thread EXCEPT ![t] = x]
    BY <1>2 DEF AttemptRequests
  <2>3. FinishOK(thread[t]) /\ thread[t].pc = "idle"
    BY DEF QueueInv
  <2>4. thread[t].finish = NoRequest
    BY <2>3 DEF FinishOK, AttemptPCs
  <2>. HIDE DEF x
  <2>5. \A u \in Threads : FinishOK(thread'[u])
    BY <2>1, <2>2 DEF TypeOK, QueueInv
  <2>6. \A s \in Requests, u \in Threads :
          (Answering(u, s)' <=> Answering(u, s)) /\ (Owes(u, s)' <=> Owes(u, s))
    <3>. SUFFICES ASSUME NEW s \in Requests
                  PROVE  \A u \in Threads : /\ Answering(u, s)' <=> Answering(u, s)
                                            /\ Owes(u, s)' <=> Owes(u, s)
      OBVIOUS
    <3>. QED  BY <2>1, <2>2, <2>3, <2>4, SameThreads
  <2>. QED  BY <2>5, <2>6 DEF Unhandled
<1>. QED  BY <1>1, <1>2

\* Call, Cancel, the delay that ends, the timeout and the time that passes.
LEMMA QueueRequest ==
  ASSUME TypeOK, QueueInv, NEW r \in Requests
  PROVE  /\ \A t \in Threads :
              Call(t, r) \/ Cancel(t, r) \/ DelayedRequestTimeout(t, r)
                \/ HandleTimedOutRequest(t, r)
              => QueueInv'
         /\ RetryTimePasses(r) => QueueInv'
<1>0. /\ PlaceOK(r) /\ AnswerOK(r)
      /\ waiting_st_requests \in Seq(STRequests) /\ IsInjective(waiting_st_requests)
      /\ waiting_non_st_requests \in Seq(NonSTRequests)
      /\ IsInjective(waiting_non_st_requests)
      /\ delayed_requests \subseteq STRequests
  BY DEF TypeOK, LockerOK, QueueInv
<1>1. ASSUME NEW t \in Threads, Call(t, r)  PROVE QueueInv'
  <2>. DEFINE x == [request[r] EXCEPT !.called = TRUE]
  <2>1. /\ ~request[r].called /\ request' = [request EXCEPT ![r] = x]
        /\ PushWaiting(r) /\ UNCHANGED delayed_requests
        /\ At(t, "idle") /\ AttemptRequests(t)
    BY <1>1 DEF Call, AddWaitingRequest
  <2>2. ~Placed(r) /\ Unhandled(r) /\ request[r].completions = 0 /\ ~request[r].inited
    BY <1>0, <2>1 DEF AnswerOK
  <2>3. request'[r] = x /\ \A s \in Requests \ {r} : request'[s] = request[s]
    BY <2>1, ObjectFacts
  <2>4. /\ request'[r].called /\ request'[r].completions = 0 /\ ~request'[r].inited
        /\ request'[r].http = request[r].http
    BY <2>2, <2>3, ObjectFacts DEF RequestStates
  <2>5. ~InST(r) /\ ~InNonST(r) /\ r \notin delayed_requests /\ ~OnWire(r)
    BY <2>2 DEF Placed
  <2>6. /\ IsInjective(waiting_st_requests') /\ IsInjective(waiting_non_st_requests')
        /\ InST(r)' <=> r \in STRequests
        /\ InNonST(r)' <=> r \in NonSTRequests
        /\ \A s \in Requests \ {r} : (InST(s)' <=> InST(s)) /\ (InNonST(s)' <=> InNonST(s))
    BY <2>1, <2>5, PushFacts
  <2>7. /\ \A u \in Threads : FinishOK(thread'[u])
        /\ \A s \in Requests, u \in Threads :
             (Answering(u, s)' <=> Answering(u, s)) /\ (Owes(u, s)' <=> Owes(u, s))
        /\ Unhandled(r)'
    BY <2>1, <2>2, ThreadEvent
  <2>8. \A s \in Requests \ {r} : Same(s)
    BY <2>1, <2>3, <2>6, <2>7 DEF Same
  <2>9. ~OnWire(r)' /\ r \notin delayed_requests' /\ Placed(r)'
    BY <2>1, <2>4, <2>5, <2>6 DEF OnWire, Placed, Requests
  <2>10. PlaceOK(r)'
    BY <2>4, <2>7, <2>9 DEF PlaceOK, Unhandled
  <2>11. AnswerOK(r)'
    BY <2>4, <2>9 DEF AnswerOK
  <2>. QED  BY <1>0, <2>1, <2>6, <2>7, <2>8, <2>10, <2>11, FocusStep
<1>2. ASSUME NEW t \in Threads, DelayedRequestTimeout(t, r)  PROVE QueueInv'
  <2>1. /\ r \in delayed_requests /\ UNCHANGED request
        /\ PushWaiting(r) /\ delayed_requests' = delayed_requests \ {r}
        /\ At(t, "idle") /\ AttemptRequests(t)
    BY <1>2 DEF DelayedRequestTimeout, AddWaitingRequest
  <2>2. r \in STRequests /\ r \notin NonSTRequests
    BY <1>0, <2>1, RequestsAssumption
  <2>3. ~InST(r) /\ ~InNonST(r) /\ ~OnWire(r) /\ Placed(r)
    BY <1>0, <2>1, <2>2 DEF PlaceOK, InNonST, Range, Placed
  <2>4. Unhandled(r)
    BY <1>0, <2>3 DEF PlaceOK, Unhandled
  <2>5. /\ IsInjective(waiting_st_requests') /\ IsInjective(waiting_non_st_requests')
        /\ InST(r)' /\ ~InNonST(r)'
        /\ \A s \in Requests \ {r} : (InST(s)' <=> InST(s)) /\ (InNonST(s)' <=> InNonST(s))
    BY <2>1, <2>2, <2>3, PushFacts
  <2>6. /\ \A u \in Threads : FinishOK(thread'[u])
        /\ \A s \in Requests, u \in Threads :
             (Answering(u, s)' <=> Answering(u, s)) /\ (Owes(u, s)' <=> Owes(u, s))
        /\ Unhandled(r)'
    BY <2>1, <2>4, ThreadEvent
  <2>7. \A s \in Requests \ {r} : Same(s)
    BY <2>1, <2>5, <2>6 DEF Same
  <2>8. ~OnWire(r)' /\ r \notin delayed_requests' /\ Placed(r)'
    BY <2>1, <2>3, <2>5 DEF OnWire, Placed
  <2>9. PlaceOK(r)'
    BY <2>5, <2>6, <2>8 DEF PlaceOK, Unhandled
  <2>10. AnswerOK(r)'
    BY <1>0, <2>1, <2>3, <2>4, <2>6, <2>8 DEF AnswerOK
  <2>. QED  BY <1>0, <2>1, <2>5, <2>6, <2>7, <2>9, <2>10, FocusStep
\* The queues, the threads and what is on the wire stay as they are.
<1>3. ASSUME NEW x, request' = [request EXCEPT ![r] = x],
             UNCHANGED <<waiting_st_requests, waiting_non_st_requests, delayed_requests,
                         thread>>,
             x.called = request[r].called, x.inited = request[r].inited,
             x.http # "none" <=> request[r].http # "none",
             AnswerOK(r)'
      PROVE  QueueInv'
  <2>1. request'[r] = x /\ \A s \in Requests \ {r} : request'[s] = request[s]
    BY <1>3, ObjectFacts
  <2>2. \A s \in Requests : /\ InST(s)' <=> InST(s)
                            /\ InNonST(s)' <=> InNonST(s)
                            /\ \A u \in Threads : /\ Answering(u, s)' <=> Answering(u, s)
                                                  /\ Owes(u, s)' <=> Owes(u, s)
    BY <1>3 DEF InST, InNonST, Answering, Owes
  <2>3. \A s \in Requests \ {r} : Same(s)
    BY <1>3, <2>1, <2>2 DEF Same
  <2>4. OnWire(r)' <=> OnWire(r)
    BY <1>3, <2>1 DEF OnWire
  <2>5. Placed(r)' <=> Placed(r)
    BY <1>3, <2>2, <2>4 DEF Placed
  <2>6. PlaceOK(r)'
    BY <1>0, <1>3, <2>1, <2>2, <2>4, <2>5 DEF PlaceOK
  <2>. QED  BY <1>0, <1>3, <2>3, <2>6, FocusStep DEF QueueInv
<1>4. ASSUME NEW t \in Threads, Cancel(t, r)  PROVE QueueInv'
  <2>. DEFINE x == [request[r] EXCEPT
                 !.cancelled = TRUE,
                 !.http = IF @ = "live" THEN "cancelling" ELSE @,
                 !.completions = IF request[r].inited THEN @ ELSE Bump(@, 2)]
  <2>1. /\ request' = [request EXCEPT ![r] = x] /\ request[r].called
        /\ UNCHANGED lockerVars /\ UNCHANGED thread
    BY <1>4 DEF Cancel
  <2>2. request'[r] = x
    BY <2>1, ObjectFacts
  <2>3. /\ x.called = request[r].called /\ x.inited = request[r].inited
        /\ x.http # "none" <=> request[r].http # "none"
        /\ x.cancelled /\ x.expired = request[r].expired
        /\ x.completions = 0 => request[r].completions = 0
    BY ObjectFacts DEF RequestStates, Bump
  <2>. HIDE DEF x
  <2>4. /\ Placed(r)' <=> Placed(r)
        /\ OnWire(r)' <=> OnWire(r)
        /\ Unhandled(r)' <=> Unhandled(r)
    BY <2>1, <2>2, <2>3 DEF Placed, InST, InNonST, OnWire, Unhandled, Answering, Owes
  <2>5. AnswerOK(r)'
    BY <1>0, <2>1, <2>2, <2>3, <2>4 DEF AnswerOK
  <2>. QED  BY <1>3, <2>1, <2>3, <2>5
<1>5. ASSUME RetryTimePasses(r)  PROVE QueueInv'
  <2>. DEFINE x == [request[r] EXCEPT !.expired = TRUE]
  <2>1. request' = [request EXCEPT ![r] = x] /\ UNCHANGED lockerVars /\ UNCHANGED thread
    BY <1>5 DEF RetryTimePasses
  <2>2. request'[r] = x
    BY <2>1, ObjectFacts
  <2>3. /\ x.called = request[r].called /\ x.inited = request[r].inited
        /\ x.http = request[r].http /\ x.cancelled = request[r].cancelled
        /\ x.completions = request[r].completions /\ x.expired
    BY ObjectFacts DEF RequestStates
  <2>. HIDE DEF x
  <2>4. /\ Placed(r)' <=> Placed(r)
        /\ OnWire(r)' <=> OnWire(r)
        /\ Unhandled(r)' <=> Unhandled(r)
    BY <2>1, <2>2, <2>3 DEF Placed, InST, InNonST, OnWire, Unhandled, Answering, Owes
  <2>5. AnswerOK(r)'
    BY <1>0, <2>2, <2>3, <2>4 DEF AnswerOK
  <2>. QED  BY <1>3, <2>1, <2>3, <2>5
<1>6. ASSUME NEW t \in Threads, HandleTimedOutRequest(t, r)  PROVE QueueInv'
  <2>1. /\ At(t, "idle") /\ UNCHANGED thread /\ UNCHANGED delayed_requests
        /\ request[r].expired
    BY <1>6 DEF HandleTimedOutRequest
  <2>2. /\ IsInjective(waiting_st_requests')
        /\ Range(waiting_st_requests') = Range(waiting_st_requests) \ {r}
    <3>1. CASE r \in Range(waiting_st_requests)
      <4>1. PICK p \in Erased(waiting_st_requests, r) : waiting_st_requests' = p
        BY <1>6, <3>1 DEF HandleTimedOutRequest
      <4>. QED  BY <1>0, <4>1, EraseDistinct
    <3>2. CASE r \notin Range(waiting_st_requests)
      BY <1>0, <1>6, <3>2 DEF HandleTimedOutRequest
    <3>. QED  BY <3>1, <3>2
  <2>3. /\ IsInjective(waiting_non_st_requests')
        /\ Range(waiting_non_st_requests') = Range(waiting_non_st_requests) \ {r}
    <3>1. CASE r \in Range(waiting_non_st_requests)
      <4>1. PICK p \in Erased(waiting_non_st_requests, r) : waiting_non_st_requests' = p
        BY <1>6, <3>1 DEF HandleTimedOutRequest
      <4>. QED  BY <1>0, <4>1, EraseDistinct
    <3>2. CASE r \notin Range(waiting_non_st_requests)
      BY <1>0, <1>6, <3>2 DEF HandleTimedOutRequest
    <3>. QED  BY <3>1, <3>2
  <2>4. /\ ~InST(r)' /\ ~InNonST(r)'
        /\ \A s \in Requests \ {r} : (InST(s)' <=> InST(s)) /\ (InNonST(s)' <=> InNonST(s))
    BY <2>2, <2>3 DEF InST, InNonST
  <2>5. Waiting(r) <=> InST(r) \/ InNonST(r)
    BY DEF Waiting, InST, InNonST
  <2>6. /\ \A s \in Requests \ {r} : request'[s] = request[s]
        /\ request'[r].called = request[r].called /\ request'[r].inited = request[r].inited
        /\ request'[r].http = request[r].http
        /\ request'[r].cancelled = request[r].cancelled
        /\ request'[r].expired
        /\ request'[r].completions \in 0..2
        /\ IF Waiting(r) /\ ~request[r].inited
           THEN /\ request'[r].completions # 0
                /\ request[r].completions = 0 => request'[r].completions = 1
           ELSE request'[r].completions = request[r].completions
    <3>1. CASE Waiting(r) /\ ~request[r].inited
      <4>. DEFINE x == [request[r] EXCEPT !.completions = Bump(@, 2)]
      <4>1. request' = [request EXCEPT ![r] = x]
        BY <1>6, <3>1 DEF HandleTimedOutRequest
      <4>2. request'[r] = x /\ \A s \in Requests \ {r} : request'[s] = request[s]
        BY <4>1, ObjectFacts
      <4>3. /\ x.called = request[r].called /\ x.inited = request[r].inited
            /\ x.http = request[r].http /\ x.cancelled = request[r].cancelled
            /\ x.expired = request[r].expired /\ x.completions \in 0..2
            /\ x.completions # 0 /\ request[r].completions = 0 => x.completions = 1
        BY ObjectFacts DEF RequestStates, Bump
      <4>4. x.completions # 0
        BY ObjectFacts DEF RequestStates, Bump
      <4>. HIDE DEF x
      <4>. QED  BY <2>1, <3>1, <4>2, <4>3, <4>4
    <3>2. CASE ~(Waiting(r) /\ ~request[r].inited)
      <4>1. request' = request
        BY <1>6, <3>2 DEF HandleTimedOutRequest
      <4>. QED  BY <2>1, <3>2, <4>1, ObjectFacts
    <3>. QED  BY <3>1, <3>2
  <2>7. /\ \A u \in Threads : FinishOK(thread'[u])
        /\ \A s \in Requests, u \in Threads :
             (Answering(u, s)' <=> Answering(u, s)) /\ (Owes(u, s)' <=> Owes(u, s))
        /\ Unhandled(r)' <=> Unhandled(r)
    BY <2>1, ThreadEvent
  <2>8. \A s \in Requests \ {r} : Same(s)
    BY <2>1, <2>4, <2>6, <2>7 DEF Same
  <2>9. /\ OnWire(r)' <=> OnWire(r)
        /\ Placed(r)' => Placed(r)
        /\ ~InST(r) /\ ~InNonST(r) => (Placed(r)' <=> Placed(r))
    BY <2>1, <2>4, <2>6 DEF OnWire, Placed
  <2>10. PlaceOK(r)'
    BY <1>0, <2>1, <2>4, <2>6, <2>7, <2>9 DEF PlaceOK
  <2>11. AnswerOK(r)'
    <3>1. CASE Waiting(r)
      <4>1. Placed(r) /\ Unhandled(r)
        BY <1>0, <2>5, <3>1 DEF Placed, PlaceOK, Unhandled
      <4>2. r \in STRequests \/ ~request[r].inited
        BY <1>0, <2>5, <3>1 DEF PlaceOK, InST, Range
      <4>3. ~OnWire(r)' /\ ~Placed(r)'
        <5>1. ~OnWire(r) /\ r \notin delayed_requests
          BY <1>0, <2>5, <3>1, RequestsAssumption DEF PlaceOK, InNonST, Range
        <5>. QED  BY <2>1, <2>4, <2>9, <5>1 DEF Placed
      <4>4. request[r].called
        BY <1>0, <4>1 DEF AnswerOK
      <4>5. ~request[r].cancelled => request[r].completions = 0
        BY <1>0, <4>1, ObjectFacts DEF AnswerOK
      <4>. QED  BY <2>6, <2>7, <3>1, <4>1, <4>2, <4>3, <4>4, <4>5, ObjectFacts DEF AnswerOK
    <3>2. CASE ~Waiting(r)
      <4>1. /\ Placed(r)' <=> Placed(r)
            /\ request'[r].completions = request[r].completions
        BY <2>5, <2>6, <2>9, <3>2
      <4>. QED  BY <1>0, <2>1, <2>6, <2>7, <2>9, <4>1 DEF AnswerOK
    <3>. QED  BY <3>1, <3>2
  <2>. QED  BY <1>0, <2>1, <2>2, <2>3, <2>7, <2>8, <2>10, <2>11, FocusStep
<1>. QED  BY <1>1, <1>2, <1>4, <1>5, <1>6

\* A request comes back from the wire: only this thread has it now.
LEMMA QueueResponse ==
  ASSUME TypeOK, QueueInv, NEW r \in Requests, NEW t \in Threads, NEW result,
         ApiResponse(t, r, result)
  PROVE  QueueInv'
<1>. DEFINE p == IF r \in STRequests /\ Retryable(result) /\ ~request[r].expired
                 THEN "retry" ELSE "remove"
            x == [thread[t] EXCEPT !.request = r, !.result = result, !.pc = p]
            y == [request[r] EXCEPT !.http = "none"]
<1>0. PlaceOK(r) /\ AnswerOK(r) /\ thread[t] \in ThreadRecords /\ FinishOK(thread[t])
  BY ThreadRecord DEF QueueInv
<1>1. /\ thread' = [thread EXCEPT ![t] = x] /\ request' = [request EXCEPT ![r] = y]
      /\ UNCHANGED queueVars /\ At(t, "idle") /\ OnWire(r)
  BY DEF ApiResponse, OnWire
<1>2. /\ x.request = r /\ x.pc = p /\ x.finish = thread[t].finish
      /\ x.after = thread[t].after
      /\ p \in {"retry", "remove"} /\ (p = "retry" => r \in STRequests)
  BY <1>0 DEF ThreadRecords
<1>3. /\ request'[r] = y /\ \A s \in Requests \ {r} : request'[s] = request[s]
      /\ y.http = "none" /\ y.inited = request[r].inited
      /\ y.called = request[r].called /\ y.completions = request[r].completions
      /\ y.cancelled = request[r].cancelled /\ y.expired = request[r].expired
  BY <1>1, ObjectFacts DEF RequestStates
<1>. HIDE DEF x, y, p
<1>4. thread[t].pc = "idle" /\ thread[t].finish = NoRequest /\ thread[t].after = "return"
  BY <1>0, <1>1 DEF FinishOK, AttemptPCs
<1>5. thread'[t] = x /\ \A u \in Threads \ {t} : thread'[u] = thread[u]
  BY <1>1 DEF TypeOK
<1>6. \A u \in Threads : FinishOK(thread'[u])
  <2>1. FinishOK(x)
    BY <1>2, <1>4 DEF FinishOK
  <2>. QED  BY <1>5, <2>1 DEF QueueInv
<1>7. ~InST(r) /\ ~InNonST(r) /\ r \notin delayed_requests /\ Placed(r)
      /\ Unhandled(r) /\ request[r].inited
  BY <1>0, <1>1 DEF PlaceOK, AnswerOK, Placed, Unhandled
<1>8. ~InST(r)' /\ ~InNonST(r)' /\ r \notin delayed_requests' /\ ~OnWire(r)' /\ ~Placed(r)'
  BY <1>1, <1>3, <1>7 DEF InST, InNonST, OnWire, Placed
<1>9. \A s \in Requests \ {r} : Same(s)
  <2>. SUFFICES ASSUME NEW s \in Requests \ {r}  PROVE Same(s)
    OBVIOUS
  <2>1. \A u \in Threads : /\ Answering(u, s)' <=> Answering(u, s)
                           /\ Owes(u, s)' <=> Owes(u, s)
    BY <1>1, <1>2, <1>4, SameThreads
  <2>. QED  BY <1>1, <1>3, <2>1 DEF Same, InST, InNonST
<1>10. /\ Answering(t, r)' /\ \A u \in Threads : ~Owes(u, r)'
       /\ \A u \in Threads : Answering(u, r)' => u = t
  <2>1. Answering(t, r)' /\ ~Owes(t, r)'
    BY <1>2, <1>4, <1>5, RequestsAssumption DEF Answering, Owes
  <2>2. \A u \in Threads \ {t} : ~Answering(u, r)' /\ ~Owes(u, r)'
    BY <1>5, <1>7 DEF Answering, Owes, Unhandled
  <2>. QED  BY <2>1, <2>2
<1>11. PlaceOK(r)'
  BY <1>3, <1>7, <1>8, <1>10 DEF PlaceOK
<1>12. ~Unhandled(r)' /\ request[r].completions \in 0..2
  BY <1>10, ObjectFacts DEF Unhandled
<1>13. AnswerOK(r)'
  BY <1>0, <1>3, <1>7, <1>8, <1>12 DEF AnswerOK
<1>. QED  BY <1>1, <1>6, <1>9, <1>11, <1>13, FocusStep DEF QueueInv

\* Initially nobody called.
LEMMA InitQueue == Init => QueueInv
<1>. SUFFICES ASSUME Init  PROVE QueueInv
  OBVIOUS
<1>1. IsInjective(waiting_st_requests) /\ IsInjective(waiting_non_st_requests)
  BY DEF Init, IsInjective
<1>2. \A t \in Threads : thread[t] = IdleThread
  BY DEF Init
<1>3. FinishOK(IdleThread) /\ IdleThread.pc = "idle" /\ IdleThread.finish = NoRequest
  BY DEF FinishOK, IdleThread
<1>4. ASSUME NEW r \in Requests  PROVE PlaceOK(r) /\ AnswerOK(r)
  <2>1. Unhandled(r)
    BY <1>2, <1>3, RequestsAssumption DEF Unhandled, Answering, Owes
  <2>2. /\ request[r].http = "none" /\ ~request[r].called /\ ~request[r].inited
        /\ request[r].completions = 0
    BY DEF Init, NewRequest
  <2>3. ~InST(r) /\ ~InNonST(r) /\ r \notin delayed_requests /\ ~OnWire(r) /\ ~Placed(r)
    BY <2>2 DEF Init, InST, InNonST, OnWire, Placed, Range
  <2>. QED  BY <2>1, <2>2, <2>3 DEF PlaceOK, AnswerOK, Unhandled
<1>. QED  BY <1>1, <1>2, <1>3, <1>4 DEF QueueInv, Init

\* Every step keeps the invariant.
LEMMA NextQueue == TypeOK /\ QueueInv /\ [Next]_vars => QueueInv'
<1>. SUFFICES ASSUME TypeOK, QueueInv, [Next]_vars  PROVE QueueInv'
  OBVIOUS
<1>1. CASE UNCHANGED vars
  <2>1. \A r \in Requests : Same(r)
    BY <1>1 DEF Same, InST, InNonST, Answering, Owes
  <2>2. \A r \in Requests : PlaceOK(r)' /\ AnswerOK(r)'
    BY <2>1, SameKept DEF QueueInv
  <2>. QED  BY <1>1, <2>2 DEF QueueInv
<1>2. ASSUME NEW t \in Threads, ThreadStep(t)  PROVE QueueInv'
  BY <1>2, QueueAttempt, QueueStart, QueueCallback, QueueAnswer, QueueToken, QueueEvent
     DEF ThreadStep
<1>3. ASSUME NEW t \in Threads, NEW r \in Requests, RequestEvent(t, r)  PROVE QueueInv'
  BY <1>3, QueueRequest, QueueResponse DEF RequestEvent, ApiResponseAny
<1>4. ASSUME NEW r \in Requests, RetryTimePasses(r)  PROVE QueueInv'
  BY <1>4, QueueRequest
<1>5. ASSUME NEW t \in Threads,
             \/ SetLoginCredentialsAny(t)
             \/ SessionTokenFailureTimeout(t)
             \/ ConnectionStateRecheckTimeout(t)
             \/ CheckConnectionStatusResponseAny(t)
             \/ \E call \in token_calls : SessionTokenResponseAny(t, call)
      PROVE  QueueInv'
  BY <1>5, QueueEvent
<1>. QED  BY <1>1, <1>2, <1>3, <1>4, <1>5 DEF Next

\* For any number of threads and requests: a request waits in one queue, waits
\* out a delay or is on the wire, and never two of these, although answers,
\* timeouts, delays and cancellations of it race; and until its callback is
\* called it is in one of them, or in the hands of a thread, unless it was
\* retried and its timeout fired while it waited again.
THEOREM RequestInOnePlace == Spec => []OnePlace
<1>1. TypeOK /\ QueueInv => OnePlace
  <2>. SUFFICES ASSUME TypeOK, QueueInv, NEW r \in Requests
                PROVE  /\ Places(r) <= 1
                       /\ Lost(r) => r \in STRequests /\ request[r].inited /\ request[r].expired
    BY DEF OnePlace
  <2>0. PlaceOK(r) /\ AnswerOK(r)
    BY DEF QueueInv
  <2>1. /\ Times(waiting_st_requests, r) = IF InST(r) THEN 1 ELSE 0
        /\ Times(waiting_non_st_requests, r) = IF InNonST(r) THEN 1 ELSE 0
    BY TimesInQueue DEF QueueInv, TypeOK, LockerOK, InST, InNonST
  <2>2. Cardinality({s \in delayed_requests : s = r}) =
          IF r \in delayed_requests THEN 1 ELSE 0
    <3>1. {s \in delayed_requests : s = r} = IF r \in delayed_requests THEN {r} ELSE {}
      OBVIOUS
    <3>. QED  BY <3>1, FS_Singleton, FS_EmptySet
  <2>3. Places(r) = (IF InST(r) THEN 1 ELSE 0) + (IF InNonST(r) THEN 1 ELSE 0)
                     + (IF r \in delayed_requests THEN 1 ELSE 0)
                     + (IF OnWire(r) THEN 1 ELSE 0)
    BY <2>1, <2>2 DEF Places, OnWire
  <2>4. ~(InST(r) /\ InNonST(r)) /\ ~(InNonST(r) /\ r \in delayed_requests)
    BY RequestsAssumption DEF QueueInv, TypeOK, LockerOK, InST, InNonST, Range
  <2>5. Places(r) <= 1
    BY <2>0, <2>3, <2>4 DEF PlaceOK
  <2>6. Places(r) = 0 => ~Placed(r)
    BY <2>3 DEF Placed
  <2>7. (\A t \in Threads : thread[t].request # r /\ thread[t].finish # r) => Unhandled(r)
    BY DEF Unhandled, Answering, Owes
  <2>. QED  BY <2>0, <2>5, <2>6, <2>7 DEF Lost, AnswerOK
<1>2. Init => TypeOK /\ QueueInv
  BY InitType, InitQueue
<1>3. TypeOK /\ QueueInv /\ [Next]_vars => (TypeOK /\ QueueInv)'
  BY NextType, NextQueue
<1>. QED  BY <1>1, <1>2, <1>3, PTL DEF Spec

\* For any number of threads and requests: the callback of a request that is not
\* cancelled is called at most once, by the thread that owes it or by the timeout
\* that takes the request out of its queue.
THEOREM RequestAnsweredOnce == Spec => []AnsweredOnce
<1>1. TypeOK /\ QueueInv => AnsweredOnce
  <2>1. ASSUME TypeOK, QueueInv, NEW r \in Requests, ~request[r].cancelled
        PROVE  request[r].completions <= 1
    <3>1. AnswerOK(r) /\ request[r].completions \in 0..2
      BY <2>1, ObjectFacts DEF QueueInv
    <3>. QED  BY <2>1, <3>1 DEF AnswerOK
  <2>. QED  BY <2>1 DEF AnsweredOnce
<1>2. Init => TypeOK /\ QueueInv
  BY InitType, InitQueue
<1>3. TypeOK /\ QueueInv /\ [Next]_vars => (TypeOK /\ QueueInv)'
  BY NextType, NextQueue
<1>. QED  BY <1>1, <1>2, <1>3, PTL DEF Spec

----------------------------------------------------------------------------
(***************************************************************************)
(* The connection: any number of threads.                                  *)
(***************************************************************************)

\* While the connection is down a status call or a recheck is under way, or a
\* thread is about to start one.
ReconnectInv ==
  connection_state = "Unconnected" =>
    \/ connection_state_recheck_timer > 0 \/ status_calls > 0
    \/ \E t \in Threads : At(t, "attempt")

\* The steps that leave the connection, its timer and the status calls alone; a
\* thread that is about to look at the connection stays where it is.
Unconcerned ==
  /\ UNCHANGED connectionVars /\ UNCHANGED status_calls
  /\ \A t \in Threads : At(t, "attempt") => thread'[t].pc = "attempt"

\* A step that leaves the connection alone keeps its invariant.
LEMMA UnconcernedKept == ReconnectInv /\ Unconcerned => ReconnectInv'
BY DEF ReconnectInv, Unconcerned

\* Only the thread that takes a step moves.
LEMMA OneMoves ==
  ASSUME TypeOK, NEW t \in Threads
  PROVE  /\ \A x : thread' = [thread EXCEPT ![t] = x] =>
              \A u \in Threads : u # t => thread'[u] = thread[u]
         /\ \A p : Goto(t, p) => \A u \in Threads : u # t => thread'[u] = thread[u]
         /\ Return(t) \/ AttemptRequests(t) =>
              \A u \in Threads : u # t => thread'[u] = thread[u]
BY DEF TypeOK, Return, AttemptRequests

\* So a thread at another point leaves those about to look where they are.
LEMMA AttemptStays ==
  ASSUME TypeOK, NEW t \in Threads, ~At(t, "attempt"),
         \A u \in Threads : u # t => thread'[u] = thread[u],
         UNCHANGED connectionVars, UNCHANGED status_calls
  PROVE  Unconcerned
BY DEF Unconcerned

\* An outcome is either good or starts the recheck timer.
LEMMA UpdateRechecks ==
  ASSUME TypeOK, NEW result, UpdateConnectionState(result)
  PROVE  connection_state' = "Unconnected" => connection_state_recheck_timer' > 0
<1>1. Bump(connection_state_recheck_timer, MaxTimerWaits) > 0
  BY LimitsAssumption DEF Bump, TypeOK, LockerOK
<1>. QED  BY <1>1 DEF UpdateConnectionState, Rearmed

\* Every step of a handler keeps the invariant.
LEMMA ReconnectStep ==
  ASSUME TypeOK, ReconnectInv, NEW t \in Threads, ThreadStep(t)
  PROVE  ReconnectInv'
<1>1. CASE AttemptConnection(t)
  <2>1. status_calls' > 0
    BY <1>1, LimitsAssumption DEF AttemptConnection, Bump, TypeOK
  <2>. QED  BY <2>1 DEF ReconnectInv
<1>2. CASE AttemptConnected(t)
  BY <1>2 DEF AttemptConnected, ReconnectInv
<1>3. CASE TokenConnectionUpdate(t)
  BY <1>3, UpdateRechecks DEF TokenConnectionUpdate, ReconnectInv
<1>4. ASSUME AttemptStep(t), ~AttemptConnection(t), ~AttemptConnected(t)
      PROVE  ReconnectInv'
  <2>1. ~At(t, "attempt")
    BY <1>4 DEF AttemptStep, StartNonSTRequest, NoMoreNonSTRequests, AddInProgressNonST,
                CheckRunning, StartSTRequest, NoMoreSTRequests, AddInProgressST,
                RequestNeededSessionTokens, GetCredentials, TryRequestSessionToken,
                SessionTokenRequestRefused, CompletionCallback
  <2>2. UNCHANGED connectionVars /\ UNCHANGED status_calls
    BY <1>4 DEF AttemptStep, StartNonSTRequest, NoMoreNonSTRequests, AddInProgressNonST,
                CheckRunning, StartSTRequest, NoMoreSTRequests, AddInProgressST,
                RequestNeededSessionTokens, GetCredentials, TryRequestSessionToken,
                SessionTokenRequestRefused, CompletionCallback
  <2>3. UNCHANGED thread \/ \E x : thread' = [thread EXCEPT ![t] = x]
    BY <1>4 DEF AttemptStep, StartNonSTRequest, NoMoreNonSTRequests, AddInProgressNonST,
                CheckRunning, StartSTRequest, NoMoreSTRequests, AddInProgressST,
                RequestNeededSessionTokens, GetCredentials, TryRequestSessionToken,
                SessionTokenRequestRefused, CompletionCallback, Return
  <2>. QED  BY <2>1, <2>2, <2>3, OneMoves, AttemptStays, UnconcernedKept
<1>5. ASSUME TokenStep(t) \/ ApiStep(t), ~TokenConnectionUpdate(t)
      PROVE  ReconnectInv'
  <2>1. ~At(t, "attempt")
    BY <1>5 DEF TokenStep, GetSessionState, IncrementFailureCount, JudgeFailure,
                SetFailureState, ArmFailureTimer, ResetFailureCount, AddToken, SetRunning,
                ApiStep, RemoveInProgressRequest, MoveInProgressToWaiting,
                MoveInProgressToDelayed, ReleaseToken
  <2>2. UNCHANGED connectionVars /\ UNCHANGED status_calls
    BY <1>5 DEF TokenStep, GetSessionState, IncrementFailureCount, JudgeFailure,
                SetFailureState, ArmFailureTimer, ResetFailureCount, AddToken, SetRunning,
                ApiStep, RemoveInProgressRequest, MoveInProgressToWaiting,
                MoveInProgressToDelayed, ReleaseToken
  <2>3. \E x : thread' = [thread EXCEPT ![t] = x]
    BY <1>5 DEF TokenStep, GetSessionState, IncrementFailureCount, JudgeFailure,
                SetFailureState, ArmFailureTimer, ResetFailureCount, AddToken, SetRunning,
                ApiStep, RemoveInProgressRequest, MoveInProgressToWaiting,
                MoveInProgressToDelayed, ReleaseToken, AttemptRequests
  <2>. QED  BY <2>1, <2>2, <2>3, OneMoves, AttemptStays, UnconcernedKept
<1>6. CASE StatusChecked(t)
  BY <1>6, OneMoves, AttemptStays, UnconcernedKept DEF StatusChecked
<1>. QED  BY <1>1, <1>2, <1>3, <1>4, <1>5, <1>6 DEF ThreadStep

\* So does every event.
LEMMA ReconnectEvent ==
  ASSUME TypeOK, ReconnectInv, NEW t \in Threads,
         \/ SetLoginCredentialsAny(t)
         \/ SessionTokenFailureTimeout(t)
         \/ ConnectionStateRecheckTimeout(t)
         \/ CheckConnectionStatusResponseAny(t)
         \/ \E r \in Requests : RequestEvent(t, r)
         \/ \E call \in token_calls : SessionTokenResponseAny(t, call)
  PROVE  ReconnectInv'
<1>1. CASE ConnectionStateRecheckTimeout(t)
  <2>1. thread'[t].pc = "attempt"
    BY <1>1 DEF ConnectionStateRecheckTimeout, AttemptRequests, IdleThread, TypeOK
  <2>. QED  BY <2>1 DEF ReconnectInv
<1>2. ASSUME NEW r \in Requests, ApiResponseAny(t, r)  PROVE ReconnectInv'
  BY <1>2, UpdateRechecks DEF ApiResponseAny, ApiResponse, ReconnectInv
<1>3. CASE CheckConnectionStatusResponseAny(t)
  BY <1>3, UpdateRechecks
     DEF CheckConnectionStatusResponseAny, CheckConnectionStatusResponse, ReconnectInv
<1>4. ASSUME SetLoginCredentialsAny(t) \/ SessionTokenFailureTimeout(t)  PROVE ReconnectInv'
  <2>1. /\ ~At(t, "attempt") /\ UNCHANGED connectionVars /\ UNCHANGED status_calls
        /\ \E x : thread' = [thread EXCEPT ![t] = x]
    BY <1>4 DEF SetLoginCredentialsAny, SetLoginCredentials, SessionTokenFailureTimeout,
                AttemptRequests
  <2>. QED  BY <2>1, OneMoves, AttemptStays, UnconcernedKept
<1>5. ASSUME NEW call, NEW result, NEW tk, SessionTokenResponse(t, call, result, tk)
      PROVE  ReconnectInv'
  <2>1. /\ ~At(t, "attempt") /\ UNCHANGED connectionVars /\ UNCHANGED status_calls
        /\ \E x : thread' = [thread EXCEPT ![t] = x]
    BY <1>5 DEF SessionTokenResponse
  <2>. QED  BY <2>1, OneMoves, AttemptStays, UnconcernedKept
<1>6. ASSUME NEW r \in Requests,
             \/ Call(t, r) \/ Cancel(t, r) \/ DelayedRequestTimeout(t, r)
             \/ HandleTimedOutRequest(t, r)
      PROVE  ReconnectInv'
  <2>1. /\ ~At(t, "attempt") /\ UNCHANGED connectionVars /\ UNCHANGED status_calls
        /\ UNCHANGED thread \/ AttemptRequests(t)
    BY <1>6 DEF Call, Cancel, DelayedRequestTimeout, HandleTimedOutRequest
  <2>. QED  BY <2>1, OneMoves, AttemptStays, UnconcernedKept
<1>. QED
  BY <1>1, <1>2, <1>3, <1>4, <1>5, <1>6 DEF RequestEvent, SessionTokenResponseAny

\* Every step keeps a reconnection pending.
LEMMA NextReconnect == TypeOK /\ ReconnectInv /\ [Next]_vars => ReconnectInv'
<1>. SUFFICES ASSUME TypeOK, ReconnectInv, [Next]_vars  PROVE ReconnectInv'
  OBVIOUS
<1>1. ASSUME UNCHANGED vars \/ \E r \in Requests : RetryTimePasses(r)
      PROVE  ReconnectInv'
  BY <1>1 DEF RetryTimePasses, ReconnectInv
<1>. QED  BY <1>1, ReconnectStep, ReconnectEvent DEF Next

\* For any number of threads: a connection that was found down is looked at
\* again, because a status call or a recheck is under way whenever every handler
\* is done.
THEOREM ReconnectAlwaysPending == Spec => []ReconnectPending
<1>1. Init => TypeOK /\ ReconnectInv
  <2>1. Init => ReconnectInv
    BY DEF Init, ReconnectInv
  <2>. QED  BY <2>1, InitType
<1>2. TypeOK /\ ReconnectInv /\ [Next]_vars => (TypeOK /\ ReconnectInv)'
  BY NextType, NextReconnect
<1>3. ReconnectInv => ReconnectPending
  BY DEF ReconnectInv, ReconnectPending, AllIdle
<1>. QED  BY <1>1, <1>2, <1>3, PTL DEF Spec

----------------------------------------------------------------------------
(***************************************************************************)
(* One thread: the io_service and the user's calls run on the same thread, *)
(* so that a handler runs to its end before the next event.                *)
(***************************************************************************)

\* A request that the locker has in progress, or that has a token checked out, is
\* on the wire or in the hands of the thread that got its answer.
LeakInv ==
  /\ \A t \in Threads :
       thread[t].pc \in {"add_st", "add_non_st"} => OnWire(thread[t].request)
  /\ \A r \in in_progress_requests : OnWire(r) \/ \E t \in Threads : Answering(t, r)
  /\ \A r \in CheckedOut :
       \/ OnWire(r)
       \/ \E t \in Threads :
            thread[t].pc \in {"remove", "retry", "release"} /\ thread[t].request = r

\* The points between GetSessionState and the end of SetSessionStateSafe.
SnapshotPCs == AnswerPCs \ {"snapshot", "arm"}

\* What a thread at one of these points knows of the session is still so.
KnowledgeOK(th) ==
  /\ th.pc \in AnswerPCs \cup {"try", "try_one"} => credentials # NoCredentials
  /\ th.pc \in {"start_st", "add_st"} => session_state.kind = "Running"
  /\ th.pc = "add_st" => th.token.credentials = credentials
  /\ th.pc \in TokenPCs /\ th.result = "ok" => th.token.credentials = th.credentials
  /\ th.pc \in SnapshotPCs =>
       th.state = session_state /\ th.count = session_state_change_count
  /\ th.pc = "set_failure" =>
       IF th.result = "credentials" THEN th.credentials = credentials
       ELSE th.state.kind \in {"Initialized", "ProlongedError"}
  /\ th.pc = "set_running" => th.credentials = credentials

\* State, tokens and outstanding calls belong to the credentials; a token is only
\* there while the state is Running or about to become so.
CredentialsInv ==
  /\ credentials # NoCredentials => session_state.kind # "Uninitialized"
  /\ token_calls # {} => credentials # NoCredentials
  /\ session_state.kind \in {"CredentialsFailure", "Running"} =>
       session_state.credentials = credentials
  /\ \A tk \in Range(session_tokens) : tk.credentials = credentials
  /\ \A r \in CheckedOut : checked_out_tokens[r].credentials = credentials
  /\ session_state.kind # "Running" =>
       \/ session_tokens = <<>> /\ CheckedOut = {}
       \/ \E t \in Threads : At(t, "set_running")
  /\ \A t \in Threads : KnowledgeOK(thread[t])

\* The points of RequestNeededSessionTokens.
AskPCs == {"need", "need_force", "get_credentials", "get_credentials_one", "try",
           "try_one"}

\* What the thread may count on when it asks for tokens, or returns.
AskOK(th) ==
  /\ th.pc \in AskPCs =>
       \/ connection_state = "Unconnected"
       \/ waiting_st_requests = <<>> \/ session_tokens = <<>>
  /\ th.pc \in {"start_non_st", "add_non_st", "check_running", "start_st", "add_st"} =>
       connection_state # "Unconnected"
  /\ th.pc = "status_checked" => connection_state # "Uninitialized"

\* A request waits in vain: nothing keeps the maintainer from asking for a token.
InVain ==
  /\ connection_state # "Unconnected" /\ credentials # NoCredentials
  /\ session_state.kind # "CredentialsFailure" /\ waiting_st_requests # <<>>

\* Something that ends in another attempt is pending.
Pending ==
  token_calls # {} \/ session_token_failure_timer > 0 \/ CheckedOut # {}

\* A request only waits while an attempt is pending or under way.
WakeInv ==
  /\ \A t \in Threads : AskOK(thread[t])
  /\ InVain =>
       Pending \/ \E t \in Threads : thread[t].pc \notin {"idle", "callback", "need_force"}

OneThread == \A t, u \in Threads : t = u

\* A set of threads of cardinality one holds one thread.
LEMMA OneThreadOnly == Cardinality(Threads) = 1 => OneThread
BY ThreadsAssumption, FS_Singleton DEF OneThread

\* Where a thread is after a step that only moves it.
LEMMA MovePoint ==
  ASSUME TypeOK, NEW t \in Threads
  PROVE  /\ \A x : thread' = [thread EXCEPT ![t] = x] => thread'[t] = x
         /\ Return(t) => thread'[t].pc \in {"need_force", "callback", "idle"}
         /\ \A p : Goto(t, p) =>
              thread'[t] = [thread[t] EXCEPT !.pc = p] /\ thread'[t].pc = p
         /\ AttemptRequests(t) => thread'[t].pc = "attempt"
<1>1. \A x : thread' = [thread EXCEPT ![t] = x] => thread'[t] = x
  BY DEF TypeOK
<1>2. Returned(thread[t]).pc \in {"need_force", "callback", "idle"}
  BY DEF Returned, IdleThread
<1>3. [IdleThread EXCEPT !.pc = "attempt"].pc = "attempt"
  BY DEF IdleThread
<1>4. ASSUME NEW p, Goto(t, p)
      PROVE  thread'[t] = [thread[t] EXCEPT !.pc = p] /\ thread'[t].pc = p
  <2>1. thread'[t] = [thread[t] EXCEPT !.pc = p]
    BY <1>4 DEF TypeOK
  <2>. QED  BY <2>1, ThreadRecord DEF ThreadRecords
<1>5. Return(t) => thread'[t].pc \in {"need_force", "callback", "idle"}
  BY <1>1, <1>2 DEF Return
<1>6. AttemptRequests(t) => thread'[t].pc = "attempt"
  BY <1>1, <1>3 DEF AttemptRequests
<1>. QED  BY <1>1, <1>4, <1>5, <1>6

\* Quiet steps give a token to nobody.
LEMMA QuietCheckedOut == Quiet => CheckedOut' \subseteq CheckedOut
BY DEF Quiet, CheckedOut, HoldsToken

----------------------------------------------------------------------------
(***************************************************************************)
(* One thread: no token leaks.                                             *)
(***************************************************************************)

\* The steps that start no request and handle no answer.
LEMMA LeakQuiet ==
  ASSUME TypeOK, LeakInv, OneThread, NEW t \in Threads,
         UNCHANGED in_progress_requests, CheckedOut' \subseteq CheckedOut,
         \A r \in Requests : OnWire(r) => OnWire(r)',
         thread[t].pc \notin {"remove", "retry", "release"},
         thread'[t].pc \notin {"add_st", "add_non_st"}
  PROVE  LeakInv'
<1>1. \A r \in in_progress_requests \cup CheckedOut : r \in Requests /\ OnWire(r)
  BY DEF LeakInv, OneThread, Answering, TypeOK, LockerOK, CheckedOut
<1>2. \A r \in in_progress_requests' \cup CheckedOut' : OnWire(r)'
  BY <1>1
<1>3. \A u \in Threads : thread'[u].pc \notin {"add_st", "add_non_st"}
  BY DEF OneThread
<1>. QED  BY <1>2, <1>3 DEF LeakInv

\* The steps of AttemptRequests.
LEMMA LeakAttempt ==
  ASSUME TypeOK, TypeOK', LeakInv, OneThread, NEW t \in Threads, AttemptStep(t)
  PROVE  LeakInv'
<1>0. thread[t] \in ThreadRecords /\ LocalsOK(thread[t])
  BY ThreadFacts
<1>1. ASSUME StartNonSTRequest(t) \/ StartSTRequest(t)  PROVE LeakInv'
  <2>1. PICK r \in Requests : InitRequest(r) /\ thread'[t].request = r
    <3>1. CASE StartNonSTRequest(t)
      <4>1. Head(waiting_non_st_requests) \in Requests
        BY <3>1, PopFront DEF StartNonSTRequest, TypeOK, LockerOK, Requests
      <4>2. thread'[t].request = Head(waiting_non_st_requests)
        BY <1>0, <3>1 DEF StartNonSTRequest, TypeOK, ThreadRecords
      <4>. QED  BY <3>1, <4>1, <4>2 DEF StartNonSTRequest
    <3>2. CASE StartSTRequest(t)
      <4>1. Head(waiting_st_requests) \in Requests
        BY <3>2, PopFront DEF StartSTRequest, TypeOK, LockerOK, Requests
      <4>2. thread'[t].request = Head(waiting_st_requests)
        BY <1>0, <3>2 DEF StartSTRequest, TypeOK, ThreadRecords
      <4>. QED  BY <3>2, <4>1, <4>2 DEF StartSTRequest
    <3>. QED  BY <1>1, <3>1, <3>2
  <2>2. OnWire(r)' /\ \A s \in Requests : OnWire(s) => OnWire(s)'
    <3>1. request'[r] = [request[r] EXCEPT !.inited = TRUE, !.http = "live"]
          /\ \A s \in Requests \ {r} : request'[s] = request[s]
      BY <2>1 DEF InitRequest, TypeOK
    <3>2. request'[r].http = "live"
      BY <3>1 DEF TypeOK, RequestStates
    <3>. QED  BY <3>1, <3>2 DEF OnWire
  <2>3. in_progress_requests' = in_progress_requests /\ CheckedOut' = CheckedOut
    BY <1>1 DEF StartNonSTRequest, StartSTRequest, CheckedOut, HoldsToken
  <2>4. thread[t].pc \in {"start_non_st", "start_st"}
    BY <1>1 DEF StartNonSTRequest, StartSTRequest
  <2>5. \A s \in in_progress_requests \cup CheckedOut : s \in Requests /\ OnWire(s)
    <3>1. \A u \in Threads : thread[u].pc \notin {"remove", "retry", "release"}
      BY <2>4 DEF OneThread
    <3>2. \A s \in in_progress_requests \cup CheckedOut : OnWire(s)
      BY <3>1 DEF LeakInv, Answering
    <3>. QED  BY <3>2 DEF TypeOK, LockerOK, CheckedOut
  <2>6. \A u \in Threads : OnWire(thread[u].request)'
    BY <2>1, <2>2 DEF OneThread, OnWire
  <2>. QED  BY <2>2, <2>3, <2>5, <2>6 DEF LeakInv
<1>2. ASSUME AddInProgressNonST(t) \/ AddInProgressST(t)  PROVE LeakInv'
  <2>1. PICK r \in Requests : r = thread[t].request
    BY <1>0, <1>2 DEF AddInProgressNonST, AddInProgressST, LocalsOK, RequestPCs
  <2>2. thread[t].pc \in {"add_st", "add_non_st"}
    BY <1>2 DEF AddInProgressNonST, AddInProgressST
  <2>3. OnWire(r)
    BY <2>1, <2>2 DEF LeakInv
  <2>4. \A s \in in_progress_requests \cup CheckedOut : OnWire(s)
    BY <2>2 DEF LeakInv, OneThread, Answering
  <2>5. in_progress_requests' = in_progress_requests \cup {r} /\ UNCHANGED request
    BY <1>2, <2>1 DEF AddInProgressNonST, AddInProgressST
  <2>6. CheckedOut' \subseteq CheckedOut \cup {r}
    BY <1>2, <2>1 DEF AddInProgressNonST, AddInProgressST, CheckedOut, HoldsToken,
                      TypeOK, LockerOK
  <2>7. thread'[t].pc \in {"start_non_st", "check_running"}
    BY <1>0, <1>2 DEF AddInProgressNonST, AddInProgressST, TypeOK, ThreadRecords
  <2>8. \A u \in Threads : thread'[u].pc \notin {"add_st", "add_non_st"}
    BY <2>7 DEF OneThread
  <2>9. \A s \in in_progress_requests' \cup CheckedOut' : OnWire(s)'
    BY <2>3, <2>4, <2>5, <2>6 DEF OnWire
  <2>. QED  BY <2>8, <2>9 DEF LeakInv
<1>3. ASSUME ~StartNonSTRequest(t), ~StartSTRequest(t), ~AddInProgressNonST(t),
             ~AddInProgressST(t)
      PROVE  LeakInv'
  <2>1. UNCHANGED in_progress_requests /\ UNCHANGED checked_out_tokens
    BY <1>3 DEF AttemptStep, AttemptConnection, AttemptConnected, NoMoreNonSTRequests,
                CheckRunning, NoMoreSTRequests, RequestNeededSessionTokens,
                GetCredentials, TryRequestSessionToken, SessionTokenRequestRefused,
                CompletionCallback
  <2>2. thread[t].pc \notin {"remove", "retry", "release", "add_st", "add_non_st"}
    BY <1>3 DEF AttemptStep, AttemptConnection, AttemptConnected, NoMoreNonSTRequests,
                CheckRunning, NoMoreSTRequests, RequestNeededSessionTokens,
                GetCredentials, TryRequestSessionToken, SessionTokenRequestRefused,
                CompletionCallback
  <2>3. \A r \in Requests : OnWire(r) => OnWire(r)'
    <3>1. CASE CompletionCallback(t)
      <4>1. \A r \in Requests : request'[r].http = request[r].http
        BY <1>0, <3>1 DEF CompletionCallback, LocalsOK, TypeOK, RequestStates
      <4>. QED  BY <4>1 DEF OnWire
    <3>2. CASE UNCHANGED request
      BY <3>2 DEF OnWire
    <3>. QED
      BY <1>3, <3>1, <3>2
         DEF AttemptStep, AttemptConnection, AttemptConnected, NoMoreNonSTRequests,
             CheckRunning, NoMoreSTRequests, RequestNeededSessionTokens, GetCredentials,
             TryRequestSessionToken, SessionTokenRequestRefused
  <2>4. thread'[t].pc \notin {"add_st", "add_non_st"}
    <3>1. CASE GetCredentials(t)
      <4>1. Return(t) \/ thread'[t].pc \in {"try", "try_one"}
        BY <1>0, <3>1 DEF GetCredentials, TypeOK, ThreadRecords
      <4>. QED  BY <4>1, MovePoint
    <3>2. CASE CompletionCallback(t)
      BY <3>2, MovePoint DEF CompletionCallback, IdleThread
    <3>3. ASSUME ~GetCredentials(t), ~CompletionCallback(t)
          PROVE  \/ UNCHANGED thread \/ Return(t)
                 \/ \E p \in {"start_non_st", "check_running", "start_st", "need",
                              "get_credentials", "get_credentials_one"} : Goto(t, p)
      BY <1>3, <3>3
         DEF AttemptStep, AttemptConnection, AttemptConnected, NoMoreNonSTRequests,
             CheckRunning, NoMoreSTRequests, RequestNeededSessionTokens,
             TryRequestSessionToken, SessionTokenRequestRefused
    <3>. QED  BY <2>2, <3>1, <3>2, <3>3, MovePoint
  <2>5. CheckedOut' \subseteq CheckedOut
    BY <2>1 DEF CheckedOut, HoldsToken
  <2>. QED  BY <2>1, <2>2, <2>3, <2>4, <2>5, LeakQuiet
<1>. QED  BY <1>1, <1>2, <1>3

\* The steps of HandleSessionTokenResponse and the events, except the answer of a
\* request.
LEMMA LeakOther ==
  ASSUME TypeOK, LeakInv, OneThread, NEW t \in Threads,
         \/ TokenStep(t) \/ StatusChecked(t) \/ SetLoginCredentialsAny(t)
         \/ SessionTokenFailureTimeout(t) \/ ConnectionStateRecheckTimeout(t)
         \/ CheckConnectionStatusResponseAny(t)
         \/ \E call \in token_calls : SessionTokenResponseAny(t, call)
  PROVE  LeakInv'
<1>0. thread[t] \in ThreadRecords
  BY ThreadFacts
<1>1. UNCHANGED in_progress_requests /\ UNCHANGED request
  BY DEF TokenStep, GetSessionState, TokenConnectionUpdate, IncrementFailureCount,
         JudgeFailure, SetFailureState, ArmFailureTimer, ResetFailureCount, AddToken,
         SetRunning, StatusChecked, SetLoginCredentialsAny, SetLoginCredentials,
         SessionTokenFailureTimeout, ConnectionStateRecheckTimeout,
         CheckConnectionStatusResponseAny, CheckConnectionStatusResponse,
         SessionTokenResponseAny, SessionTokenResponse
<1>2. thread[t].pc \notin {"remove", "retry", "release", "add_st", "add_non_st"}
  BY DEF TokenStep, GetSessionState, TokenConnectionUpdate, IncrementFailureCount,
         JudgeFailure, SetFailureState, ArmFailureTimer, ResetFailureCount, AddToken,
         SetRunning, StatusChecked, SetLoginCredentialsAny, SetLoginCredentials,
         SessionTokenFailureTimeout, ConnectionStateRecheckTimeout,
         CheckConnectionStatusResponseAny, CheckConnectionStatusResponse,
         SessionTokenResponseAny, SessionTokenResponse
<1>3. CheckedOut' \subseteq CheckedOut
  <2>1. \/ UNCHANGED checked_out_tokens
        \/ checked_out_tokens' = [r \in Requests |-> NoToken]
    BY DEF TokenStep, GetSessionState, TokenConnectionUpdate, IncrementFailureCount,
           JudgeFailure, SetFailureState, ArmFailureTimer, ResetFailureCount, AddToken,
           AddSessionToken, SetRunning, StatusChecked, SetLoginCredentialsAny,
           SetLoginCredentials, SetCredentials, SetSessionStateSafe, ChangeSessionState,
           SessionTokenFailureTimeout, ConnectionStateRecheckTimeout,
           CheckConnectionStatusResponseAny, CheckConnectionStatusResponse,
           SessionTokenResponseAny, SessionTokenResponse
  <2>. QED  BY <2>1 DEF CheckedOut, HoldsToken
<1>4. thread'[t].pc \notin {"add_st", "add_non_st"}
  <2>1. CASE GetSessionState(t)
    BY <1>0, <2>1 DEF GetSessionState, TypeOK, ThreadRecords
  <2>2. CASE AddToken(t)
    <3>1. AttemptRequests(t) \/ thread'[t].pc = "set_running"
      BY <1>0, <2>2 DEF AddToken, TypeOK, ThreadRecords
    <3>. QED  BY <3>1, MovePoint
  <2>3. CASE SessionTokenFailureTimeout(t)
    BY <2>3, MovePoint DEF SessionTokenFailureTimeout, IdleThread
  <2>4. ASSUME NEW call, NEW result, NEW tk, SessionTokenResponse(t, call, result, tk)
        PROVE  thread'[t].pc = "snapshot"
    BY <1>0, <2>4 DEF SessionTokenResponse, TypeOK, ThreadRecords
  <2>5. CASE ArmFailureTimer(t)
    BY <2>5, MovePoint DEF ArmFailureTimer, IdleThread
  <2>6. ASSUME \/ TokenConnectionUpdate(t) \/ IncrementFailureCount(t) \/ JudgeFailure(t)
               \/ SetFailureState(t) \/ ResetFailureCount(t) \/ SetRunning(t)
               \/ StatusChecked(t) \/ SetLoginCredentialsAny(t)
               \/ ConnectionStateRecheckTimeout(t) \/ CheckConnectionStatusResponseAny(t)
        PROVE  \/ Return(t) \/ AttemptRequests(t)
               \/ \E p \in {"reset_failures", "failed", "judge", "set_failure", "arm",
                            "add_token", "status_checked"} : Goto(t, p)
    BY <2>6 DEF TokenConnectionUpdate, IncrementFailureCount, JudgeFailure,
                SetFailureState, ResetFailureCount, SetRunning, StatusChecked,
                SetLoginCredentialsAny, SetLoginCredentials,
                ConnectionStateRecheckTimeout, CheckConnectionStatusResponseAny,
                CheckConnectionStatusResponse
  <2>. QED
    BY <2>1, <2>2, <2>3, <2>4, <2>5, <2>6, MovePoint
       DEF TokenStep, SessionTokenResponseAny
<1>. QED  BY <1>1, <1>2, <1>3, <1>4, LeakQuiet DEF OnWire

\* The steps after the answer of a request: it leaves in_progress_requests_ before
\* its token is released.
LEMMA LeakAnswer ==
  ASSUME TypeOK, LeakInv, OneThread, NEW t \in Threads, ApiStep(t)
  PROVE  LeakInv'
<1>0. thread[t] \in ThreadRecords /\ LocalsOK(thread[t])
  BY ThreadFacts
<1>1. PICK r \in Requests : r = thread[t].request
  BY <1>0 DEF ApiStep, RemoveInProgressRequest, MoveInProgressToWaiting,
              MoveInProgressToDelayed, ReleaseToken, LocalsOK, RequestPCs
<1>2. UNCHANGED request
  BY DEF ApiStep, RemoveInProgressRequest, MoveInProgressToWaiting,
         MoveInProgressToDelayed, ReleaseToken
<1>3. CASE ReleaseToken(t)
  <2>1. \A s \in in_progress_requests : OnWire(s)
    BY <1>3 DEF ReleaseToken, LeakInv, OneThread, Answering
  <2>2. \A s \in CheckedOut : OnWire(s) \/ s = r
    BY <1>1, <1>3 DEF ReleaseToken, LeakInv, OneThread
  <2>3. CheckedOut' \subseteq CheckedOut \ {r}
    <3>1. DeleteCheckedOutToken(r) \/ ReuseToken(r)
      BY <1>1, <1>3 DEF ReleaseToken
    <3>. QED  BY <3>1 DEF DeleteCheckedOutToken, ReuseToken, CheckedOut, HoldsToken,
                          TypeOK, LockerOK
  <2>4. thread'[t].pc = "attempt"
    <3>. DEFINE x == [IdleThread EXCEPT !.pc = "attempt", !.finish = thread[t].finish]
    <3>1. x.pc = "attempt" /\ thread' = [thread EXCEPT ![t] = x]
      BY <1>3 DEF ReleaseToken, IdleThread
    <3>. HIDE DEF x
    <3>. QED  BY <3>1, MovePoint
  <2>5. \A u \in Threads : thread'[u].pc \notin {"add_st", "add_non_st"}
    BY <2>4 DEF OneThread
  <2>6. in_progress_requests' = in_progress_requests
    BY <1>3 DEF ReleaseToken
  <2>7. \A s \in in_progress_requests' \cup CheckedOut' : OnWire(s)'
    BY <1>2, <2>1, <2>2, <2>3, <2>6 DEF OnWire
  <2>. QED  BY <2>5, <2>7 DEF LeakInv
<1>4. ASSUME ~ReleaseToken(t)  PROVE LeakInv'
  <2>1. /\ thread[t].pc \in {"remove", "retry"}
        /\ in_progress_requests' = in_progress_requests \ {r}
        /\ CheckedOut' = CheckedOut
    BY <1>1, <1>4 DEF ApiStep, RemoveInProgressRequest, MoveInProgressToWaiting,
                      MoveInProgressToDelayed, CheckedOut, HoldsToken
  <2>2. thread'[t].pc = "release" /\ thread'[t].request = r
    BY <1>0, <1>1, <1>4 DEF ApiStep, RemoveInProgressRequest, MoveInProgressToWaiting,
                            MoveInProgressToDelayed, TypeOK, ThreadRecords
  <2>3. \A s \in in_progress_requests \cup CheckedOut : OnWire(s) \/ s = r
    BY <1>1, <2>1 DEF LeakInv, OneThread, Answering
  <2>4. \A s \in in_progress_requests' : OnWire(s)'
    BY <1>2, <2>1, <2>3 DEF OnWire
  <2>5. \A s \in CheckedOut' : OnWire(s)' \/ s = r
    BY <1>2, <2>1, <2>3 DEF OnWire
  <2>6. \A u \in Threads : thread'[u].pc \notin {"add_st", "add_non_st"}
    BY <2>2 DEF OneThread
  <2>. QED  BY <2>2, <2>4, <2>5, <2>6 DEF LeakInv
<1>. QED  BY <1>3, <1>4

\* The events about one request.
LEMMA LeakRequest ==
  ASSUME TypeOK, LeakInv, OneThread, NEW r \in Requests
  PROVE  /\ \A t \in Threads : RequestEvent(t, r) => LeakInv'
         /\ RetryTimePasses(r) => LeakInv'
<1>1. ASSUME NEW t \in Threads, NEW result, ApiResponse(t, r, result)  PROVE LeakInv'
  <2>. DEFINE p == IF r \in STRequests /\ Retryable(result) /\ ~request[r].expired
                   THEN "retry" ELSE "remove"
              x == [thread[t] EXCEPT !.request = r, !.result = result, !.pc = p]
  <2>0. p \in {"retry", "remove"}
    OBVIOUS
  <2>1. x.request = r /\ x.pc = p
    BY ThreadFacts DEF ThreadRecords
  <2>2. thread'[t] = x
    <3>1. thread' = [thread EXCEPT ![t] = x]
      BY <1>1 DEF ApiResponse
    <3>. QED  BY <3>1, MovePoint
  <2>. HIDE DEF x, p
  <2>3. Answering(t, r)'
    BY <2>0, <2>1, <2>2 DEF Answering
  <2>4. \A s \in Requests \ {r} : OnWire(s) => OnWire(s)'
    BY <1>1 DEF ApiResponse, OnWire, TypeOK
  <2>5. \A s \in in_progress_requests \cup CheckedOut : s \in Requests /\ OnWire(s)
    <3>1. \A u \in Threads : thread[u].pc \notin {"remove", "retry", "release"}
      BY <1>1 DEF ApiResponse, OneThread
    <3>2. \A s \in in_progress_requests \cup CheckedOut : OnWire(s)
      BY <3>1 DEF LeakInv, Answering
    <3>. QED  BY <3>2 DEF TypeOK, LockerOK, CheckedOut
  <2>6. in_progress_requests' = in_progress_requests /\ CheckedOut' = CheckedOut
    BY <1>1 DEF ApiResponse, CheckedOut, HoldsToken
  <2>7. \A s \in in_progress_requests' \cup CheckedOut' : OnWire(s)' \/ s = r
    BY <2>4, <2>5, <2>6
  <2>8. \A u \in Threads : thread'[u].pc \notin {"add_st", "add_non_st"}
    BY <2>0, <2>1, <2>2 DEF OneThread
  <2>9. thread'[t].pc \in {"remove", "retry", "release"} /\ thread'[t].request = r
    BY <2>0, <2>1, <2>2
  <2>. QED  BY <2>3, <2>7, <2>8, <2>9 DEF LeakInv
<1>2. ASSUME NEW t \in Threads,
             \/ Call(t, r) \/ Cancel(t, r) \/ DelayedRequestTimeout(t, r)
             \/ HandleTimedOutRequest(t, r)
      PROVE  LeakInv'
  <2>1. /\ UNCHANGED in_progress_requests /\ CheckedOut' = CheckedOut
        /\ thread[t].pc = "idle" /\ (UNCHANGED thread \/ AttemptRequests(t))
    BY <1>2 DEF Call, Cancel, DelayedRequestTimeout, HandleTimedOutRequest, CheckedOut,
                HoldsToken
  <2>2. thread'[t].pc \in {"idle", "attempt"}
    BY <2>1, MovePoint
  <2>3. \A s \in Requests : OnWire(s) => OnWire(s)'
    BY <1>2 DEF Call, Cancel, DelayedRequestTimeout, HandleTimedOutRequest, OnWire,
                TypeOK, RequestStates
  <2>. QED  BY <1>2, <2>1, <2>2, <2>3, LeakQuiet
            DEF Call, Cancel, DelayedRequestTimeout, HandleTimedOutRequest
<1>3. ASSUME RetryTimePasses(r)  PROVE LeakInv'
  <2>1. PICK t \in Threads : At(t, "idle")
    BY <1>3 DEF RetryTimePasses
  <2>2. \A s \in Requests : OnWire(s) => OnWire(s)'
    BY <1>3 DEF RetryTimePasses, OnWire, TypeOK, RequestStates
  <2>. QED  BY <1>3, <2>1, <2>2, LeakQuiet DEF RetryTimePasses, CheckedOut, HoldsToken
<1>. QED  BY <1>1, <1>2, <1>3 DEF RequestEvent, ApiResponseAny

\* With one thread every step keeps the tokens accounted for.
LEMMA NextLeak == OneThread /\ TypeOK /\ TypeOK' /\ LeakInv /\ [Next]_vars => LeakInv'
<1>. SUFFICES ASSUME OneThread, TypeOK, TypeOK', LeakInv, [Next]_vars  PROVE LeakInv'
  OBVIOUS
<1>1. CASE UNCHANGED vars
  BY <1>1 DEF LeakInv, OnWire, Answering, CheckedOut, HoldsToken
<1>. QED  BY <1>1, LeakAttempt, LeakOther, LeakAnswer, LeakRequest DEF Next, ThreadStep

\* With one thread: a token that was given to a request comes back, because the
\* request is on the wire or its answer is being handled; the token is counted
\* against max_tokens no longer than that.
THEOREM NoTokenLeaks == Cardinality(Threads) = 1 => (Spec => []NoTokenLeak)
<1>. SUFFICES ASSUME Cardinality(Threads) = 1  PROVE Spec => []NoTokenLeak
  OBVIOUS
<1>1. OneThread
  BY OneThreadOnly
<1>2. Init => TypeOK /\ LeakInv
  <2>1. Init => LeakInv
    BY DEF Init, LeakInv, IdleThread, CheckedOut, HoldsToken
  <2>. QED  BY <2>1, InitType
<1>3. TypeOK /\ LeakInv /\ [Next]_vars => (TypeOK /\ LeakInv)'
  BY <1>1, NextType, NextLeak
<1>4. LeakInv => NoTokenLeak
  BY DEF LeakInv, NoTokenLeak, OnWire, Answering, InHand
<1>. QED  BY <1>2, <1>3, <1>4, PTL DEF Spec

----------------------------------------------------------------------------
(***************************************************************************)
(* One thread: state and tokens belong to the credentials.                 *)
(***************************************************************************)

\* The points at which a thread relies on what it knows of the session.
KnowingPCs == AnswerPCs \cup {"try", "try_one", "start_st", "add_st"}

\* A thread outside the points where it has read something knows nothing that
\* could be stale.
LEMMA KnowsNothing ==
  ASSUME NEW th, th.pc \notin KnowingPCs
  PROVE  KnowledgeOK(th)
BY DEF KnowledgeOK, KnowingPCs, SnapshotPCs, AnswerPCs, TokenPCs

\* The steps that leave the session's state and tokens alone and ask for nothing.
LEMMA CredentialsMove ==
  ASSUME TypeOK, CredentialsInv, OneThread, NEW t \in Threads,
         UNCHANGED <<stateVars, tokenVars>>, token_calls' \subseteq token_calls,
         ~At(t, "set_running"), KnowledgeOK(thread'[t])
  PROVE  CredentialsInv'
<1>1. CheckedOut' = CheckedOut
  BY DEF CheckedOut, HoldsToken
<1>2. session_state.kind # "Running" => session_tokens = <<>> /\ CheckedOut = {}
  BY DEF CredentialsInv, OneThread
<1>3. \A u \in Threads : KnowledgeOK(thread[u])'
  BY DEF OneThread, KnowledgeOK
<1>. QED  BY <1>1, <1>2, <1>3 DEF CredentialsInv

\* Such a step that takes the thread to where it relies on nothing.
LEMMA CredentialsForget ==
  ASSUME TypeOK, CredentialsInv, OneThread, NEW t \in Threads,
         UNCHANGED <<stateVars, tokenVars>>, token_calls' \subseteq token_calls,
         ~At(t, "set_running"), thread'[t].pc \notin KnowingPCs
  PROVE  CredentialsInv'
BY KnowsNothing, CredentialsMove

\* What is in a pool after a token was taken from it or put back.
LEMMA PoolFacts ==
  ASSUME NEW S, NEW q \in Seq(S)
  PROVE  /\ \A e \in S : Range(Append(q, e)) = Range(q) \cup {e}
         /\ q # <<>> => Last(q) \in Range(q) /\ Range(Front(q)) \subseteq Range(q)
<1>1. ASSUME NEW e \in S  PROVE Range(Append(q, e)) = Range(q) \cup {e}
  <2>. DEFINE p == Append(q, e)
  <2>1. /\ DOMAIN q = 1..Len(q) /\ DOMAIN p = 1..(Len(q) + 1) /\ Len(q) \in Nat
        /\ \A i \in 1..Len(q) : p[i] = q[i]
        /\ p[Len(q) + 1] = e
    BY PushBack
  <2>. HIDE DEF p
  <2>2. \A i \in 1..(Len(q) + 1) : i \in 1..Len(q) \/ i = Len(q) + 1
    BY <2>1
  <2>3. Range(p) = Range(q) \cup {e}
    BY <2>1, <2>2 DEF Range
  <2>. QED  BY <2>3 DEF p
<1>2. ASSUME q # <<>>  PROVE Last(q) \in Range(q) /\ Range(Front(q)) \subseteq Range(q)
  <2>. DEFINE p == Front(q)
  <2>1. /\ DOMAIN q = 1..Len(q) /\ DOMAIN p = 1..(Len(q) - 1) /\ Len(q) \in Nat \ {0}
        /\ \A i \in 1..(Len(q) - 1) : p[i] = q[i]
    BY <1>2, PopBack
  <2>2. Last(q) = q[Len(q)]
    BY DEF Last
  <2>. HIDE DEF p
  <2>3. Range(p) \subseteq Range(q)
    BY <2>1 DEF Range
  <2>. QED  BY <2>1, <2>2, <2>3 DEF Range, p
<1>. QED  BY <1>1, <1>2

\* The steps of AttemptRequests.
LEMMA CredentialsAttempt ==
  ASSUME TypeOK, CredentialsInv, OneThread, NEW t \in Threads, AttemptStep(t)
  PROVE  CredentialsInv'
<1>0. thread[t] \in ThreadRecords /\ LocalsOK(thread[t]) /\ KnowledgeOK(thread[t])
  BY ThreadFacts DEF CredentialsInv
<1>1. ASSUME AttemptConnection(t) \/ SessionTokenRequestRefused(t)  PROVE CredentialsInv'
  <2>1. thread'[t].pc \notin KnowingPCs
    BY <1>1, MovePoint
       DEF AttemptConnection, SessionTokenRequestRefused, KnowingPCs, AnswerPCs, TokenPCs
  <2>. QED  BY <1>1, <2>1, CredentialsForget
            DEF AttemptConnection, SessionTokenRequestRefused
<1>2. ASSUME AttemptConnected(t) \/ NoMoreNonSTRequests(t) \/ NoMoreSTRequests(t)
      PROVE  CredentialsInv'
  <2>1. thread'[t].pc \in {"start_non_st", "check_running", "need"}
    BY <1>2, MovePoint DEF AttemptConnected, NoMoreNonSTRequests, NoMoreSTRequests
  <2>2. thread'[t].pc \notin KnowingPCs
    BY <2>1 DEF KnowingPCs, AnswerPCs, TokenPCs
  <2>. QED  BY <1>2, <2>2, CredentialsForget
            DEF AttemptConnected, NoMoreNonSTRequests, NoMoreSTRequests
<1>3. ASSUME StartNonSTRequest(t) \/ AddInProgressNonST(t) \/ CompletionCallback(t)
      PROVE  CredentialsInv'
  <2>1. thread'[t].pc \in {"add_non_st", "start_non_st", "idle"}
    BY <1>0, <1>3 DEF StartNonSTRequest, AddInProgressNonST, CompletionCallback,
                      IdleThread, TypeOK, ThreadRecords
  <2>2. thread'[t].pc \notin KnowingPCs
    BY <2>1 DEF KnowingPCs, AnswerPCs, TokenPCs
  <2>. QED  BY <1>3, <2>2, CredentialsForget
            DEF StartNonSTRequest, AddInProgressNonST, CompletionCallback
<1>4. CASE CheckRunning(t)
  <2>1. \/ thread'[t].pc = "need"
        \/ thread'[t].pc = "start_st" /\ session_state.kind = "Running"
    BY <1>4, MovePoint DEF CheckRunning
  <2>2. KnowledgeOK(thread'[t])
    BY <2>1 DEF KnowledgeOK, SnapshotPCs, AnswerPCs, TokenPCs
  <2>. QED  BY <1>4, <2>2, CredentialsMove DEF CheckRunning
<1>5. CASE StartSTRequest(t)
  <2>1. session_tokens # <<>> /\ session_tokens' = Front(session_tokens)
        /\ UNCHANGED <<stateVars, checked_out_tokens, token_calls>> /\ At(t, "start_st")
    BY <1>5 DEF StartSTRequest
  <2>2. thread'[t].pc = "add_st" /\ thread'[t].token = Last(session_tokens)
    BY <1>0, <1>5 DEF StartSTRequest, TypeOK, ThreadRecords
  <2>3. Last(session_tokens) \in Range(session_tokens)
        /\ Range(session_tokens') \subseteq Range(session_tokens)
    BY <2>1, PoolFacts DEF TypeOK, LockerOK
  <2>4. session_state.kind = "Running" /\ thread'[t].token.credentials = credentials
    BY <1>0, <2>1, <2>2, <2>3 DEF KnowledgeOK, CredentialsInv
  <2>5. KnowledgeOK(thread[t])'
    BY <2>1, <2>2, <2>4 DEF KnowledgeOK, SnapshotPCs, AnswerPCs, TokenPCs
  <2>6. CheckedOut' = CheckedOut
    BY <2>1 DEF CheckedOut, HoldsToken
  <2>7. \A u \in Threads : KnowledgeOK(thread[u])'
    BY <2>5 DEF OneThread
  <2>. QED  BY <2>1, <2>3, <2>4, <2>6, <2>7 DEF CredentialsInv
<1>6. CASE AddInProgressST(t)
  <2>. DEFINE r == thread[t].request
  <2>1. /\ At(t, "add_st") /\ UNCHANGED <<stateVars, session_tokens, token_calls>>
        /\ checked_out_tokens' =
             [checked_out_tokens EXCEPT ![r] = IF @ = NoToken THEN thread[t].token ELSE @]
    BY <1>6 DEF AddInProgressST
  <2>2. session_state.kind = "Running" /\ thread[t].token.credentials = credentials
    BY <1>0, <2>1 DEF KnowledgeOK
  <2>. HIDE DEF r
  <2>3. \A s \in CheckedOut' : \/ s \in CheckedOut /\ checked_out_tokens'[s] = checked_out_tokens[s]
                               \/ checked_out_tokens'[s] = thread[t].token
    BY <2>1, DistinctFacts DEF CheckedOut, HoldsToken
  <2>4. \A s \in CheckedOut' : checked_out_tokens'[s].credentials = credentials
    BY <2>2, <2>3 DEF CredentialsInv
  <2>5. thread'[t].pc = "check_running"
    BY <1>0, <1>6 DEF AddInProgressST, TypeOK, ThreadRecords
  <2>6. \A u \in Threads : thread'[u].pc \notin KnowingPCs
    BY <2>5 DEF KnowingPCs, AnswerPCs, TokenPCs, OneThread
  <2>7. \A u \in Threads : KnowledgeOK(thread[u])'
    BY <2>6 DEF KnowledgeOK, KnowingPCs, SnapshotPCs, AnswerPCs, TokenPCs
  <2>. QED  BY <2>1, <2>2, <2>4, <2>7 DEF CredentialsInv
<1>7. CASE RequestNeededSessionTokens(t)
  <2>1. thread'[t].pc \in {"need_force", "callback", "idle", "get_credentials",
                           "get_credentials_one"}
    BY <1>7, MovePoint DEF RequestNeededSessionTokens
  <2>2. thread'[t].pc \notin KnowingPCs /\ ~At(t, "set_running")
    BY <1>7, <2>1 DEF RequestNeededSessionTokens, KnowingPCs, AnswerPCs, TokenPCs
  <2>. QED  BY <1>7, <2>2, CredentialsForget DEF RequestNeededSessionTokens
<1>8. CASE GetCredentials(t)
  <2>1. \/ Return(t)
        \/ thread'[t].pc \in {"try", "try_one"} /\ credentials # NoCredentials
    BY <1>0, <1>8 DEF GetCredentials, TypeOK, ThreadRecords
  <2>2. KnowledgeOK(thread'[t])
    BY <2>1, MovePoint DEF KnowledgeOK, SnapshotPCs, AnswerPCs, TokenPCs
  <2>. QED  BY <1>8, <2>2, CredentialsMove DEF GetCredentials
<1>9. CASE TryRequestSessionToken(t)
  <2>1. credentials # NoCredentials /\ UNCHANGED <<stateVars, tokenVars>>
        /\ thread[t].pc \in {"try", "try_one"}
    BY <1>0, <1>9 DEF TryRequestSessionToken, KnowledgeOK
  <2>2. thread'[t].pc \in {"try", "need_force", "callback", "idle"}
    BY <1>9, MovePoint DEF TryRequestSessionToken
  <2>3. \A u \in Threads : KnowledgeOK(thread[u])'
    BY <2>1, <2>2 DEF OneThread, KnowledgeOK, SnapshotPCs, AnswerPCs, TokenPCs
  <2>4. CheckedOut' = CheckedOut
    BY <2>1 DEF CheckedOut, HoldsToken
  <2>5. session_state.kind # "Running" => session_tokens = <<>> /\ CheckedOut = {}
    BY <2>1 DEF CredentialsInv, OneThread
  <2>. QED  BY <2>1, <2>3, <2>4, <2>5 DEF CredentialsInv
<1>. QED
  BY <1>1, <1>2, <1>3, <1>4, <1>5, <1>6, <1>7, <1>8, <1>9 DEF AttemptStep

\* The steps after the answer of a request.
LEMMA CredentialsAnswer ==
  ASSUME TypeOK, CredentialsInv, OneThread, NEW t \in Threads, ApiStep(t)
  PROVE  CredentialsInv'
<1>0. thread[t] \in ThreadRecords /\ LocalsOK(thread[t])
  BY ThreadFacts
<1>1. CASE ReleaseToken(t)
  <2>1. PICK r \in Requests : r = thread[t].request
    BY <1>0, <1>1 DEF ReleaseToken, LocalsOK, RequestPCs
  <2>2. /\ At(t, "release") /\ UNCHANGED <<stateVars, token_calls>>
        /\ DeleteCheckedOutToken(r) \/ ReuseToken(r)
    BY <1>1, <2>1 DEF ReleaseToken
  <2>3. /\ \A s \in CheckedOut' : s \in CheckedOut
                                  /\ checked_out_tokens'[s] = checked_out_tokens[s]
        /\ \/ session_tokens' = session_tokens
           \/ /\ r \in CheckedOut
              /\ session_tokens' = Append(session_tokens, checked_out_tokens[r])
    BY <2>2 DEF DeleteCheckedOutToken, ReuseToken, CheckedOut, HoldsToken, TypeOK, LockerOK
  <2>4. \A tk \in Range(session_tokens') : tk.credentials = credentials
    <3>1. r \in CheckedOut => checked_out_tokens[r] \in Tokens
      BY DistinctFacts DEF CheckedOut, HoldsToken
    <3>2. \A tk \in Tokens :
            Range(Append(session_tokens, tk)) = Range(session_tokens) \cup {tk}
      BY PoolFacts, DistinctFacts
    <3>3. \/ session_tokens' = session_tokens
          \/ /\ r \in CheckedOut
             /\ Range(session_tokens') = Range(session_tokens) \cup {checked_out_tokens[r]}
      BY <2>3, <3>1, <3>2
    <3>. QED  BY <3>3 DEF CredentialsInv
  <2>5. session_state.kind # "Running" => session_tokens' = <<>> /\ CheckedOut' = {}
    BY <2>2, <2>3 DEF CredentialsInv, OneThread
  <2>6. thread'[t].pc = "attempt"
    <3>. DEFINE x == [IdleThread EXCEPT !.pc = "attempt", !.finish = thread[t].finish]
    <3>1. x.pc = "attempt" /\ thread' = [thread EXCEPT ![t] = x]
      BY <1>1 DEF ReleaseToken, IdleThread
    <3>. HIDE DEF x
    <3>. QED  BY <3>1, MovePoint
  <2>7. \A u \in Threads : KnowledgeOK(thread[u])'
    BY <2>6 DEF OneThread, KnowledgeOK, SnapshotPCs, AnswerPCs, TokenPCs
  <2>. QED  BY <2>2, <2>3, <2>4, <2>5, <2>7 DEF CredentialsInv
<1>2. ASSUME ~ReleaseToken(t)  PROVE CredentialsInv'
  <2>1. thread'[t].pc = "release"
    BY <1>0, <1>2 DEF ApiStep, RemoveInProgressRequest, MoveInProgressToWaiting,
                      MoveInProgressToDelayed, TypeOK, ThreadRecords
  <2>2. thread'[t].pc \notin KnowingPCs
    BY <2>1 DEF KnowingPCs, AnswerPCs, TokenPCs
  <2>3. UNCHANGED <<stateVars, tokenVars, token_calls>> /\ ~At(t, "set_running")
    BY <1>2 DEF ApiStep, RemoveInProgressRequest, MoveInProgressToWaiting,
                MoveInProgressToDelayed
  <2>. QED  BY <2>2, <2>3, CredentialsForget
<1>. QED  BY <1>1, <1>2

\* A thread that goes on with what it knows.
LEMMA KnowledgeGoesOn ==
  ASSUME NEW th \in ThreadRecords, NEW p \in PCs, KnowledgeOK(th), th.pc \in SnapshotPCs,
         p \in {"failed", "judge", "arm"} \/ (p \in TokenPCs /\ th.pc \in TokenPCs)
  PROVE  KnowledgeOK([th EXCEPT !.pc = p])
<1>. DEFINE x == [th EXCEPT !.pc = p]
<1>1. /\ x.pc = p /\ x.state = th.state /\ x.count = th.count /\ x.token = th.token
      /\ x.credentials = th.credentials /\ x.result = th.result
  BY DEF ThreadRecords
<1>. HIDE DEF x
<1>2. KnowledgeOK(x)
  BY <1>1 DEF KnowledgeOK, SnapshotPCs, AnswerPCs, TokenPCs
<1>. QED  BY <1>2 DEF x

\* The steps of HandleSessionTokenResponse that decide nothing.
LEMMA CredentialsReport ==
  ASSUME TypeOK, CredentialsInv, OneThread, NEW t \in Threads,
         \/ GetSessionState(t) \/ TokenConnectionUpdate(t) \/ IncrementFailureCount(t)
         \/ JudgeFailure(t) \/ ArmFailureTimer(t) \/ ResetFailureCount(t)
  PROVE  CredentialsInv'
<1>0. thread[t] \in ThreadRecords /\ LocalsOK(thread[t]) /\ KnowledgeOK(thread[t])
  BY ThreadFacts DEF CredentialsInv
<1>1. UNCHANGED <<stateVars, tokenVars, token_calls>> /\ ~At(t, "set_running")
  BY DEF GetSessionState, TokenConnectionUpdate, IncrementFailureCount, JudgeFailure,
         ArmFailureTimer, ResetFailureCount
<1>2. CASE GetSessionState(t)
  <2>. DEFINE x == [thread[t] EXCEPT !.pc = "update_connection", !.state = session_state,
                      !.count = session_state_change_count]
  <2>1. /\ x.pc = "update_connection" /\ x.state = session_state
        /\ x.count = session_state_change_count /\ x.token = thread[t].token
        /\ x.credentials = thread[t].credentials /\ x.result = thread[t].result
    BY <1>0 DEF ThreadRecords
  <2>2. thread' = [thread EXCEPT ![t] = x] /\ thread[t].pc = "snapshot"
    BY <1>2 DEF GetSessionState
  <2>. HIDE DEF x
  <2>3. KnowledgeOK(x)
    BY <1>0, <2>1, <2>2 DEF KnowledgeOK, SnapshotPCs, AnswerPCs, TokenPCs
  <2>. QED  BY <1>1, <2>2, <2>3, MovePoint, CredentialsMove
<1>3. ASSUME NEW p \in PCs, Goto(t, p), thread[t].pc \in SnapshotPCs,
             p \in {"failed", "judge", "arm"} \/ (p \in TokenPCs /\ thread[t].pc \in TokenPCs)
      PROVE  CredentialsInv'
  BY <1>0, <1>1, <1>3, MovePoint, KnowledgeGoesOn, CredentialsMove
<1>4. CASE TokenConnectionUpdate(t)
  <2>1. \E p \in {"reset_failures", "failed"} : Goto(t, p)
    BY <1>4 DEF TokenConnectionUpdate
  <2>2. thread[t].pc \in SnapshotPCs \cap TokenPCs
    BY <1>4 DEF TokenConnectionUpdate, SnapshotPCs, AnswerPCs, TokenPCs
  <2>. QED  BY <1>3, <2>1, <2>2 DEF PCs, TokenPCs
<1>5. CASE IncrementFailureCount(t)
  <2>1. Goto(t, "judge") /\ "judge" \in PCs
    BY <1>5 DEF IncrementFailureCount, PCs
  <2>2. thread[t].pc \in SnapshotPCs
    BY <1>5 DEF IncrementFailureCount, SnapshotPCs, AnswerPCs
  <2>. QED  BY <1>3, <2>1, <2>2
<1>6. CASE ResetFailureCount(t)
  <2>1. Goto(t, "add_token") /\ thread[t].pc \in SnapshotPCs \cap TokenPCs
    BY <1>6 DEF ResetFailureCount, SnapshotPCs, AnswerPCs, TokenPCs
  <2>. QED  BY <1>3, <2>1 DEF PCs, TokenPCs
<1>7. CASE ArmFailureTimer(t)
  <2>1. thread'[t].pc = "idle"
    <3>1. thread' = [thread EXCEPT ![t] = IdleThread]
      BY <1>7 DEF ArmFailureTimer
    <3>2. thread'[t] = IdleThread
      BY <3>1, MovePoint
    <3>. QED  BY <3>2 DEF IdleThread
  <2>2. thread'[t].pc \notin KnowingPCs
    BY <2>1 DEF KnowingPCs, AnswerPCs, TokenPCs
  <2>. QED  BY <1>1, <2>2, CredentialsForget
<1>8. CASE JudgeFailure(t)
  <2>1. CASE CredentialsRefused(thread[t]) \/ Prolonged(thread[t])
    <3>. DEFINE x == [thread[t] EXCEPT !.pc = "set_failure"]
    <3>1. /\ x.pc = "set_failure" /\ x.state = thread[t].state /\ x.count = thread[t].count
          /\ x.credentials = thread[t].credentials /\ x.result = thread[t].result
      BY <1>0 DEF ThreadRecords
    <3>2. thread' = [thread EXCEPT ![t] = x] /\ thread[t].pc = "judge"
      BY <1>8, <2>1 DEF JudgeFailure
    <3>. HIDE DEF x
    <3>3. KnowledgeOK(x)
      BY <1>0, <2>1, <3>1, <3>2
         DEF KnowledgeOK, SnapshotPCs, AnswerPCs, TokenPCs, CredentialsRefused, Prolonged
    <3>. QED  BY <1>1, <3>2, <3>3, MovePoint, CredentialsMove
  <2>2. CASE ~(CredentialsRefused(thread[t]) \/ Prolonged(thread[t]))
    <3>1. Goto(t, "arm") /\ "arm" \in PCs
      BY <1>8, <2>2 DEF JudgeFailure, PCs, AnswerPCs
    <3>2. thread[t].pc \in SnapshotPCs
      BY <1>8 DEF JudgeFailure, SnapshotPCs, AnswerPCs
    <3>. QED  BY <1>3, <3>1, <3>2
  <2>. QED  BY <2>1, <2>2
<1>. QED  BY <1>2, <1>4, <1>5, <1>6, <1>7, <1>8

\* The steps of HandleSessionTokenResponse that change the state or the pool.
LEMMA CredentialsDecide ==
  ASSUME TypeOK, CredentialsInv, OneThread, NEW t \in Threads,
         SetFailureState(t) \/ AddToken(t) \/ SetRunning(t)
  PROVE  CredentialsInv'
<1>. DEFINE th == thread[t]
<1>0. /\ th \in ThreadRecords /\ LocalsOK(th) /\ KnowledgeOK(th)
      /\ credentials' = credentials /\ token_calls' = token_calls
      /\ credentials # NoCredentials
  <2>1. th.pc \in AnswerPCs
    BY DEF SetFailureState, AddToken, SetRunning, AnswerPCs, TokenPCs
  <2>. QED  BY <2>1, ThreadFacts
            DEF CredentialsInv, SetFailureState, AddToken, SetRunning, KnowledgeOK
<1>1. CASE SetFailureState(t)
  <2>1. /\ th.pc = "set_failure" /\ th.state = session_state
        /\ th.count = session_state_change_count
        /\ IF th.result = "credentials" THEN th.credentials = credentials
           ELSE session_state.kind \in {"Initialized", "ProlongedError"}
    BY <1>0, <1>1 DEF SetFailureState, KnowledgeOK, SnapshotPCs, AnswerPCs
  <2>2. ChangeSessionState(FailureState(th))
    BY <1>1, <2>1 DEF SetFailureState, SetSessionStateSafe
  <2>3. IF th.result = "credentials"
        THEN FailureState(th).kind = "CredentialsFailure"
             /\ FailureState(th).credentials = th.credentials
        ELSE FailureState(th).kind = "ProlongedError"
    BY DEF FailureState, CredentialsFailure, ProlongedError, SessionState
  <2>4. thread'[t].pc = "arm"
    BY <1>1, MovePoint DEF SetFailureState
  <2>5. \A u \in Threads : KnowledgeOK(thread[u])'
    BY <1>0, <2>4 DEF OneThread, KnowledgeOK, SnapshotPCs, AnswerPCs, TokenPCs
  <2>6. CASE FailureState(th) = session_state
    <3>1. UNCHANGED <<session_state, tokenVars>> /\ CheckedOut' = CheckedOut
      BY <2>2, <2>6 DEF ChangeSessionState, CheckedOut, HoldsToken
    <3>2. session_state.kind # "Running" => session_tokens = <<>> /\ CheckedOut = {}
      BY <2>1 DEF CredentialsInv, OneThread
    <3>. QED  BY <1>0, <2>5, <3>1, <3>2 DEF CredentialsInv
  <2>7. CASE FailureState(th) # session_state
    <3>1. session_state' = FailureState(th)
      BY <2>2, <2>7 DEF ChangeSessionState
    <3>2. session_tokens' = <<>> /\ CheckedOut' = {}
      <4>1. CASE th.result = "credentials"
        BY <2>2, <2>3, <2>7, <4>1 DEF ChangeSessionState, CheckedOut, HoldsToken
      <4>2. CASE th.result # "credentials"
        <5>1. session_tokens = <<>> /\ CheckedOut = {}
          BY <2>1, <4>2 DEF CredentialsInv, OneThread
        <5>2. UNCHANGED tokenVars
          BY <2>2, <2>3, <2>7, <4>2 DEF ChangeSessionState
        <5>. QED  BY <5>1, <5>2 DEF CheckedOut, HoldsToken
      <4>. QED  BY <4>1, <4>2
    <3>3. Range(session_tokens') = {}
      BY <3>2 DEF Range
    <3>. QED  BY <1>0, <2>1, <2>3, <2>5, <3>1, <3>2, <3>3 DEF CredentialsInv
  <2>. QED  BY <2>6, <2>7
<1>2. CASE AddToken(t)
  <2>1. /\ th.pc = "add_token" /\ th.result = "ok" /\ th.token \in Tokens
        /\ th.state = session_state /\ th.count = session_state_change_count
        /\ th.token.credentials = th.credentials
    BY <1>0, <1>2 DEF AddToken, KnowledgeOK, LocalsOK, SnapshotPCs, AnswerPCs, TokenPCs
  <2>2. UNCHANGED <<stateVars, checked_out_tokens>> /\ CheckedOut' = CheckedOut
    BY <1>2 DEF AddToken, AddSessionToken, CheckedOut, HoldsToken
  <2>3. session_state.kind # "Uninitialized"
    BY <1>0 DEF CredentialsInv
  <2>4. \A tk \in Range(session_tokens') : tk.credentials = credentials
    <3>1. \/ session_tokens' = session_tokens
          \/ th.token.credentials = credentials
             /\ session_tokens' = Append(session_tokens, th.token)
      BY <1>2 DEF AddToken, AddSessionToken
    <3>2. \/ Range(session_tokens') = Range(session_tokens)
          \/ /\ th.token.credentials = credentials
             /\ Range(session_tokens') = Range(session_tokens) \cup {th.token}
      BY <2>1, <3>1, PoolFacts, DistinctFacts
    <3>. QED  BY <3>2 DEF CredentialsInv
  <2>5. session_state.kind # "Running" => session_tokens = <<>> /\ CheckedOut = {}
    BY <2>1 DEF CredentialsInv, OneThread
  <2>6. CASE th.token.credentials = credentials /\ session_state.kind # "Running"
    <3>. DEFINE x == [th EXCEPT !.pc = "set_running", !.token = NoToken]
    <3>1. /\ x.pc = "set_running" /\ x.state = th.state /\ x.count = th.count
          /\ x.credentials = th.credentials
      BY <1>0 DEF ThreadRecords
    <3>2. thread' = [thread EXCEPT ![t] = x]
      BY <1>2, <2>1, <2>3, <2>6 DEF AddToken
    <3>. HIDE DEF x
    <3>3. thread'[t] = x /\ At(t, "set_running")'
      BY <3>1, <3>2, MovePoint
    <3>4. KnowledgeOK(x)
      BY <1>0, <2>1, <2>6, <3>1 DEF KnowledgeOK, SnapshotPCs, AnswerPCs, TokenPCs
    <3>5. \A u \in Threads : KnowledgeOK(thread[u])'
      BY <2>2, <3>3, <3>4 DEF OneThread, KnowledgeOK
    <3>. QED  BY <1>0, <2>2, <2>4, <3>3, <3>5 DEF CredentialsInv
  <2>7. CASE ~(th.token.credentials = credentials /\ session_state.kind # "Running")
    <3>1. AttemptRequests(t)
      BY <1>2, <2>1, <2>7 DEF AddToken
    <3>2. thread'[t].pc = "attempt"
      BY <3>1, MovePoint
    <3>3. \A u \in Threads : KnowledgeOK(thread[u])'
      BY <3>2 DEF OneThread, KnowledgeOK, SnapshotPCs, AnswerPCs, TokenPCs
    <3>4. session_state.kind # "Running" => session_tokens' = session_tokens
      BY <1>2, <2>7 DEF AddToken, AddSessionToken
    <3>. QED  BY <1>0, <2>2, <2>4, <2>5, <3>3, <3>4 DEF CredentialsInv
  <2>. QED  BY <2>6, <2>7
<1>3. CASE SetRunning(t)
  <2>1. th.pc = "set_running" /\ th.count = session_state_change_count
        /\ th.credentials = credentials
    BY <1>0, <1>3 DEF SetRunning, KnowledgeOK, SnapshotPCs, AnswerPCs
  <2>2. ChangeSessionState(Running(th.credentials))
    BY <1>3, <2>1 DEF SetRunning, SetSessionStateSafe
  <2>3. Running(th.credentials).kind = "Running"
        /\ Running(th.credentials).credentials = th.credentials
    BY DEF Running, SessionState
  <2>4. session_state' = Running(th.credentials) /\ UNCHANGED tokenVars
    BY <2>2, <2>3 DEF ChangeSessionState
  <2>5. thread'[t].pc = "attempt"
    BY <1>3, MovePoint DEF SetRunning
  <2>6. \A u \in Threads : KnowledgeOK(thread[u])'
    BY <2>5 DEF OneThread, KnowledgeOK, SnapshotPCs, AnswerPCs, TokenPCs
  <2>7. CheckedOut' = CheckedOut
    BY <2>4 DEF CheckedOut, HoldsToken
  <2>. QED  BY <1>0, <2>1, <2>3, <2>4, <2>6, <2>7 DEF CredentialsInv
<1>. QED  BY <1>1, <1>2, <1>3

\* New credentials: the tokens of the old ones are gone, the calls are not.
LEMMA CredentialsLogin ==
  ASSUME TypeOK, CredentialsInv, OneThread, NEW t \in Threads,
         SetLoginCredentialsAny(t)
  PROVE  CredentialsInv'
<1>1. PICK c \in Credentials : SetLoginCredentials(t, c)
  BY DEF SetLoginCredentialsAny
<1>2. SetCredentials(c) /\ UNCHANGED callVars /\ At(t, "idle") /\ c # NoCredentials
  BY <1>1, ValuesAssumption DEF SetLoginCredentials
<1>3. thread'[t].pc = "attempt"
  BY <1>1, MovePoint DEF SetLoginCredentials
<1>4. \A u \in Threads : KnowledgeOK(thread[u])'
  BY <1>3 DEF OneThread, KnowledgeOK, SnapshotPCs, AnswerPCs, TokenPCs
<1>5. session_state.kind # "Running" => session_tokens = <<>> /\ CheckedOut = {}
  BY <1>2 DEF CredentialsInv, OneThread
<1>6. CASE c = credentials
  <2>1. UNCHANGED <<stateVars, tokenVars>> /\ CheckedOut' = CheckedOut
    BY <1>2, <1>6 DEF SetCredentials, CheckedOut, HoldsToken
  <2>. QED  BY <1>2, <1>4, <1>5, <2>1 DEF CredentialsInv, callVars, stateVars, tokenVars
<1>7. CASE c # credentials
  <2>1. credentials' = c /\ ChangeSessionState(Initialized)
    BY <1>2, <1>7 DEF SetCredentials
  <2>2. Initialized.kind = "Initialized"
    BY DEF Initialized, SessionState
  <2>3. /\ session_state'.kind = "Initialized"
        /\ session_tokens' = <<>> /\ CheckedOut' = {}
    <3>1. CASE Initialized = session_state
      BY <1>5, <2>1, <2>2, <3>1 DEF ChangeSessionState, CheckedOut, HoldsToken
    <3>2. CASE Initialized # session_state
      BY <2>1, <2>2, <3>2 DEF ChangeSessionState, CheckedOut, HoldsToken
    <3>. QED  BY <3>1, <3>2
  <2>4. Range(session_tokens') = {}
    BY <2>3 DEF Range
  <2>. QED  BY <1>2, <1>4, <2>1, <2>3, <2>4 DEF CredentialsInv
<1>. QED  BY <1>6, <1>7

\* The answer to a call for a token: the call was made with some credentials.
LEMMA CredentialsResponse ==
  ASSUME TypeOK, CredentialsInv, OneThread, NEW t \in Threads,
         NEW call \in token_calls, SessionTokenResponseAny(t, call)
  PROVE  CredentialsInv'
<1>1. PICK result \in TokenResults, tk \in Tokens \cup {NoToken} :
        SessionTokenResponse(t, call, result, tk)
  BY DEF SessionTokenResponseAny
<1>. DEFINE x == [thread[t] EXCEPT !.pc = "snapshot", !.result = result, !.token = tk,
                    !.credentials = call.credentials]
<1>2. /\ x.pc = "snapshot" /\ x.result = result /\ x.token = tk
      /\ x.credentials = call.credentials
  BY ThreadFacts DEF ThreadRecords
<1>3. /\ thread' = [thread EXCEPT ![t] = x] /\ At(t, "idle")
      /\ UNCHANGED <<stateVars, tokenVars>> /\ token_calls' \subseteq token_calls
      /\ result = "ok" => tk.credentials = call.credentials
  BY <1>1 DEF SessionTokenResponse, ServerToken
<1>. HIDE DEF x
<1>4. KnowledgeOK(x)
  BY <1>2, <1>3 DEF CredentialsInv, KnowledgeOK, SnapshotPCs, AnswerPCs, TokenPCs
<1>5. thread'[t] = x /\ ~At(t, "set_running")
  BY <1>3, MovePoint DEF At
<1>. QED  BY <1>3, <1>4, <1>5, CredentialsMove

\* The other events.
LEMMA CredentialsEvent ==
  ASSUME TypeOK, CredentialsInv, OneThread, NEW t \in Threads,
         \/ StatusChecked(t) \/ SessionTokenFailureTimeout(t)
         \/ ConnectionStateRecheckTimeout(t) \/ CheckConnectionStatusResponseAny(t)
         \/ \E r \in Requests : RequestEvent(t, r)
  PROVE  CredentialsInv'
<1>1. /\ UNCHANGED <<stateVars, tokenVars, token_calls>>
      /\ thread[t].pc \in {"idle", "status_checked"}
  BY DEF StatusChecked, SessionTokenFailureTimeout, ConnectionStateRecheckTimeout,
         CheckConnectionStatusResponseAny, CheckConnectionStatusResponse, RequestEvent,
         Call, Cancel, ApiResponseAny, ApiResponse, DelayedRequestTimeout,
         HandleTimedOutRequest
<1>2. thread'[t].pc \in {"idle", "attempt", "status_checked", "retry", "remove",
                         "need_force", "callback"}
  <2>1. CASE SessionTokenFailureTimeout(t)
    <3>1. [IdleThread EXCEPT !.pc = "attempt", !.after = "force"].pc = "attempt"
      BY DEF IdleThread
    <3>. QED  BY <2>1, <3>1, MovePoint DEF SessionTokenFailureTimeout
  <2>2. ASSUME NEW r, NEW result, ApiResponse(t, r, result)
        PROVE  thread'[t].pc \in {"retry", "remove"}
    BY <2>2, ThreadFacts DEF ApiResponse, TypeOK, ThreadRecords
  <2>3. ASSUME ~SessionTokenFailureTimeout(t), \A r \in Requests : ~ApiResponseAny(t, r)
        PROVE  \/ Return(t) \/ AttemptRequests(t) \/ Goto(t, "status_checked")
               \/ UNCHANGED thread /\ At(t, "idle")
    BY <2>3 DEF StatusChecked, ConnectionStateRecheckTimeout, RequestEvent, Call, Cancel,
                CheckConnectionStatusResponseAny, CheckConnectionStatusResponse,
                DelayedRequestTimeout, HandleTimedOutRequest
  <2>. QED  BY <2>1, <2>2, <2>3, MovePoint DEF ApiResponseAny
<1>3. thread'[t].pc \notin KnowingPCs /\ ~At(t, "set_running")
  BY <1>1, <1>2 DEF KnowingPCs, AnswerPCs, TokenPCs
<1>. QED  BY <1>1, <1>3, CredentialsForget

\* With one thread every step keeps the state's credentials and the tokens' ones
\* together.
LEMMA NextCredentials == OneThread /\ TypeOK /\ CredentialsInv /\ [Next]_vars => CredentialsInv'
<1>. SUFFICES ASSUME OneThread, TypeOK, CredentialsInv, [Next]_vars  PROVE CredentialsInv'
  OBVIOUS
<1>1. CASE UNCHANGED vars
  <2>1. CheckedOut' = CheckedOut
    BY <1>1 DEF vars, lockerVars, tokenVars, CheckedOut, HoldsToken
  <2>2. \A u \in Threads : KnowledgeOK(thread[u])'
    BY <1>1 DEF vars, lockerVars, stateVars, CredentialsInv, KnowledgeOK
  <2>. QED  BY <1>1, <2>1, <2>2
            DEF vars, lockerVars, stateVars, tokenVars, callVars, CredentialsInv
<1>2. ASSUME NEW r \in Requests, RetryTimePasses(r)  PROVE CredentialsInv'
  <2>1. PICK t \in Threads : At(t, "idle")
    BY <1>2 DEF RetryTimePasses
  <2>. QED  BY <1>2, <2>1, CredentialsForget
            DEF RetryTimePasses, KnowingPCs, AnswerPCs, TokenPCs
<1>3. ASSUME NEW t \in Threads, TokenStep(t)  PROVE CredentialsInv'
  BY <1>3, CredentialsReport, CredentialsDecide DEF TokenStep
<1>. QED
  BY <1>1, <1>2, <1>3, CredentialsAttempt, CredentialsAnswer, CredentialsLogin,
     CredentialsResponse, CredentialsEvent DEF Next, ThreadStep

\* At the start there are no credentials and no token.
LEMMA InitCredentials == Init => CredentialsInv
<1>. SUFFICES ASSUME Init  PROVE CredentialsInv
  OBVIOUS
<1>1. session_state.kind = "Uninitialized" /\ session_tokens = <<>> /\ CheckedOut = {}
  BY DEF Init, Uninitialized, SessionState, CheckedOut, HoldsToken
<1>2. Range(session_tokens) = {}
  BY <1>1 DEF Range
<1>3. \A t \in Threads : thread[t].pc \notin KnowingPCs
  BY DEF Init, IdleThread, KnowingPCs, AnswerPCs, TokenPCs
<1>. QED  BY <1>1, <1>2, <1>3, KnowsNothing DEF Init, CredentialsInv

\* With one thread: the state and every token, stored or checked out, belong to the
\* credentials the user set last, although answers to calls made with earlier
\* ones still arrive.
THEOREM CredentialsAlwaysMatch == Cardinality(Threads) = 1 => (Spec => []CredentialsMatch)
<1>. SUFFICES ASSUME Cardinality(Threads) = 1  PROVE Spec => []CredentialsMatch
  OBVIOUS
<1>1. OneThread
  BY OneThreadOnly
<1>2. Init => TypeOK /\ CredentialsInv
  BY InitType, InitCredentials
<1>3. TypeOK /\ CredentialsInv /\ [Next]_vars => (TypeOK /\ CredentialsInv)'
  BY <1>1, NextType, NextCredentials
<1>4. CredentialsInv => CredentialsMatch
  BY DEF CredentialsInv, CredentialsMatch
<1>. QED  BY <1>2, <1>3, <1>4, PTL DEF Spec

----------------------------------------------------------------------------
(***************************************************************************)
(* One thread: no lost wakeup.                                             *)
(***************************************************************************)

\* Where the end of the handler is AttemptRequests, or what leads to it.
BusyPCs == AnswerPCs \cup {"remove", "retry", "release", "attempt"}

\* A thread that still has AttemptRequests before it.
LEMMA WakeBusy ==
  ASSUME OneThread, NEW t \in Threads, thread'[t].pc \in BusyPCs
  PROVE  WakeInv'
<1>1. \A u \in Threads : thread'[u].pc \in BusyPCs
  BY DEF OneThread
<1>2. \A u \in Threads : AskOK(thread[u])'
  BY <1>1 DEF AskOK, AskPCs, BusyPCs, AnswerPCs, TokenPCs
<1>3. thread'[t].pc \notin {"idle", "callback", "need_force"}
  BY DEF BusyPCs, AnswerPCs, TokenPCs
<1>. QED  BY <1>2, <1>3 DEF WakeInv

\* The steps that end in AttemptRequests or lead to it.
LEMMA WakeHandler ==
  ASSUME TypeOK, OneThread, NEW t \in Threads,
         \/ ApiStep(t) \/ (TokenStep(t) /\ ~ArmFailureTimer(t))
         \/ SetLoginCredentialsAny(t) \/ SessionTokenFailureTimeout(t)
         \/ ConnectionStateRecheckTimeout(t)
         \/ \E r \in Requests : Call(t, r) \/ ApiResponseAny(t, r) \/ DelayedRequestTimeout(t, r)
         \/ \E call \in token_calls : SessionTokenResponseAny(t, call)
  PROVE  WakeInv'
<1>0. thread[t] \in ThreadRecords
  BY ThreadFacts
<1>1. ASSUME NEW call, NEW result, NEW tk, SessionTokenResponse(t, call, result, tk)
      PROVE  thread'[t].pc = "snapshot"
  BY <1>0, <1>1 DEF SessionTokenResponse, TypeOK, ThreadRecords
<1>2. ASSUME NEW r, NEW result, ApiResponse(t, r, result)
      PROVE  thread'[t].pc \in {"retry", "remove"}
  BY <1>0, <1>2 DEF ApiResponse, TypeOK, ThreadRecords
<1>3. SessionTokenFailureTimeout(t) => thread'[t].pc = "attempt"
  <2>1. [IdleThread EXCEPT !.pc = "attempt", !.after = "force"].pc = "attempt"
    BY DEF IdleThread
  <2>. QED  BY <2>1, MovePoint DEF SessionTokenFailureTimeout
<1>4. ApiStep(t) => thread'[t].pc \in {"release", "attempt"}
  <2>1. [IdleThread EXCEPT !.pc = "attempt", !.finish = thread[t].finish].pc = "attempt"
    BY DEF IdleThread
  <2>2. ReleaseToken(t) => thread'[t].pc = "attempt"
    BY <2>1, MovePoint DEF ReleaseToken
  <2>3. ApiStep(t) /\ ~ReleaseToken(t) => thread'[t].pc = "release"
    BY <1>0 DEF ApiStep, RemoveInProgressRequest, MoveInProgressToWaiting,
                MoveInProgressToDelayed, TypeOK, ThreadRecords
  <2>. QED  BY <2>2, <2>3
<1>5. TokenStep(t) /\ ~ArmFailureTimer(t) => thread'[t].pc \in BusyPCs
  <2>1. GetSessionState(t) => thread'[t].pc = "update_connection"
    BY <1>0 DEF GetSessionState, TypeOK, ThreadRecords
  <2>2. AddToken(t) => AttemptRequests(t) \/ thread'[t].pc = "set_running"
    BY <1>0 DEF AddToken, TypeOK, ThreadRecords
  <2>3. ASSUME TokenStep(t), ~ArmFailureTimer(t), ~GetSessionState(t), ~AddToken(t)
        PROVE  \/ AttemptRequests(t)
               \/ \E p \in {"reset_failures", "failed", "judge", "set_failure", "arm",
                            "add_token"} : Goto(t, p)
    BY <2>3 DEF TokenStep, TokenConnectionUpdate, IncrementFailureCount, JudgeFailure,
                SetFailureState, ResetFailureCount, SetRunning
  <2>. QED  BY <2>1, <2>2, <2>3, MovePoint DEF BusyPCs, AnswerPCs, TokenPCs
<1>6. \/ SetLoginCredentialsAny(t) \/ ConnectionStateRecheckTimeout(t)
      \/ \E r \in Requests : Call(t, r) \/ DelayedRequestTimeout(t, r)
      => thread'[t].pc = "attempt"
  BY MovePoint DEF SetLoginCredentialsAny, SetLoginCredentials, Call,
                   ConnectionStateRecheckTimeout, DelayedRequestTimeout
<1>7. thread'[t].pc \in BusyPCs
  BY <1>1, <1>2, <1>3, <1>4, <1>5, <1>6
     DEF SessionTokenResponseAny, ApiResponseAny, BusyPCs, AnswerPCs, TokenPCs
<1>. QED  BY <1>7, WakeBusy

\* The events that leave an idle thread idle: a queue may only become shorter.
LEMMA WakeIdle ==
  ASSUME TypeOK, OneThread, WakeInv, NEW t \in Threads, At(t, "idle"),
         UNCHANGED <<thread, connection_state, credentials, session_state, token_calls,
                     session_token_failure_timer, checked_out_tokens>>,
         waiting_st_requests = <<>> => waiting_st_requests' = <<>>
  PROVE  WakeInv'
<1>1. \A u \in Threads : thread[u].pc = "idle"
  BY DEF At, OneThread
<1>2. \A u \in Threads : AskOK(thread[u])'
  BY <1>1 DEF AskOK, AskPCs
<1>3. InVain => Pending
  BY <1>1 DEF WakeInv
<1>4. InVain' => InVain
  BY DEF InVain
<1>5. Pending => Pending'
  BY DEF Pending, CheckedOut, HoldsToken
<1>. QED  BY <1>2, <1>3, <1>4, <1>5 DEF WakeInv

\* A request that waits when no token may be asked for waits for one in use.
LEMMA RefusedPending ==
  ASSUME TypeOK, TokenBudget, session_tokens = <<>>, ~MayRequestSessionToken
  PROVE  token_calls # {} \/ CheckedOut # {}
<1>1. in_progress_session_token_requests # 0 \/ TokensInUse # 0
  BY DEF MayRequestSessionToken
<1>2. in_progress_session_token_requests # 0 => token_calls # {}
  BY FS_EmptySet DEF TokenBudget
<1>3. TokensInUse # 0 => CheckedOut # {}
  <2>1. CheckedOut = {} => Cardinality(CheckedOut) = 0
    BY FS_EmptySet
  <2>. QED  BY <2>1 DEF TokensInUse
<1>. QED  BY <1>1, <1>2, <1>3

\* The steps of AttemptRequests.
LEMMA WakeAttempt ==
  ASSUME TypeOK, OneThread, CredentialsInv, TokenBudget, WakeInv, NEW t \in Threads,
         AttemptStep(t)
  PROVE  WakeInv'
<1>0. thread[t] \in ThreadRecords /\ AskOK(thread[t])
  BY ThreadFacts DEF WakeInv
<1>. DEFINE Loop == {"start_non_st", "add_non_st", "check_running", "start_st", "add_st"}
            Done == {"idle", "callback", "need_force"}
<1>1. SUFFICES AskOK(thread[t])' /\ (InVain' => Pending' \/ thread'[t].pc \notin Done)
  BY DEF WakeInv, OneThread
<1>2. UNCHANGED <<connection_state, credentials, session_state>>
  BY DEF AttemptStep, AttemptConnection, AttemptConnected, StartNonSTRequest,
         NoMoreNonSTRequests, AddInProgressNonST, CheckRunning, StartSTRequest,
         NoMoreSTRequests, AddInProgressST, RequestNeededSessionTokens, GetCredentials,
         TryRequestSessionToken, SessionTokenRequestRefused, CompletionCallback,
         lockerVars, stateVars, connectionVars
<1>3. CASE AttemptConnection(t)
  <2>1. connection_state = "Unconnected" /\ thread'[t].pc \in Done
    BY <1>3, MovePoint DEF AttemptConnection
  <2>. QED  BY <1>2, <2>1 DEF AskOK, InVain
<1>4. ASSUME \/ AttemptConnected(t) \/ StartNonSTRequest(t) \/ NoMoreNonSTRequests(t)
             \/ AddInProgressNonST(t) \/ StartSTRequest(t) \/ AddInProgressST(t)
      PROVE  AskOK(thread[t])' /\ (InVain' => Pending' \/ thread'[t].pc \notin Done)
  <2>1. connection_state # "Unconnected"
    BY <1>0, <1>4
       DEF AskOK, AttemptConnected, StartNonSTRequest, NoMoreNonSTRequests,
           AddInProgressNonST, StartSTRequest, AddInProgressST
  <2>2. thread'[t].pc \in Loop
    BY <1>0, <1>4, MovePoint
       DEF AttemptConnected, StartNonSTRequest, NoMoreNonSTRequests,
           AddInProgressNonST, StartSTRequest, AddInProgressST, TypeOK, ThreadRecords
  <2>. QED  BY <1>2, <2>1, <2>2 DEF AskOK, AskPCs
<1>5. CASE CheckRunning(t)
  <2>1. connection_state # "Unconnected"
    BY <1>0, <1>5 DEF AskOK, CheckRunning
  <2>2. /\ session_tokens' = session_tokens
        /\ IF session_state.kind = "Running" THEN thread'[t].pc = "start_st"
           ELSE thread'[t].pc = "need"
    BY <1>5, MovePoint DEF CheckRunning
  <2>3. session_state.kind # "Running" => session_tokens = <<>>
    BY <1>5 DEF CredentialsInv, OneThread, CheckRunning
  <2>. QED  BY <1>2, <2>1, <2>2, <2>3 DEF AskOK, AskPCs
<1>6. CASE NoMoreSTRequests(t)
  <2>1. connection_state # "Unconnected"
    BY <1>0, <1>6 DEF AskOK, NoMoreSTRequests
  <2>2. /\ UNCHANGED <<session_tokens, waiting_st_requests>>
        /\ waiting_st_requests = <<>> \/ session_tokens = <<>>
        /\ thread'[t].pc = "need"
    BY <1>6, MovePoint DEF NoMoreSTRequests
  <2>. QED  BY <1>2, <2>1, <2>2 DEF AskOK, AskPCs
<1>7. ASSUME \/ RequestNeededSessionTokens(t) \/ GetCredentials(t)
             \/ TryRequestSessionToken(t) \/ SessionTokenRequestRefused(t)
      PROVE  AskOK(thread[t])' /\ (InVain' => Pending' \/ thread'[t].pc \notin Done)
  <2>1. /\ connection_state = "Unconnected"
           \/ waiting_st_requests = <<>> \/ session_tokens = <<>>
        /\ UNCHANGED <<waiting_st_requests, session_tokens, checked_out_tokens>>
    BY <1>0, <1>7 DEF AskOK, AskPCs, RequestNeededSessionTokens, GetCredentials,
                      TryRequestSessionToken, SessionTokenRequestRefused
  <2>2. thread'[t].pc \in AskPCs \cup Done
    <3>1. GetCredentials(t) => Return(t) \/ thread'[t].pc \in {"try", "try_one"}
      BY <1>0 DEF GetCredentials, TypeOK, ThreadRecords
    <3>2. ASSUME ~GetCredentials(t)
          PROVE  \/ Return(t) \/ Goto(t, "get_credentials") \/ Goto(t, "get_credentials_one")
                 \/ UNCHANGED thread /\ At(t, "try")
      BY <1>7, <3>2 DEF RequestNeededSessionTokens, TryRequestSessionToken,
                        SessionTokenRequestRefused
    <3>. QED  BY <3>1, <3>2, MovePoint DEF AskPCs
  <2>3. AskOK(thread[t])'
    BY <1>2, <2>1, <2>2 DEF AskOK, AskPCs
  <2>4. ASSUME InVain', thread'[t].pc \in Done  PROVE Pending'
    <3>1. InVain
      BY <1>2, <2>1, <2>4 DEF InVain
    <3>2. session_tokens = <<>> /\ CheckedOut' = CheckedOut
      BY <2>1, <3>1 DEF InVain, CheckedOut, HoldsToken
    <3>3. CASE RequestNeededSessionTokens(t)
      <4>1. thread'[t].pc \in {"get_credentials", "get_credentials_one"}
        BY <3>1, <3>3, MovePoint DEF InVain, RequestNeededSessionTokens
      <4>. QED  BY <2>4, <4>1
    <3>4. CASE GetCredentials(t)
      <4>1. thread'[t].pc \in {"try", "try_one"}
        BY <1>0, <3>1, <3>4 DEF InVain, GetCredentials, TypeOK, ThreadRecords
      <4>. QED  BY <2>4, <4>1
    <3>5. CASE TryRequestSessionToken(t)
      BY <3>5 DEF TryRequestSessionToken, Pending
    <3>6. CASE SessionTokenRequestRefused(t)
      BY <3>2, <3>6, RefusedPending DEF SessionTokenRequestRefused, Pending
    <3>. QED  BY <1>7, <3>3, <3>4, <3>5, <3>6
  <2>. QED  BY <2>3, <2>4
<1>8. CASE CompletionCallback(t)
  <2>1. thread'[t].pc = "idle"
    <3>1. thread'[t] = IdleThread
      BY <1>8, MovePoint DEF CompletionCallback
    <3>. QED  BY <3>1 DEF IdleThread
  <2>2. InVain => Pending
    BY <1>8 DEF CompletionCallback, WakeInv, OneThread
  <2>3. InVain' = InVain /\ Pending' = Pending
    BY <1>8 DEF CompletionCallback, InVain, Pending, CheckedOut, HoldsToken
  <2>. QED  BY <2>1, <2>2, <2>3 DEF AskOK, AskPCs
<1>. QED  BY <1>3, <1>4, <1>5, <1>6, <1>7, <1>8 DEF AttemptStep

\* The status call and the failure timer: the steps that do not end in
\* AttemptRequests leave something pending, or the connection down.
LEMMA WakeStatus ==
  ASSUME TypeOK, OneThread, WakeInv, NEW t \in Threads,
         ArmFailureTimer(t) \/ StatusChecked(t) \/ CheckConnectionStatusResponseAny(t)
  PROVE  WakeInv'
<1>1. SUFFICES /\ AskOK(thread[t])'
               /\ InVain' => \/ Pending'
                             \/ thread'[t].pc \notin {"idle", "callback", "need_force"}
  BY DEF WakeInv, OneThread
<1>2. CASE ArmFailureTimer(t)
  <2>1. thread'[t].pc = "idle"
    <3>1. thread'[t] = IdleThread
      BY <1>2, MovePoint DEF ArmFailureTimer
    <3>. QED  BY <3>1 DEF IdleThread
  <2>2. session_token_failure_timer' > 0
    BY <1>2, LimitsAssumption DEF ArmFailureTimer, Bump, TypeOK, LockerOK
  <2>. QED  BY <2>1, <2>2 DEF AskOK, AskPCs, Pending
<1>3. CASE StatusChecked(t)
  <2>1. connection_state \in {"Connected", "Unconnected"} /\ UNCHANGED connection_state
    <3>1. connection_state # "Uninitialized"
      BY <1>3 DEF WakeInv, AskOK, StatusChecked
    <3>. QED  BY <1>3, <3>1 DEF StatusChecked, TypeOK, LockerOK
  <2>2. \/ thread'[t].pc = "attempt"
        \/ /\ connection_state = "Unconnected"
           /\ thread'[t].pc \in {"need_force", "callback", "idle"}
    BY <1>3, <2>1, MovePoint DEF StatusChecked
  <2>. QED  BY <2>1, <2>2 DEF AskOK, AskPCs, InVain
<1>4. CASE CheckConnectionStatusResponseAny(t)
  <2>1. thread'[t].pc = "status_checked" /\ connection_state' # "Uninitialized"
    BY <1>4, MovePoint DEF CheckConnectionStatusResponseAny, CheckConnectionStatusResponse,
                           UpdateConnectionState
  <2>. QED  BY <2>1 DEF AskOK, AskPCs
<1>. QED  BY <1>2, <1>3, <1>4

\* With one thread every step keeps a wakeup for whatever waits.
LEMMA NextWake ==
  OneThread /\ TypeOK /\ CredentialsInv /\ TokenBudget /\ WakeInv /\ [Next]_vars => WakeInv'
<1>. SUFFICES ASSUME OneThread, TypeOK, CredentialsInv, TokenBudget, WakeInv, [Next]_vars
              PROVE  WakeInv'
  OBVIOUS
<1>1. CASE UNCHANGED vars
  BY <1>1 DEF vars, lockerVars, stateVars, tokenVars, queueVars, connectionVars,
              failureVars, callVars, WakeInv, AskOK, InVain, Pending, CheckedOut, HoldsToken
<1>2. ASSUME NEW r \in Requests, RetryTimePasses(r)  PROVE WakeInv'
  BY <1>2, WakeIdle DEF RetryTimePasses
<1>3. ASSUME NEW t \in Threads, NEW r \in Requests, Cancel(t, r)  PROVE WakeInv'
  BY <1>3, WakeIdle DEF Cancel
<1>4. ASSUME NEW t \in Threads, NEW r \in Requests, HandleTimedOutRequest(t, r)
      PROVE  WakeInv'
  <2>1. Range(<<>>) = {}
    BY DEF Range
  <2>. QED  BY <1>4, <2>1, WakeIdle DEF HandleTimedOutRequest
<1>. QED
  BY <1>1, <1>2, <1>3, <1>4, WakeHandler, WakeAttempt, WakeStatus
     DEF Next, ThreadStep, RequestEvent

\* At the start nothing waits.
LEMMA InitWake == Init => WakeInv
BY DEF Init, WakeInv, AskOK, AskPCs, InVain, IdleThread

\* With one thread no wakeup is lost, although a token failure cancels timers, a
\* refused call ends the asking and a queue may shrink: whatever waits - a request
\* for a token, a stored token for the state Running, everything for the
\* connection - waits for something that is pending.
THEOREM NoWakeupLost == Cardinality(Threads) = 1 => (Spec => []NoLostWakeup)
<1>. SUFFICES ASSUME Cardinality(Threads) = 1  PROVE Spec => []NoLostWakeup
  OBVIOUS
<1>. DEFINE I == TypeOK /\ CredentialsInv /\ TokenBudget /\ WakeInv
<1>1. OneThread
  BY OneThreadOnly
<1>2. Init => I
  BY InitType, InitCredentials, InitBudget, InitWake
<1>3. I /\ [Next]_vars => I'
  BY <1>1, NextType, NextCredentials, NextBudget, NextWake
<1>4. I => AttemptPending /\ GoodTokenRuns
  <2>1. AllIdle /\ WakeInv => (InVain => Pending)
    BY DEF AllIdle, At, WakeInv
  <2>2. AllIdle /\ CredentialsInv => (session_state.kind # "Running" => session_tokens = <<>>)
    BY DEF AllIdle, At, CredentialsInv
  <2>. QED  BY <2>1, <2>2 DEF AttemptPending, GoodTokenRuns, InVain, Pending
<1>5. Spec => [](AttemptPending /\ GoodTokenRuns)
  BY <1>2, <1>3, <1>4, PTL DEF Spec
<1>. QED  BY <1>5, ReconnectAlwaysPending, PTL DEF NoLostWakeup

----------------------------------------------------------------------------
(***************************************************************************)
(* Any number of threads: SetSessionStateSafe only moves on from the state *)
(* that was read.  The change count stands for that state, as long as      *)
(* there are fewer changes than counts: a thread adds at most one change   *)
(* for each answer it handles and SetLoginCredentials one for each call.   *)
(***************************************************************************)
NoWrap == MaxStateChanges + MaxCredentialCalls + Cardinality(Threads) < CountModulus

\* The threads that may still change the state for the answer they handle.
Changing == {t \in Threads : thread[t].pc \in AnswerPCs \ {"arm"}}

CountBound ==
  session_state_change_count + Cardinality(Changing)
    <= MaxStateChanges + Cardinality(Threads) + credential_calls

\* What a thread knows if nobody has changed the state since it read it.
SnapshotOK(th) ==
  /\ th.pc \in SnapshotPCs =>
       /\ th.count <= session_state_change_count
       /\ th.count = session_state_change_count => th.state = session_state
  /\ th.pc = "set_failure" /\ th.result # "credentials" =>
       th.state.kind \in {"Initialized", "ProlongedError"}

SnapshotInv == CountBound /\ \A t \in Threads : SnapshotOK(thread[t])

\* The numbers of the bound.
LEMMA ChangingFacts ==
  ASSUME TypeOK
  PROVE  /\ IsFiniteSet(Changing) /\ Cardinality(Changing) \in Nat
         /\ Cardinality(Changing) <= Cardinality(Threads)
         /\ Cardinality(Threads) \in Nat \ {0}
         /\ session_state_change_count \in Nat /\ credential_calls \in Nat
         /\ credential_calls <= MaxCredentialCalls
         /\ MaxStateChanges \in Nat /\ MaxCredentialCalls \in Nat /\ CountModulus \in Nat
<1>1. Changing \subseteq Threads
  BY DEF Changing
<1>2. /\ IsFiniteSet(Changing) /\ Cardinality(Changing) \in Nat
      /\ Cardinality(Changing) <= Cardinality(Threads)
  BY <1>1, ThreadsAssumption, FS_Subset, FS_CardinalityType
<1>. QED  BY <1>2, ThreadsCount, LimitsAssumption DEF TypeOK, LockerOK

\* The steps that leave the state alone and bring no new answer.
LEMMA SnapshotKept ==
  ASSUME TypeOK, TypeOK', SnapshotInv, NEW t \in Threads,
         UNCHANGED <<session_state, session_state_change_count, credential_calls>>,
         \A u \in Threads : u # t => thread'[u] = thread[u],
         SnapshotOK(thread[t])', t \in Changing' => t \in Changing
  PROVE  SnapshotInv'
<1>1. Changing' \subseteq Changing
  BY DEF Changing
<1>2. Cardinality(Changing') <= Cardinality(Changing) /\ Cardinality(Changing') \in Nat
  BY <1>1, ChangingFacts, FS_Subset, FS_CardinalityType
<1>3. CountBound'
  BY <1>2, ChangingFacts DEF SnapshotInv, CountBound
<1>4. ASSUME NEW u \in Threads, u # t  PROVE SnapshotOK(thread[u])'
  <2>1. thread'[u] = thread[u] /\ SnapshotOK(thread[u])
    BY <1>4 DEF SnapshotInv
  <2>. QED  BY <2>1 DEF SnapshotOK
<1>. QED  BY <1>3, <1>4 DEF SnapshotInv

\* Such a step that takes the thread out of HandleSessionTokenResponse.
LEMMA SnapshotLeft ==
  ASSUME TypeOK, TypeOK', SnapshotInv, NEW t \in Threads,
         UNCHANGED <<session_state, session_state_change_count, credential_calls>>,
         UNCHANGED thread \/ \E x : thread' = [thread EXCEPT ![t] = x],
         UNCHANGED thread \/ thread'[t].pc \notin AnswerPCs \/ thread'[t].pc = "arm"
  PROVE  SnapshotInv'
<1>1. CASE UNCHANGED thread
  <2>1. SnapshotOK(thread[t]) = SnapshotOK(thread[t])'
    BY <1>1 DEF SnapshotOK
  <2>2. SnapshotOK(thread[t])
    BY DEF SnapshotInv
  <2>. QED  BY <1>1, <2>1, <2>2, SnapshotKept DEF Changing
<1>2. CASE thread'[t].pc \notin AnswerPCs \/ thread'[t].pc = "arm"
  <2>1. SnapshotOK(thread[t])' /\ t \notin Changing'
    BY <1>2 DEF SnapshotOK, SnapshotPCs, AnswerPCs, Changing
  <2>2. \A u \in Threads : u # t => thread'[u] = thread[u]
    BY OneMoves
  <2>. QED  BY <2>1, <2>2, SnapshotKept
<1>. QED  BY <1>1, <1>2

\* A change of the state: the count that others read is no longer the count.
LEMMA SnapshotChanged ==
  ASSUME NoWrap, TypeOK, TypeOK', SnapshotInv, NEW t \in Threads, NEW s,
         ChangeSessionState(s),
         \A u \in Threads : u # t => thread'[u] = thread[u],
         thread'[t].pc \notin AnswerPCs \/ thread'[t].pc = "arm",
         \/ t \in Changing /\ UNCHANGED credential_calls
         \/ t \notin Changing /\ credential_calls' = credential_calls + 1
            /\ credential_calls < MaxCredentialCalls
  PROVE  SnapshotInv'
<1>1. t \notin Changing' /\ SnapshotOK(thread[t])'
  BY DEF Changing, SnapshotOK, SnapshotPCs, AnswerPCs
<1>2. Changing' = Changing \ {t}
  BY <1>1 DEF Changing
<1>3. Cardinality(Changing') =
        IF t \in Changing THEN Cardinality(Changing) - 1 ELSE Cardinality(Changing)
  BY <1>2, ChangingFacts, FS_RemoveElement
<1>4. /\ session_state_change_count + 1 < CountModulus
      /\ session_state_change_count' \in {session_state_change_count,
                                          session_state_change_count + 1}
      /\ session_state' # session_state =>
           session_state_change_count' = session_state_change_count + 1
  <2>1. t \in Changing => Cardinality(Changing) # 0
    BY ChangingFacts, FS_EmptySet
  <2>2. session_state_change_count + 1 < CountModulus
    BY <2>1, ChangingFacts DEF NoWrap, SnapshotInv, CountBound
  <2>3. (session_state_change_count + 1) % CountModulus = session_state_change_count + 1
    BY <2>2, ChangingFacts
  <2>. QED  BY <2>2, <2>3 DEF ChangeSessionState
<1>5. CountBound'
  BY <1>3, <1>4, ChangingFacts DEF SnapshotInv, CountBound
<1>6. ASSUME NEW u \in Threads, u # t  PROVE SnapshotOK(thread[u])'
  <2>1. thread'[u] = thread[u] /\ SnapshotOK(thread[u])
    BY <1>6 DEF SnapshotInv
  <2>2. thread[u].count \in Nat
    BY ThreadFacts DEF ThreadRecords
  <2>3. session_state' = session_state
        => session_state_change_count' = session_state_change_count
           \/ thread[u].count # session_state_change_count'
    BY <1>4 DEF ChangeSessionState
  <2>. QED  BY <1>4, <2>1, <2>2, ChangingFacts DEF SnapshotOK
<1>. QED  BY <1>1, <1>5, <1>6 DEF SnapshotInv

\* The steps of HandleSessionTokenResponse that leave the state alone.
LEMMA SnapshotReport ==
  ASSUME TypeOK, TypeOK', SnapshotInv, NEW t \in Threads,
         \/ GetSessionState(t) \/ TokenConnectionUpdate(t) \/ IncrementFailureCount(t)
         \/ JudgeFailure(t) \/ ResetFailureCount(t) \/ AddToken(t)
  PROVE  SnapshotInv'
<1>0. thread[t] \in ThreadRecords /\ SnapshotOK(thread[t])
  BY ThreadFacts DEF SnapshotInv
<1>1. /\ UNCHANGED <<session_state, session_state_change_count, credential_calls>>
      /\ t \in Changing
  BY DEF GetSessionState, TokenConnectionUpdate, IncrementFailureCount, JudgeFailure,
         ResetFailureCount, AddToken, Changing, AnswerPCs, TokenPCs
<1>2. \A u \in Threads : u # t => thread'[u] = thread[u]
  <2>1. \E x : thread' = [thread EXCEPT ![t] = x]
    BY DEF GetSessionState, TokenConnectionUpdate, IncrementFailureCount, JudgeFailure,
           ResetFailureCount, AddToken, AttemptRequests
  <2>. QED  BY <2>1, OneMoves
<1>3. SUFFICES SnapshotOK(thread[t])'
  BY <1>1, <1>2, SnapshotKept
<1>4. CASE GetSessionState(t)
  <2>1. /\ thread'[t].pc = "update_connection" /\ thread'[t].state = session_state
        /\ thread'[t].count = session_state_change_count
    BY <1>0, <1>4 DEF GetSessionState, TypeOK, ThreadRecords
  <2>. QED  BY <1>1, <2>1, ChangingFacts DEF SnapshotOK
<1>5. ASSUME NEW x, thread' = [thread EXCEPT ![t] = x], thread[t].pc \in SnapshotPCs,
             x.state = thread[t].state, x.count = thread[t].count,
             x.result = thread[t].result,
             x.pc # "set_failure" \/ x.result = "credentials" \/ Prolonged(thread[t])
      PROVE  SnapshotOK(thread[t])'
  <2>1. thread'[t] = x
    BY <1>5, MovePoint
  <2>. QED  BY <1>0, <1>1, <1>5, <2>1 DEF SnapshotOK, Prolonged
<1>6. ASSUME NEW p, Goto(t, p), thread[t].pc \in SnapshotPCs,
             p # "set_failure" \/ CredentialsRefused(thread[t]) \/ Prolonged(thread[t])
      PROVE  SnapshotOK(thread[t])'
  <2>. DEFINE x == [thread[t] EXCEPT !.pc = p]
  <2>1. /\ x.state = thread[t].state /\ x.count = thread[t].count
        /\ x.result = thread[t].result /\ x.pc = p
    BY <1>0 DEF ThreadRecords
  <2>2. thread' = [thread EXCEPT ![t] = x]
    BY <1>6
  <2>. HIDE DEF x
  <2>. QED  BY <1>5, <1>6, <2>1, <2>2 DEF CredentialsRefused
<1>7. ASSUME \/ TokenConnectionUpdate(t) \/ IncrementFailureCount(t) \/ ResetFailureCount(t)
             \/ JudgeFailure(t)
      PROVE  SnapshotOK(thread[t])'
  <2>1. \E p : /\ Goto(t, p)
               /\ \/ p # "set_failure" \/ CredentialsRefused(thread[t])
                  \/ Prolonged(thread[t])
    BY <1>7 DEF TokenConnectionUpdate, IncrementFailureCount, ResetFailureCount,
                JudgeFailure
  <2>2. thread[t].pc \in SnapshotPCs
    BY <1>7 DEF TokenConnectionUpdate, IncrementFailureCount, ResetFailureCount,
                JudgeFailure, SnapshotPCs, AnswerPCs, TokenPCs
  <2>. QED  BY <1>6, <2>1, <2>2
<1>8. CASE AddToken(t)
  <2>1. CASE AttemptRequests(t)
    <3>1. thread'[t].pc = "attempt"
      BY <2>1, MovePoint
    <3>. QED  BY <3>1 DEF SnapshotOK, SnapshotPCs, AnswerPCs, TokenPCs
  <2>2. CASE ~AttemptRequests(t)
    <3>. DEFINE x == [thread[t] EXCEPT !.pc = "set_running", !.token = NoToken]
    <3>1. /\ x.state = thread[t].state /\ x.count = thread[t].count
          /\ x.result = thread[t].result /\ x.pc = "set_running"
      BY <1>0 DEF ThreadRecords
    <3>2. thread' = [thread EXCEPT ![t] = x] /\ thread[t].pc = "add_token"
      BY <1>8, <2>2 DEF AddToken
    <3>3. thread[t].pc \in SnapshotPCs
      BY <3>2 DEF SnapshotPCs, AnswerPCs, TokenPCs
    <3>. HIDE DEF x
    <3>. QED  BY <1>5, <3>1, <3>2, <3>3
  <2>. QED  BY <2>1, <2>2
<1>. QED  BY <1>4, <1>7, <1>8

\* The steps that may change the state.
LEMMA SnapshotChange ==
  ASSUME NoWrap, TypeOK, TypeOK', SnapshotInv, NEW t \in Threads,
         SetFailureState(t) \/ SetRunning(t) \/ SetLoginCredentialsAny(t)
  PROVE  SnapshotInv'
<1>1. ASSUME SetFailureState(t) \/ SetRunning(t)  PROVE SnapshotInv'
  <2>1. /\ t \in Changing /\ UNCHANGED credential_calls
        /\ \E s : SetSessionStateSafe(s, thread[t].count)
    BY <1>1 DEF SetFailureState, SetRunning, Changing, AnswerPCs
  <2>2. thread'[t].pc \in {"arm", "attempt"} /\ \A u \in Threads : u # t => thread'[u] = thread[u]
    BY <1>1, MovePoint, OneMoves DEF SetFailureState, SetRunning
  <2>3. thread'[t].pc \notin AnswerPCs \/ thread'[t].pc = "arm"
    BY <2>2 DEF AnswerPCs, TokenPCs
  <2>4. CASE session_state_change_count # thread[t].count
    <3>1. UNCHANGED <<session_state, session_state_change_count>>
      BY <2>1, <2>4 DEF SetSessionStateSafe
    <3>2. \E x : thread' = [thread EXCEPT ![t] = x]
      BY <1>1 DEF SetFailureState, SetRunning, AttemptRequests
    <3>. QED  BY <2>1, <2>3, <3>1, <3>2, SnapshotLeft
  <2>5. CASE session_state_change_count = thread[t].count
    <3>1. \E s : ChangeSessionState(s)
      BY <2>1, <2>5 DEF SetSessionStateSafe
    <3>. QED  BY <2>1, <2>2, <2>3, <3>1, SnapshotChanged
  <2>. QED  BY <2>4, <2>5
<1>2. ASSUME NEW c \in Credentials, SetLoginCredentials(t, c)  PROVE SnapshotInv'
  <2>1. /\ At(t, "idle") /\ credential_calls < MaxCredentialCalls
        /\ credential_calls' = credential_calls + 1 /\ SetCredentials(c)
        /\ AttemptRequests(t)
    BY <1>2 DEF SetLoginCredentials
  <2>2. t \notin Changing
    BY <2>1 DEF Changing, AnswerPCs, TokenPCs
  <2>3. thread'[t].pc = "attempt" /\ \A u \in Threads : u # t => thread'[u] = thread[u]
    BY <2>1, MovePoint, OneMoves
  <2>4. thread'[t].pc \notin AnswerPCs
    BY <2>3 DEF AnswerPCs, TokenPCs
  <2>5. \E s : ChangeSessionState(s)
    <3>1. c = credentials => ChangeSessionState(session_state)
      BY <2>1 DEF SetCredentials, ChangeSessionState
    <3>2. c # credentials => ChangeSessionState(Initialized)
      BY <2>1 DEF SetCredentials
    <3>. QED  BY <3>1, <3>2
  <2>. QED  BY <2>1, <2>2, <2>3, <2>4, <2>5, SnapshotChanged
<1>. QED  BY <1>1, <1>2 DEF SetLoginCredentialsAny

\* The answer to a call: the threads are as many as may still change the state.
LEMMA SnapshotResponse ==
  ASSUME TypeOK, TypeOK', SnapshotInv, NEW t \in Threads,
         NEW call \in token_calls, SessionTokenResponseAny(t, call)
  PROVE  SnapshotInv'
<1>1. PICK result \in TokenResults, tk \in Tokens \cup {NoToken} :
        SessionTokenResponse(t, call, result, tk)
  BY DEF SessionTokenResponseAny
<1>2. /\ thread'[t].pc = "snapshot"
      /\ \A u \in Threads : u # t => thread'[u] = thread[u]
  BY <1>1, ThreadFacts DEF SessionTokenResponse, TypeOK, ThreadRecords
<1>3. /\ UNCHANGED <<session_state, session_state_change_count, credential_calls>>
      /\ session_state_change_count < MaxStateChanges
  BY <1>1 DEF SessionTokenResponse
<1>4. CountBound'
  <2>1. Cardinality(Changing') <= Cardinality(Threads) /\ Cardinality(Changing') \in Nat
    <3>1. Changing' \subseteq Threads
      BY DEF Changing
    <3>. QED  BY <3>1, ThreadsAssumption, FS_Subset, FS_CardinalityType
  <2>. QED  BY <1>3, <2>1, ChangingFacts DEF CountBound
<1>5. SnapshotOK(thread[t])'
  BY <1>2 DEF SnapshotOK, SnapshotPCs
<1>6. ASSUME NEW u \in Threads, u # t  PROVE SnapshotOK(thread[u])'
  <2>1. thread'[u] = thread[u] /\ SnapshotOK(thread[u])
    BY <1>2, <1>6 DEF SnapshotInv
  <2>. QED  BY <1>3, <2>1 DEF SnapshotOK
<1>. QED  BY <1>4, <1>5, <1>6 DEF SnapshotInv

\* Every other step is none of HandleSessionTokenResponse.
LEMMA SnapshotOther ==
  ASSUME TypeOK, TypeOK', SnapshotInv, NEW t \in Threads,
         \/ AttemptStep(t) \/ ApiStep(t) \/ ArmFailureTimer(t) \/ StatusChecked(t)
         \/ SessionTokenFailureTimeout(t) \/ ConnectionStateRecheckTimeout(t)
         \/ CheckConnectionStatusResponseAny(t)
         \/ \E r \in Requests : RequestEvent(t, r)
  PROVE  SnapshotInv'
<1>0. thread[t] \in ThreadRecords
  BY ThreadFacts
<1>1. UNCHANGED <<session_state, session_state_change_count, credential_calls>>
  BY DEF AttemptStep, AttemptConnection, AttemptConnected, StartNonSTRequest,
         NoMoreNonSTRequests, AddInProgressNonST, CheckRunning, StartSTRequest,
         NoMoreSTRequests, AddInProgressST, RequestNeededSessionTokens, GetCredentials,
         TryRequestSessionToken, SessionTokenRequestRefused, CompletionCallback, ApiStep,
         RemoveInProgressRequest, MoveInProgressToWaiting, MoveInProgressToDelayed,
         ReleaseToken, ArmFailureTimer, StatusChecked, SessionTokenFailureTimeout,
         ConnectionStateRecheckTimeout, CheckConnectionStatusResponseAny,
         CheckConnectionStatusResponse, RequestEvent, Call, Cancel, ApiResponseAny,
         ApiResponse, DelayedRequestTimeout, HandleTimedOutRequest
<1>2. UNCHANGED thread \/ \E x : thread' = [thread EXCEPT ![t] = x]
  <2>1. CASE AttemptStep(t)
    BY <2>1 DEF AttemptStep, AttemptConnection, AttemptConnected, StartNonSTRequest,
         NoMoreNonSTRequests, AddInProgressNonST, CheckRunning, StartSTRequest,
         NoMoreSTRequests, AddInProgressST, RequestNeededSessionTokens, GetCredentials,
         TryRequestSessionToken, SessionTokenRequestRefused, CompletionCallback, Return
  <2>2. CASE ApiStep(t)
    BY <2>2 DEF ApiStep, RemoveInProgressRequest, MoveInProgressToWaiting,
         MoveInProgressToDelayed, ReleaseToken
  <2>3. ASSUME \/ ArmFailureTimer(t) \/ StatusChecked(t) \/ SessionTokenFailureTimeout(t)
               \/ ConnectionStateRecheckTimeout(t) \/ CheckConnectionStatusResponseAny(t)
        PROVE  \E x : thread' = [thread EXCEPT ![t] = x]
    BY <2>3 DEF ArmFailureTimer, StatusChecked, SessionTokenFailureTimeout,
         ConnectionStateRecheckTimeout, CheckConnectionStatusResponseAny,
         CheckConnectionStatusResponse, Return, AttemptRequests
  <2>4. ASSUME NEW r \in Requests,
               \/ Call(t, r) \/ Cancel(t, r) \/ DelayedRequestTimeout(t, r)
               \/ HandleTimedOutRequest(t, r)
        PROVE  UNCHANGED thread \/ \E x : thread' = [thread EXCEPT ![t] = x]
    BY <2>4 DEF Call, Cancel, DelayedRequestTimeout, HandleTimedOutRequest, AttemptRequests
  <2>5. ASSUME NEW r, NEW result, ApiResponse(t, r, result)
        PROVE  \E x : thread' = [thread EXCEPT ![t] = x]
    BY <2>5 DEF ApiResponse
  <2>. QED  BY <2>1, <2>2, <2>3, <2>4, <2>5 DEF RequestEvent, ApiResponseAny
<1>3. UNCHANGED thread \/ thread'[t].pc \notin AnswerPCs
  <2>1. ASSUME \/ StartNonSTRequest(t) \/ AddInProgressNonST(t) \/ StartSTRequest(t)
               \/ AddInProgressST(t) \/ RemoveInProgressRequest(t)
               \/ \E r \in Requests : ApiResponseAny(t, r)
        PROVE  thread'[t].pc \in {"add_non_st", "start_non_st", "add_st",
                                  "check_running", "release", "retry", "remove"}
    <3>1. ASSUME NEW r, NEW result, ApiResponse(t, r, result)
          PROVE  thread'[t].pc \in {"retry", "remove"}
      BY <1>0, <3>1 DEF ApiResponse, TypeOK, ThreadRecords
    <3>2. ASSUME \/ StartNonSTRequest(t) \/ AddInProgressNonST(t) \/ StartSTRequest(t)
                 \/ AddInProgressST(t) \/ RemoveInProgressRequest(t)
          PROVE  thread'[t].pc \in {"add_non_st", "start_non_st", "add_st",
                                    "check_running", "release"}
      BY <1>0, <3>2 DEF StartNonSTRequest, AddInProgressNonST, StartSTRequest,
           AddInProgressST, RemoveInProgressRequest, TypeOK, ThreadRecords
    <3>. QED  BY <2>1, <3>1, <3>2 DEF ApiResponseAny
  <2>2. GetCredentials(t) => Return(t) \/ thread'[t].pc \in {"try", "try_one"}
    BY <1>0 DEF GetCredentials, TypeOK, ThreadRecords
  <2>3. IdleThread.pc = "idle"
    BY DEF IdleThread
  <2>4. /\ [IdleThread EXCEPT !.pc = "attempt", !.finish = thread[t].finish].pc = "attempt"
        /\ [IdleThread EXCEPT !.pc = "attempt", !.after = "force"].pc = "attempt"
    BY DEF IdleThread
  <2>5. ReleaseToken(t) \/ SessionTokenFailureTimeout(t) => thread'[t].pc = "attempt"
    BY <2>4, MovePoint DEF ReleaseToken, SessionTokenFailureTimeout
  <2>6. ArmFailureTimer(t) \/ CompletionCallback(t) => thread'[t].pc = "idle"
    BY <2>3, MovePoint DEF ArmFailureTimer, CompletionCallback
  <2>7. ASSUME AttemptStep(t), ~StartNonSTRequest(t), ~AddInProgressNonST(t),
               ~StartSTRequest(t), ~AddInProgressST(t), ~GetCredentials(t),
               ~CompletionCallback(t)
        PROVE  \/ Return(t) \/ UNCHANGED thread
               \/ \E p \in {"start_non_st", "check_running", "start_st", "need",
                            "get_credentials", "get_credentials_one"} : Goto(t, p)
    BY <2>7 DEF AttemptStep, AttemptConnection, AttemptConnected, NoMoreNonSTRequests,
         CheckRunning, NoMoreSTRequests, RequestNeededSessionTokens,
         TryRequestSessionToken, SessionTokenRequestRefused
  <2>8. MoveInProgressToWaiting(t) \/ MoveInProgressToDelayed(t) => Goto(t, "release")
    BY DEF MoveInProgressToWaiting, MoveInProgressToDelayed
  <2>9. \/ StatusChecked(t) \/ ConnectionStateRecheckTimeout(t)
        \/ CheckConnectionStatusResponseAny(t)
        \/ \E r \in Requests : \/ Call(t, r) \/ Cancel(t, r)
                               \/ DelayedRequestTimeout(t, r) \/ HandleTimedOutRequest(t, r)
        => \/ Return(t) \/ AttemptRequests(t) \/ UNCHANGED thread
           \/ Goto(t, "status_checked")
    BY DEF StatusChecked, ConnectionStateRecheckTimeout, CheckConnectionStatusResponseAny,
         CheckConnectionStatusResponse, Call, Cancel, DelayedRequestTimeout,
         HandleTimedOutRequest
  <2>10. \/ UNCHANGED thread
         \/ thread'[t].pc \in {"add_non_st", "start_non_st", "add_st", "check_running",
              "release", "retry", "remove", "try", "try_one", "idle", "attempt",
              "start_st", "need", "need_force", "callback", "get_credentials",
              "get_credentials_one", "status_checked"}
    BY <2>1, <2>2, <2>5, <2>6, <2>7, <2>8, <2>9, MovePoint DEF ApiStep, RequestEvent
  <2>. QED  BY <2>10 DEF AnswerPCs, TokenPCs
<1>. QED  BY <1>1, <1>2, <1>3, SnapshotLeft

\* Every step keeps the snapshots of the counter in order.
LEMMA NextSnapshot ==
  NoWrap /\ TypeOK /\ TypeOK' /\ SnapshotInv /\ [Next]_vars => SnapshotInv'
<1>. SUFFICES ASSUME NoWrap, TypeOK, TypeOK', SnapshotInv, [Next]_vars
              PROVE  SnapshotInv'
  OBVIOUS
<1>1. PICK t \in Threads : TRUE
  BY ThreadsAssumption
<1>2. CASE UNCHANGED vars
  BY <1>1, <1>2, SnapshotLeft
<1>3. ASSUME NEW r \in Requests, RetryTimePasses(r)  PROVE SnapshotInv'
  BY <1>1, <1>3, SnapshotLeft DEF RetryTimePasses
<1>4. ASSUME NEW u \in Threads, TokenStep(u)  PROVE SnapshotInv'
  BY <1>4, SnapshotReport, SnapshotChange, SnapshotOther DEF TokenStep
<1>. QED
  BY <1>2, <1>3, <1>4, SnapshotChange, SnapshotResponse, SnapshotOther
     DEF Next, ThreadStep

\* At the start no thread holds a snapshot.
LEMMA InitSnapshot == Init => TypeOK /\ SnapshotInv
<1>. SUFFICES ASSUME Init  PROVE TypeOK /\ SnapshotInv
  OBVIOUS
<1>1. TypeOK
  BY InitType
<1>2. \A t \in Threads : thread[t].pc = "idle"
  BY DEF Init, IdleThread
<1>3. CountBound
  BY <1>1, ChangingFacts DEF Init, CountBound
<1>. QED  BY <1>1, <1>2, <1>3 DEF SnapshotInv, SnapshotOK, SnapshotPCs, AnswerPCs, TokenPCs

\* For any number of threads, unless the change count comes round: a step to
\* ProlongedError is one from Initialized (or another ProlongedError), although
\* the decision was made on a state that other threads may have changed since.
THEOREM OnlyFromInitialized == NoWrap => (Spec => ProlongedOnlyFromInitialized)
<1>. SUFFICES ASSUME NoWrap  PROVE Spec => ProlongedOnlyFromInitialized
  OBVIOUS
<1>. DEFINE A == session_state' # session_state /\ session_state'.kind = "ProlongedError"
                   => session_state.kind \in {"Initialized", "ProlongedError"}
<1>1. Init => TypeOK /\ SnapshotInv
  BY InitSnapshot
<1>2. TypeOK /\ SnapshotInv /\ [Next]_vars => (TypeOK /\ SnapshotInv)'
  BY NextType, NextSnapshot
<1>3. TypeOK /\ SnapshotInv /\ [Next]_vars => [A]_vars
  <2>. SUFFICES ASSUME TypeOK, SnapshotInv, Next, session_state' # session_state,
                       session_state'.kind = "ProlongedError"
                PROVE  session_state.kind \in {"Initialized", "ProlongedError"}
    OBVIOUS
  <2>1. PICK t \in Threads : SetFailureState(t) \/ SetRunning(t) \/ SetLoginCredentialsAny(t)
    <3>1. ASSUME NEW t \in Threads,
                 \/ AttemptStep(t) \/ ApiStep(t) \/ StatusChecked(t)
                 \/ SessionTokenFailureTimeout(t) \/ ConnectionStateRecheckTimeout(t)
                 \/ CheckConnectionStatusResponseAny(t)
                 \/ \E r \in Requests : RequestEvent(t, r)
          PROVE  FALSE
      BY <3>1 DEF AttemptStep, AttemptConnection, AttemptConnected, StartNonSTRequest,
         NoMoreNonSTRequests, AddInProgressNonST, CheckRunning, StartSTRequest,
         NoMoreSTRequests, AddInProgressST, RequestNeededSessionTokens, GetCredentials,
         TryRequestSessionToken, SessionTokenRequestRefused, CompletionCallback, ApiStep,
         RemoveInProgressRequest, MoveInProgressToWaiting, MoveInProgressToDelayed,
         ReleaseToken, StatusChecked, SessionTokenFailureTimeout,
         ConnectionStateRecheckTimeout, CheckConnectionStatusResponseAny,
         CheckConnectionStatusResponse, RequestEvent, Call, Cancel, ApiResponseAny,
         ApiResponse, DelayedRequestTimeout, HandleTimedOutRequest
    <3>2. ASSUME NEW t \in Threads, NEW call, SessionTokenResponseAny(t, call)  PROVE FALSE
      BY <3>2 DEF SessionTokenResponseAny, SessionTokenResponse
    <3>3. ASSUME NEW t \in Threads, TokenStep(t)
          PROVE  SetFailureState(t) \/ SetRunning(t)
      BY <3>3 DEF TokenStep, GetSessionState, TokenConnectionUpdate, IncrementFailureCount,
         JudgeFailure, ArmFailureTimer, ResetFailureCount, AddToken
    <3>4. ASSUME NEW r \in Requests, RetryTimePasses(r)  PROVE FALSE
      BY <3>4 DEF RetryTimePasses
    <3>. QED  BY <3>1, <3>2, <3>3, <3>4 DEF Next, ThreadStep
  <2>2. ~SetLoginCredentialsAny(t)
    BY DEF SetLoginCredentialsAny, SetLoginCredentials, SetCredentials,
           ChangeSessionState, Initialized, SessionState
  <2>3. ~SetRunning(t)
    BY DEF SetRunning, SetSessionStateSafe, ChangeSessionState, Running, SessionState
  <2>4. CASE SetFailureState(t)
    <3>1. /\ thread[t].pc = "set_failure"
          /\ thread[t].count = session_state_change_count
          /\ session_state' = FailureState(thread[t])
      BY <2>4 DEF SetFailureState, SetSessionStateSafe, ChangeSessionState
    <3>2. thread[t].result # "credentials"
      BY <3>1 DEF FailureState, CredentialsFailure, SessionState
    <3>3. /\ thread[t].state = session_state
          /\ thread[t].state.kind \in {"Initialized", "ProlongedError"}
      BY <3>1, <3>2 DEF SnapshotInv, SnapshotOK, SnapshotPCs, AnswerPCs
    <3>. QED  BY <3>3
  <2>. QED  BY <2>1, <2>2, <2>3, <2>4
<1>. QED  BY <1>1, <1>2, <1>3, PTL DEF Spec, ProlongedOnlyFromInitialized

=============================================================================
