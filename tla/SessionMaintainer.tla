------------------------- MODULE SessionMaintainer -------------------------
(***************************************************************************)
(* mf::api::SessionMaintainer together with its SessionMaintainerLocker    *)
(* and the SessionMaintainerRequest objects it drives: a pool of session   *)
(* tokens, the queues of API requests that need one (or do not), the       *)
(* session and connection states, and the timers that retry.               *)
(*                                                                         *)
(* Threads are the threads that run the io_services and the user's own.    *)
(* Every method of the locker holds mutex_ for its whole body, so one      *)
(* action is one such critical section; a handler is a sequence of them,   *)
(* and the sequences of different threads interleave.  With one thread a   *)
(* handler runs to its end before the next event.                          *)
(***************************************************************************)
EXTENDS Integers, SequencesExt

CONSTANTS
  Threads,        \* threads that run handlers or call the public methods
  STRequests,     \* API requests whose functor has SetSessionToken
  NonSTRequests,  \* API requests that need no session token
  Cancellable,    \* requests whose handle the user may cancel (once)
  Credentials,    \* values the user may pass to SetLoginCredentials
  TokenIds,       \* what tells the tokens the server issues apart
  CallIds,        \* what tells concurrent get_session_token calls apart
  TokenResults,   \* what a get_session_token call may come back with
  ApiResults,     \* what an API request may come back with
  NoCredentials, NoToken, NoRequest,
  max_tokens, max_in_progress_token_requests,
  skProlongedFailureThreshold,
  CountModulus,   \* 2^32: session_state_change_count_ is a uint32_t
  \* Bounds on the environment and on saturating counters.
  MaxCredentialCalls,  \* calls of SetLoginCredentials
  MaxStateChanges,     \* no token response arrives past this change count
  MaxStatusCalls,      \* outstanding system/get_status calls
  MaxTimeOuts,         \* time_out_requests_ entries per request
  MaxTimerWaits        \* waits pending on one asio timer

Requests == STRequests \cup NonSTRequests
Tokens == [credentials : Credentials, id : TokenIds]
TokenCalls == [credentials : Credentials, id : CallIds]

AllTokenResults == {"ok", "credentials", "locked", "error", "connection"}
AllApiResults == {"ok", "invalid_token", "async", "error", "connection"}

ASSUME RequestsAssumption ==
  /\ STRequests \cap NonSTRequests = {}
  /\ NoRequest \notin Requests
  /\ Cancellable \subseteq Requests
  /\ IsFiniteSet(Requests)

ASSUME ThreadsAssumption == IsFiniteSet(Threads) /\ Threads # {}

ASSUME ValuesAssumption ==
  /\ NoCredentials \notin Credentials
  /\ NoToken \notin Tokens
  /\ TokenResults \subseteq AllTokenResults
  /\ ApiResults \subseteq AllApiResults

ASSUME LimitsAssumption ==
  /\ max_tokens \in Nat \ {0}
  /\ max_in_progress_token_requests \in Nat \ {0}
  /\ skProlongedFailureThreshold \in Nat \ {0}
  /\ CountModulus \in Nat \ {0}
  /\ MaxCredentialCalls \in Nat
  /\ MaxStateChanges \in Nat
  /\ MaxStatusCalls \in Nat \ {0}
  /\ MaxTimeOuts \in Nat \ {0}
  /\ MaxTimerWaits \in Nat \ {0}

VARIABLES
  \* SessionMaintainerLocker
  session_state, session_state_change_count, connection_state, credentials,
  waiting_st_requests, waiting_non_st_requests, in_progress_requests,
  checked_out_tokens, delayed_requests, session_tokens,
  in_progress_session_token_requests, time_out_requests, failure_count,
  \* SessionMaintainer: the waits pending on its two timers
  session_token_failure_timer, connection_state_recheck_timer,
  \* SessionMaintainerRequest objects, calls on the wire, threads
  request, token_calls, status_calls, thread,
  credential_calls  \* calls of SetLoginCredentials so far

stateVars == <<session_state, session_state_change_count, credentials>>
tokenVars == <<session_tokens, checked_out_tokens>>
queueVars == <<waiting_st_requests, waiting_non_st_requests,
               in_progress_requests, delayed_requests, time_out_requests>>
connectionVars == <<connection_state, connection_state_recheck_timer>>
failureVars == <<failure_count, session_token_failure_timer>>
callVars == <<in_progress_session_token_requests, token_calls>>
lockerVars == <<stateVars, tokenVars, queueVars, connectionVars, failureVars,
                callVars, status_calls>>
vars == <<lockerVars, request, thread, credential_calls>>

----------------------------------------------------------------------------
(***************************************************************************)
(* Session states: what operator== of session_state.cpp compares and, for  *)
(* the session_token_response, whose credentials it answers.  Two states   *)
(* of a kind that differ in the credentials only are never compared: no    *)
(* handler moves from Running or CredentialsFailure to the same kind.      *)
(***************************************************************************)
SessionState(kind, error, c) ==
  [kind |-> kind, error |-> error, credentials |-> c]

Uninitialized == SessionState("Uninitialized", "none", NoCredentials)
Initialized == SessionState("Initialized", "none", NoCredentials)
CredentialsFailure(c) == SessionState("CredentialsFailure", "none", c)
ProlongedError(e) == SessionState("ProlongedError", e, NoCredentials)
Running(c) == SessionState("Running", "none", c)

SessionStates ==
  [kind : {"Uninitialized", "Initialized", "CredentialsFailure",
           "ProlongedError", "Running"},
   error : AllTokenResults \cup {"none"},
   credentials : Credentials \cup {NoCredentials}]

(***************************************************************************)
(* A thread between two critical sections: where it is (pc) and the local  *)
(* variables of the handler it runs.  "finish" is the request whose        *)
(* completion_callback_ is called once AttemptRequests returns, "after"    *)
(* tells whether RequestNeededSessionTokens(Force) follows it.             *)
(***************************************************************************)
IdleThread ==
  [pc |-> "idle", request |-> NoRequest, token |-> NoToken,
   credentials |-> NoCredentials, state |-> Uninitialized, count |-> 0,
   result |-> "none", after |-> "return", finish |-> NoRequest]

At(t, p) == thread[t].pc = p
Goto(t, p) == thread' = [thread EXCEPT ![t].pc = p]

\* Start handling an event with AttemptRequests as what is left to do.
AttemptRequests(t) ==
  thread' = [thread EXCEPT ![t] = [IdleThread EXCEPT !.pc = "attempt"]]

\* AttemptRequests, or RequestNeededSessionTokens, returns to its caller.
Returned(th) ==
  IF th.after = "force"
  THEN [IdleThread EXCEPT !.pc = "need_force"]
  ELSE IF th.finish # NoRequest
  THEN [IdleThread EXCEPT !.pc = "callback", !.finish = th.finish]
  ELSE IdleThread

Return(t) == thread' = [thread EXCEPT ![t] = Returned(thread[t])]

\* Saturating increment: the named bounds stop counters here.
Bump(n, bound) == IF n < bound THEN n + 1 ELSE n

----------------------------------------------------------------------------
(***************************************************************************)
(* Critical sections of the locker.  A definition whose name ends in       *)
(* "_" and a word is a faulty variant of the one that follows it: what a   *)
(* plausible mistake in the code would make of it.  No specification uses  *)
(* the variants; they show that the properties can fail.                   *)
(***************************************************************************)
\* ChangeSessionStateInternal with NewStateVisitor: a state equal to the
\* current one is ignored; entering Initialized or CredentialsFailure clears
\* every token, checked out or not.
ChangeSessionState(s) ==
  IF s = session_state
  THEN UNCHANGED <<session_state, session_state_change_count, tokenVars>>
  ELSE /\ session_state' = s
       /\ session_state_change_count' =
            (session_state_change_count + 1) % CountModulus
       /\ IF s.kind \in {"Initialized", "CredentialsFailure"}
          THEN /\ session_tokens' = <<>>
               /\ checked_out_tokens' = [r \in Requests |-> NoToken]
          ELSE UNCHANGED tokenVars

SetSessionStateSafe_Unchecked(s, count) == ChangeSessionState(s)

\* Only change the state if nobody changed it since the count was read.
SetSessionStateSafe(s, count) ==
  IF session_state_change_count = count
  THEN ChangeSessionState(s)
  ELSE UNCHANGED <<session_state, session_state_change_count, tokenVars>>

SetCredentials(c) ==
  IF c = credentials
  THEN UNCHANGED <<stateVars, tokenVars>>
  ELSE credentials' = c /\ ChangeSessionState(Initialized)

PushWaiting(r) ==
  IF r \in STRequests
  THEN /\ waiting_st_requests' = Append(waiting_st_requests, r)
       /\ UNCHANGED waiting_non_st_requests
  ELSE /\ waiting_non_st_requests' = Append(waiting_non_st_requests, r)
       /\ UNCHANGED waiting_st_requests

AddWaitingRequest_NoTimeOut(r) ==
  PushWaiting(r) /\ UNCHANGED time_out_requests

\* Every AddWaitingRequest adds a timeout, also for a delayed request's return.
AddWaitingRequest(r) ==
  /\ time_out_requests' =
       [time_out_requests EXCEPT ![r] = Bump(@, MaxTimeOuts)]
  /\ PushWaiting(r)

HoldsToken(r) == checked_out_tokens[r] # NoToken
CheckedOut == {r \in Requests : HoldsToken(r)}

DeleteCheckedOutToken_Forgotten(r) == UNCHANGED tokenVars

DeleteCheckedOutToken(r) ==
  /\ checked_out_tokens' = [checked_out_tokens EXCEPT ![r] = NoToken]
  /\ UNCHANGED session_tokens

ReuseToken_NotErased(r) ==
  /\ session_tokens' = IF HoldsToken(r)
                       THEN Append(session_tokens, checked_out_tokens[r])
                       ELSE session_tokens
  /\ UNCHANGED checked_out_tokens

ReuseToken_NotFound(r) ==
  /\ session_tokens' = Append(session_tokens, checked_out_tokens[r])
  /\ checked_out_tokens' = [checked_out_tokens EXCEPT ![r] = NoToken]

\* A response gives the token of its request back, if it still has one.
ReuseToken(r) ==
  IF HoldsToken(r)
  THEN /\ session_tokens' = Append(session_tokens, checked_out_tokens[r])
       /\ checked_out_tokens' = [checked_out_tokens EXCEPT ![r] = NoToken]
  ELSE UNCHANGED tokenVars

\* A token obtained with other credentials than the current ones is dropped.
AddSessionToken(tk) ==
  /\ session_tokens' = IF tk.credentials = credentials
                       THEN Append(session_tokens, tk)
                       ELSE session_tokens
  /\ UNCHANGED checked_out_tokens

TokensInUse == Len(session_tokens) + Cardinality(CheckedOut)

MayRequestSessionToken_NoCheckedOut ==
  \/ /\ in_progress_session_token_requests = 0
     /\ session_tokens = <<>>
  \/ /\ Len(waiting_st_requests) >
          in_progress_session_token_requests + Len(session_tokens)
     /\ in_progress_session_token_requests < max_in_progress_token_requests
     /\ in_progress_session_token_requests + Len(session_tokens) < max_tokens

\* The condition of StartRequestSessionToken.
MayRequestSessionToken ==
  \/ /\ in_progress_session_token_requests = 0
     /\ TokensInUse = 0
  \/ /\ Len(waiting_st_requests) >
          in_progress_session_token_requests + Len(session_tokens)
     /\ in_progress_session_token_requests < max_in_progress_token_requests
     /\ in_progress_session_token_requests + TokensInUse < max_tokens

\* expires_from_now cancels the waits that have not fired yet (a wait whose
\* handler is already queued survives); async_wait then adds one.
Rearmed(waits) == {1, Bump(waits, MaxTimerWaits)}

UpdateConnectionState_NoRecheck(result) ==
  /\ connection_state' =
       IF result = "connection" THEN "Unconnected" ELSE "Connected"
  /\ UNCHANGED connection_state_recheck_timer

\* UpdateConnectionStateFromErrorCode
UpdateConnectionState(result) ==
  IF result = "connection"
  THEN /\ connection_state' = "Unconnected"
       /\ connection_state_recheck_timer' \in
            Rearmed(connection_state_recheck_timer)
  ELSE /\ connection_state' = "Connected"
       /\ UNCHANGED connection_state_recheck_timer

----------------------------------------------------------------------------
(***************************************************************************)
(* AttemptRequests: start what can be started, then ask for tokens.        *)
(***************************************************************************)

\* If disconnected, only call system/get_status.
AttemptConnection(t) ==
  /\ At(t, "attempt")
  /\ connection_state = "Unconnected"
  /\ status_calls' = Bump(status_calls, MaxStatusCalls)
  /\ Return(t)
  /\ UNCHANGED <<stateVars, tokenVars, queueVars, connectionVars, failureVars,
                 callVars, request, credential_calls>>

AttemptConnected(t) ==
  /\ At(t, "attempt")
  /\ connection_state # "Unconnected"
  /\ Goto(t, "start_non_st")
  /\ UNCHANGED <<lockerVars, request, credential_calls>>

\* SessionMaintainerRequest::Init: wrap the request anew and start its HTTP
\* request, which may come back before this thread's next critical section.
InitRequest(r) ==
  request' = [request EXCEPT ![r].inited = TRUE, ![r].http = "live"]

\* NextWaitingNonSessionTokenRequest and Init
StartNonSTRequest(t) ==
  /\ At(t, "start_non_st")
  /\ waiting_non_st_requests # <<>>
  /\ waiting_non_st_requests' = Tail(waiting_non_st_requests)
  /\ InitRequest(Head(waiting_non_st_requests))
  /\ thread' = [thread EXCEPT ![t].pc = "add_non_st",
                              ![t].request = Head(waiting_non_st_requests)]
  /\ UNCHANGED <<stateVars, tokenVars, waiting_st_requests,
                 in_progress_requests, delayed_requests, time_out_requests,
                 connectionVars, failureVars, callVars, status_calls,
                 credential_calls>>

NoMoreNonSTRequests(t) ==
  /\ At(t, "start_non_st")
  /\ waiting_non_st_requests = <<>>
  /\ Goto(t, "check_running")
  /\ UNCHANGED <<lockerVars, request, credential_calls>>

AddInProgressNonST(t) ==
  /\ At(t, "add_non_st")
  /\ in_progress_requests' = in_progress_requests \cup {thread[t].request}
  /\ thread' = [thread EXCEPT ![t].pc = "start_non_st",
                              ![t].request = NoRequest]
  /\ UNCHANGED <<stateVars, tokenVars, waiting_st_requests,
                 waiting_non_st_requests, delayed_requests, time_out_requests,
                 connectionVars, failureVars, callVars, status_calls, request,
                 credential_calls>>

\* The loop condition: IsRunning(GetSessionState())
CheckRunning(t) ==
  /\ At(t, "check_running")
  /\ Goto(t, IF session_state.kind = "Running" THEN "start_st" ELSE "need")
  /\ UNCHANGED <<lockerVars, request, credential_calls>>

\* NextWaitingSessionTokenRequest (newest token, oldest request) and Init
StartSTRequest(t) ==
  /\ At(t, "start_st")
  /\ waiting_st_requests # <<>>
  /\ session_tokens # <<>>
  /\ waiting_st_requests' = Tail(waiting_st_requests)
  /\ session_tokens' = Front(session_tokens)
  /\ InitRequest(Head(waiting_st_requests))
  /\ thread' = [thread EXCEPT ![t].pc = "add_st",
                              ![t].request = Head(waiting_st_requests),
                              ![t].token = Last(session_tokens)]
  /\ UNCHANGED <<stateVars, checked_out_tokens, waiting_non_st_requests,
                 in_progress_requests, delayed_requests, time_out_requests,
                 connectionVars, failureVars, callVars, status_calls,
                 credential_calls>>

NoMoreSTRequests(t) ==
  /\ At(t, "start_st")
  /\ waiting_st_requests = <<>> \/ session_tokens = <<>>
  /\ Goto(t, "need")
  /\ UNCHANGED <<lockerVars, request, credential_calls>>

\* std::map::insert leaves an entry that is already there alone.
AddInProgressST(t) ==
  LET r == thread[t].request IN
  /\ At(t, "add_st")
  /\ in_progress_requests' = in_progress_requests \cup {r}
  /\ checked_out_tokens' =
       [checked_out_tokens EXCEPT ![r] = IF @ = NoToken THEN thread[t].token
                                                        ELSE @]
  /\ thread' = [thread EXCEPT ![t].pc = "check_running",
                              ![t].request = NoRequest, ![t].token = NoToken]
  /\ UNCHANGED <<stateVars, session_tokens, waiting_st_requests,
                 waiting_non_st_requests, delayed_requests, time_out_requests,
                 connectionVars, failureVars, callVars, status_calls, request,
                 credential_calls>>

(***************************************************************************)
(* RequestNeededSessionTokens: "need" is NoForce, "need_force" Force.      *)
(* With bad credentials NoForce asks for nothing and Force for one token;  *)
(* otherwise tokens are asked for until StartRequestSessionToken refuses.  *)
(***************************************************************************)
RequestNeededSessionTokens(t) ==
  LET bad == session_state.kind = "CredentialsFailure" IN
  /\ thread[t].pc \in {"need", "need_force"}
  /\ IF bad /\ At(t, "need")
     THEN Return(t)
     ELSE Goto(t, IF bad THEN "get_credentials_one" ELSE "get_credentials")
  /\ UNCHANGED <<lockerVars, request, credential_calls>>

GetCredentials(t) ==
  /\ thread[t].pc \in {"get_credentials", "get_credentials_one"}
  /\ IF credentials = NoCredentials
     THEN Return(t)
     ELSE thread' = [thread EXCEPT
            ![t].credentials = credentials,
            ![t].pc = IF @ = "get_credentials" THEN "try" ELSE "try_one"]
  /\ UNCHANGED <<lockerVars, request, credential_calls>>

\* TryRequestSessionToken with permission from StartRequestSessionToken
TryRequestSessionToken(t) ==
  /\ thread[t].pc \in {"try", "try_one"}
  /\ MayRequestSessionToken
  /\ in_progress_session_token_requests' =
       in_progress_session_token_requests + 1
  /\ \E i \in CallIds :
       /\ \A call \in token_calls : call.id # i
       /\ token_calls' = token_calls \cup
            {[credentials |-> thread[t].credentials, id |-> i]}
  /\ IF At(t, "try") THEN UNCHANGED thread ELSE Return(t)
  /\ UNCHANGED <<stateVars, tokenVars, queueVars, connectionVars, failureVars,
                 status_calls, request, credential_calls>>

SessionTokenRequestRefused(t) ==
  /\ thread[t].pc \in {"try", "try_one"}
  /\ ~MayRequestSessionToken
  /\ Return(t)
  /\ UNCHANGED <<lockerVars, request, credential_calls>>

\* completion_callback_(response), after AttemptRequests
CompletionCallback(t) ==
  /\ At(t, "callback")
  /\ request' = [request EXCEPT ![thread[t].finish].completions = Bump(@, 2)]
  /\ thread' = [thread EXCEPT ![t] = IdleThread]
  /\ UNCHANGED <<lockerVars, credential_calls>>

AttemptStep(t) ==
  \/ AttemptConnection(t) \/ AttemptConnected(t)
  \/ StartNonSTRequest(t) \/ NoMoreNonSTRequests(t) \/ AddInProgressNonST(t)
  \/ CheckRunning(t)
  \/ StartSTRequest(t) \/ NoMoreSTRequests(t) \/ AddInProgressST(t)
  \/ RequestNeededSessionTokens(t) \/ GetCredentials(t)
  \/ TryRequestSessionToken(t) \/ SessionTokenRequestRefused(t)
  \/ CompletionCallback(t)

----------------------------------------------------------------------------
(***************************************************************************)
(* The public methods.                                                     *)
(***************************************************************************)
SetLoginCredentials(t, c) ==
  /\ At(t, "idle")
  /\ credential_calls < MaxCredentialCalls
  /\ credential_calls' = credential_calls + 1
  /\ SetCredentials(c)
  /\ AttemptRequests(t)
  /\ UNCHANGED <<queueVars, connectionVars, failureVars, callVars,
                 status_calls, request>>

Call(t, r) ==
  /\ At(t, "idle")
  /\ ~request[r].called
  /\ request' = [request EXCEPT ![r].called = TRUE]
  /\ AddWaitingRequest(r)
  /\ AttemptRequests(t)
  /\ UNCHANGED <<stateVars, tokenVars, in_progress_requests, delayed_requests,
                 connectionVars, failureVars, callVars, status_calls,
                 credential_calls>>

(***************************************************************************)
(* SessionMaintainerRequest::Cancel.  Before the first Init there is no    *)
(* RequesterImpl: the callback is called and the request stays where it    *)
(* is.  Afterwards the RequesterImpl cancels its HTTP request, if that is  *)
(* still live, and does nothing otherwise.                                 *)
(***************************************************************************)
Cancel(t, r) ==
  /\ At(t, "idle")
  /\ r \in Cancellable
  /\ request[r].called /\ ~request[r].cancelled
  /\ request' = [request EXCEPT
       ![r].cancelled = TRUE,
       ![r].http = IF @ = "live" THEN "cancelling" ELSE @,
       ![r].completions = IF request[r].inited THEN @ ELSE Bump(@, 2)]
  /\ UNCHANGED <<lockerVars, thread, credential_calls>>

----------------------------------------------------------------------------
(***************************************************************************)
(* An API request comes back: RequesterImpl has reset its request_ and     *)
(* CallbackProxy updates the connection state, then completes the request  *)
(* or retries it.  A cancelled HTTP request may still come back with what  *)
(* the server said.                                                        *)
(***************************************************************************)
Retryable(result) == result \in {"invalid_token", "async"}

ApiResponse(t, r, result) ==
  /\ At(t, "idle")
  /\ request[r].http # "none"
  /\ result = "cancelled" => request[r].http = "cancelling"
  /\ request' = [request EXCEPT ![r].http = "none"]
  /\ UpdateConnectionState(result)
  /\ thread' = [thread EXCEPT
       ![t].request = r, ![t].result = result,
       ![t].pc = IF /\ r \in STRequests
                    /\ Retryable(result)
                    /\ ~request[r].expired
                 THEN "retry" ELSE "remove"]
  /\ UNCHANGED <<stateVars, tokenVars, queueVars, failureVars, callVars,
                 status_calls, credential_calls>>

\* HandleCompletion: RemoveInProgressRequest
RemoveInProgressRequest(t) ==
  /\ At(t, "remove")
  /\ in_progress_requests' = in_progress_requests \ {thread[t].request}
  /\ thread' = [thread EXCEPT ![t].pc = "release",
                              ![t].finish = thread[t].request]
  /\ UNCHANGED <<stateVars, tokenVars, waiting_st_requests,
                 waiting_non_st_requests, delayed_requests, time_out_requests,
                 connectionVars, failureVars, callVars, status_calls, request,
                 credential_calls>>

\* HandleRetryRequest: MoveInProgressToWaiting adds no timeout.
MoveInProgressToWaiting(t) ==
  /\ At(t, "retry")
  /\ thread[t].result = "invalid_token"
  /\ in_progress_requests' = in_progress_requests \ {thread[t].request}
  /\ PushWaiting(thread[t].request)
  /\ Goto(t, "release")
  /\ UNCHANGED <<stateVars, tokenVars, delayed_requests, time_out_requests,
                 connectionVars, failureVars, callVars, status_calls, request,
                 credential_calls>>

MoveInProgressToDelayed(t) ==
  /\ At(t, "retry")
  /\ thread[t].result # "invalid_token"
  /\ in_progress_requests' = in_progress_requests \ {thread[t].request}
  /\ delayed_requests' = delayed_requests \cup {thread[t].request}
  /\ Goto(t, "release")
  /\ UNCHANGED <<stateVars, tokenVars, waiting_st_requests,
                 waiting_non_st_requests, time_out_requests, connectionVars,
                 failureVars, callVars, status_calls, request,
                 credential_calls>>

\* The end of both handlers: an invalid token is deleted, any other is put
\* back; then AttemptRequests.
ReleaseToken(t) ==
  /\ At(t, "release")
  /\ IF thread[t].result = "invalid_token"
     THEN DeleteCheckedOutToken(thread[t].request)
     ELSE ReuseToken(thread[t].request)
  /\ thread' = [thread EXCEPT ![t] =
       [IdleThread EXCEPT !.pc = "attempt", !.finish = thread[t].finish]]
  /\ UNCHANGED <<stateVars, queueVars, connectionVars, failureVars, callVars,
                 status_calls, request, credential_calls>>

ApiStep(t) ==
  \/ RemoveInProgressRequest(t) \/ MoveInProgressToWaiting(t)
  \/ MoveInProgressToDelayed(t) \/ ReleaseToken(t)

----------------------------------------------------------------------------
(***************************************************************************)
(* A get_session_token call comes back: HandleSessionTokenResponse.        *)
(***************************************************************************)
HeldTokens == Range(session_tokens)
                \cup {checked_out_tokens[r] : r \in CheckedOut}
                \cup {thread[t].token : t \in Threads}

\* The server issues a token that nobody holds.
ServerToken(call, result, tk) ==
  IF result = "ok"
  THEN tk \in Tokens \ HeldTokens /\ tk.credentials = call.credentials
  ELSE tk = NoToken

\* DecrementSessionTokenInProgressCount
SessionTokenResponse(t, call, result, tk) ==
  /\ At(t, "idle")
  /\ session_state_change_count < MaxStateChanges
  /\ ServerToken(call, result, tk)
  /\ token_calls' = token_calls \ {call}
  /\ in_progress_session_token_requests' =
       in_progress_session_token_requests - 1
  /\ thread' = [thread EXCEPT
       ![t].pc = "snapshot", ![t].result = result, ![t].token = tk,
       ![t].credentials = call.credentials]
  /\ UNCHANGED <<stateVars, tokenVars, queueVars, connectionVars, failureVars,
                 status_calls, request, credential_calls>>

GetSessionState(t) ==
  /\ At(t, "snapshot")
  /\ thread' = [thread EXCEPT
       ![t].pc = "update_connection", ![t].state = session_state,
       ![t].count = session_state_change_count]
  /\ UNCHANGED <<lockerVars, request, credential_calls>>

TokenConnectionUpdate(t) ==
  /\ At(t, "update_connection")
  /\ UpdateConnectionState(thread[t].result)
  /\ Goto(t, IF thread[t].result = "ok" THEN "reset_failures" ELSE "failed")
  /\ UNCHANGED <<stateVars, tokenVars, queueVars, failureVars, callVars,
                 status_calls, request, credential_calls>>

\* IncrementFailureCount; expires_from_now cancels what waits on the timer,
\* except a wait that has fired already and is about to run.
IncrementFailureCount(t) ==
  /\ At(t, "failed")
  /\ failure_count' = Bump(failure_count, skProlongedFailureThreshold)
  /\ session_token_failure_timer' \in {0, session_token_failure_timer}
  /\ Goto(t, "judge")
  /\ UNCHANGED <<stateVars, tokenVars, queueVars, connectionVars, callVars,
                 status_calls, request, credential_calls>>

CredentialsRefused_AnyCredentials(th) ==
  /\ th.result = "credentials"
  /\ th.state.kind \notin {"Uninitialized", "CredentialsFailure"}

\* The state a failed get_session_token calls for, if it calls for one.
CredentialsRefused(th) ==
  /\ th.result = "credentials"
  /\ th.state.kind \notin {"Uninitialized", "CredentialsFailure"}
  /\ th.credentials = credentials

Prolonged(th) ==
  /\ th.result # "credentials"
  /\ \/ failure_count >= skProlongedFailureThreshold
     \/ th.result = "locked"
  /\ th.state.kind \in {"Initialized", "ProlongedError"}

\* GetCredenials, or GetFailureCount, and the decision
JudgeFailure(t) ==
  /\ At(t, "judge")
  /\ Goto(t, IF CredentialsRefused(thread[t]) \/ Prolonged(thread[t])
             THEN "set_failure" ELSE "arm")
  /\ UNCHANGED <<lockerVars, request, credential_calls>>

FailureState(th) ==
  IF th.result = "credentials" THEN CredentialsFailure(th.credentials)
                               ELSE ProlongedError(th.result)

SetFailureState(t) ==
  /\ At(t, "set_failure")
  /\ SetSessionStateSafe(FailureState(thread[t]), thread[t].count)
  /\ Goto(t, "arm")
  /\ UNCHANGED <<credentials, queueVars, connectionVars, failureVars,
                 callVars, status_calls, request, credential_calls>>

ArmFailureTimer_NotArmed(t) ==
  /\ At(t, "arm")
  /\ thread' = [thread EXCEPT ![t] = IdleThread]
  /\ UNCHANGED <<lockerVars, request, credential_calls>>

\* async_wait; a failed call does not end in AttemptRequests.
ArmFailureTimer(t) ==
  /\ At(t, "arm")
  /\ session_token_failure_timer' =
       Bump(session_token_failure_timer, MaxTimerWaits)
  /\ thread' = [thread EXCEPT ![t] = IdleThread]
  /\ UNCHANGED <<stateVars, tokenVars, queueVars, connectionVars,
                 failure_count, callVars, status_calls, request,
                 credential_calls>>

ResetFailureCount(t) ==
  /\ At(t, "reset_failures")
  /\ failure_count' = 0
  /\ Goto(t, "add_token")
  /\ UNCHANGED <<stateVars, tokenVars, queueVars, connectionVars,
                 session_token_failure_timer, callVars, status_calls, request,
                 credential_calls>>

\* AddSessionToken; only a token that was added may lead to Running.
AddToken(t) ==
  LET th == thread[t] IN
  /\ At(t, "add_token")
  /\ AddSessionToken(th.token)
  /\ IF /\ th.token.credentials = credentials
        /\ th.state.kind \notin {"Uninitialized", "Running"}
     THEN thread' = [thread EXCEPT ![t].pc = "set_running",
                                   ![t].token = NoToken]
     ELSE AttemptRequests(t)
  /\ UNCHANGED <<stateVars, queueVars, connectionVars, failureVars, callVars,
                 status_calls, request, credential_calls>>

SetRunning(t) ==
  /\ At(t, "set_running")
  /\ SetSessionStateSafe(Running(thread[t].credentials), thread[t].count)
  /\ AttemptRequests(t)
  /\ UNCHANGED <<credentials, queueVars, connectionVars, failureVars,
                 callVars, status_calls, request, credential_calls>>

TokenStep(t) ==
  \/ GetSessionState(t) \/ TokenConnectionUpdate(t)
  \/ IncrementFailureCount(t) \/ JudgeFailure(t) \/ SetFailureState(t)
  \/ ArmFailureTimer(t)
  \/ ResetFailureCount(t) \/ AddToken(t) \/ SetRunning(t)

----------------------------------------------------------------------------
(***************************************************************************)
(* Timers and the connection check.                                        *)
(***************************************************************************)

\* HandleSessionTokenFailureTimeout
SessionTokenFailureTimeout(t) ==
  /\ At(t, "idle")
  /\ session_token_failure_timer > 0
  /\ session_token_failure_timer' = session_token_failure_timer - 1
  /\ thread' = [thread EXCEPT ![t] =
       [IdleThread EXCEPT !.pc = "attempt", !.after = "force"]]
  /\ UNCHANGED <<stateVars, tokenVars, queueVars, connectionVars,
                 failure_count, callVars, status_calls, request,
                 credential_calls>>

\* HandleConnectionStateRecheckTimeout
ConnectionStateRecheckTimeout(t) ==
  /\ At(t, "idle")
  /\ connection_state_recheck_timer > 0
  /\ connection_state_recheck_timer' = connection_state_recheck_timer - 1
  /\ AttemptRequests(t)
  /\ UNCHANGED <<stateVars, tokenVars, queueVars, connection_state,
                 failureVars, callVars, status_calls, request,
                 credential_calls>>

\* HandleCheckConnectionStatusResponse
CheckConnectionStatusResponse(t, result) ==
  /\ At(t, "idle")
  /\ status_calls > 0
  /\ status_calls' = status_calls - 1
  /\ UpdateConnectionState(result)
  /\ Goto(t, "status_checked")
  /\ UNCHANGED <<stateVars, tokenVars, queueVars, failureVars, callVars,
                 request, credential_calls>>

StatusChecked(t) ==
  /\ At(t, "status_checked")
  /\ IF connection_state = "Connected" THEN AttemptRequests(t) ELSE Return(t)
  /\ UNCHANGED <<lockerVars, request, credential_calls>>

DelayedRequestTimeout_NotErased(t, r) ==
  /\ At(t, "idle")
  /\ r \in delayed_requests
  /\ AddWaitingRequest(r)
  /\ AttemptRequests(t)
  /\ UNCHANGED <<stateVars, tokenVars, in_progress_requests, connectionVars,
                 delayed_requests, failureVars, callVars, status_calls,
                 request, credential_calls>>

\* The event processor of delayed_requests_: AddWaitingRequest
DelayedRequestTimeout(t, r) ==
  /\ At(t, "idle")
  /\ r \in delayed_requests
  /\ delayed_requests' = delayed_requests \ {r}
  /\ AddWaitingRequest(r)
  /\ AttemptRequests(t)
  /\ UNCHANGED <<stateVars, tokenVars, in_progress_requests, connectionVars,
                 failureVars, callVars, status_calls, request,
                 credential_calls>>

\* max_retry_time_ passes.  It is read by handlers that an idle thread starts.
RetryTimePasses(r) ==
  /\ \E t \in Threads : At(t, "idle")
  /\ request[r].called /\ ~request[r].expired
  /\ request' = [request EXCEPT ![r].expired = TRUE]
  /\ UNCHANGED <<lockerVars, thread, credential_calls>>

(***************************************************************************)
(* HandleTimedOutRequest: a request still in its waiting queue is erased   *)
(* and failed.  Fail calls the callback of a request that was never        *)
(* inited; an inited one hands Fail on to its RequesterImpl, whose HTTP    *)
(* request is gone when the request is back in the queue.  The timeouts    *)
(* are not shorter than max_retry_time_.                                   *)
(***************************************************************************)
Erased(queue, r) ==
  { RemoveAt(queue, i) : i \in {j \in DOMAIN queue : queue[j] = r} }

Waiting(r) == r \in Range(waiting_st_requests) \cup Range(waiting_non_st_requests)

HandleTimedOutRequest_NotErased(t, r) ==
  /\ At(t, "idle")
  /\ time_out_requests[r] > 0 /\ request[r].expired
  /\ time_out_requests' = [time_out_requests EXCEPT ![r] = @ - 1]
  /\ request' = IF Waiting(r) /\ ~request[r].inited
                THEN [request EXCEPT ![r].completions = Bump(@, 2)]
                ELSE request
  /\ UNCHANGED <<stateVars, tokenVars, in_progress_requests, delayed_requests,
                 waiting_st_requests, waiting_non_st_requests, connectionVars,
                 failureVars, callVars, status_calls, thread,
                 credential_calls>>

HandleTimedOutRequest(t, r) ==
  /\ At(t, "idle")
  /\ time_out_requests[r] > 0 /\ request[r].expired
  /\ time_out_requests' = [time_out_requests EXCEPT ![r] = @ - 1]
  /\ IF r \in Range(waiting_st_requests)
     THEN waiting_st_requests' \in Erased(waiting_st_requests, r)
     ELSE UNCHANGED waiting_st_requests
  /\ IF r \in Range(waiting_non_st_requests)
     THEN waiting_non_st_requests' \in Erased(waiting_non_st_requests, r)
     ELSE UNCHANGED waiting_non_st_requests
  /\ request' = IF Waiting(r) /\ ~request[r].inited
                THEN [request EXCEPT ![r].completions = Bump(@, 2)]
                ELSE request
  /\ UNCHANGED <<stateVars, tokenVars, in_progress_requests, delayed_requests,
                 connectionVars, failureVars, callVars, status_calls, thread,
                 credential_calls>>

----------------------------------------------------------------------------
NewRequest == [called |-> FALSE, inited |-> FALSE, http |-> "none",
               expired |-> FALSE, cancelled |-> FALSE, completions |-> 0]

Init ==
  /\ session_state = Uninitialized
  /\ session_state_change_count = 0
  /\ connection_state = "Uninitialized"
  /\ credentials = NoCredentials
  /\ waiting_st_requests = <<>>
  /\ waiting_non_st_requests = <<>>
  /\ in_progress_requests = {}
  /\ checked_out_tokens = [r \in Requests |-> NoToken]
  /\ delayed_requests = {}
  /\ session_tokens = <<>>
  /\ in_progress_session_token_requests = 0
  /\ time_out_requests = [r \in Requests |-> 0]
  /\ failure_count = 0
  /\ session_token_failure_timer = 0
  /\ connection_state_recheck_timer = 0
  /\ request = [r \in Requests |-> NewRequest]
  /\ token_calls = {}
  /\ status_calls = 0
  /\ thread = [t \in Threads |-> IdleThread]
  /\ credential_calls = 0

SetLoginCredentialsAny(t) == \E c \in Credentials : SetLoginCredentials(t, c)
ApiResponseAny(t, r) ==
  \E result \in ApiResults \cup {"cancelled"} : ApiResponse(t, r, result)
SessionTokenResponseAny(t, call) ==
  \E result \in TokenResults, tk \in Tokens \cup {NoToken} :
    SessionTokenResponse(t, call, result, tk)
CheckConnectionStatusResponseAny(t) ==
  \E result \in {"ok", "connection"} : CheckConnectionStatusResponse(t, result)

ThreadStep(t) ==
  AttemptStep(t) \/ ApiStep(t) \/ TokenStep(t) \/ StatusChecked(t)

RequestEvent(t, r) ==
  \/ Call(t, r) \/ Cancel(t, r) \/ ApiResponseAny(t, r)
  \/ DelayedRequestTimeout(t, r) \/ HandleTimedOutRequest(t, r)

Next ==
  \/ \E t \in Threads :
       \/ ThreadStep(t)
       \/ SetLoginCredentialsAny(t)
       \/ SessionTokenFailureTimeout(t)
       \/ ConnectionStateRecheckTimeout(t)
       \/ CheckConnectionStatusResponseAny(t)
       \/ \E r \in Requests : RequestEvent(t, r)
       \/ \E call \in token_calls : SessionTokenResponseAny(t, call)
  \/ \E r \in Requests : RetryTimePasses(r)

Spec == Init /\ [][Next]_vars

(***************************************************************************)
(* Fairness.  A thread finishes the handler it is in.  An io_service runs  *)
(* its handlers in the order they were posted, so an event that keeps      *)
(* being ready is handled even while others are; every HTTP request ends,  *)
(* with IoTimeout if nothing else, and timers expire.  A request is either *)
(* on the wire or delayed (OnePlace), so one condition speaks of both, and *)
(* one of the two ends of its time, which follow each other.               *)
(***************************************************************************)
EventFairness ==
  /\ \A t \in Threads : WF_vars(ThreadStep(t))
  /\ \A r \in Requests :
       SF_vars(\E t \in Threads : ApiResponseAny(t, r) \/ DelayedRequestTimeout(t, r))
  /\ SF_vars(\E t \in Threads : SessionTokenFailureTimeout(t))
  /\ SF_vars(\E t \in Threads : ConnectionStateRecheckTimeout(t))

\* Time runs: the request timeouts and max_retry_time_ are reached.
TimeFairness ==
  \A r \in Requests :
    SF_vars(RetryTimePasses(r) \/ \E t \in Threads : HandleTimedOutRequest(t, r))

\* The server cooperates in the end: asked again and again, it grants a token,
\* answers a status call and serves a request.
ServerFairness ==
  /\ SF_vars(\E t \in Threads, call \in token_calls, tk \in Tokens :
               SessionTokenResponse(t, call, "ok", tk))
  /\ SF_vars(\E t \in Threads : CheckConnectionStatusResponse(t, "ok"))
  /\ \A r \in Requests : SF_vars(\E t \in Threads : ApiResponse(t, r, "ok"))

FairSpec == Spec /\ EventFairness

----------------------------------------------------------------------------
(***************************************************************************)
(* Properties.                                                             *)
(***************************************************************************)
PCs == {"idle", "attempt", "start_non_st", "add_non_st", "check_running",
        "start_st", "add_st", "need", "need_force", "get_credentials",
        "get_credentials_one", "try", "try_one", "callback", "remove",
        "retry", "release", "snapshot", "update_connection", "failed",
        "judge", "set_failure", "arm", "reset_failures", "add_token",
        "set_running", "status_checked"}

ThreadRecords ==
  [pc : PCs, request : Requests \cup {NoRequest},
   token : Tokens \cup {NoToken},
   credentials : Credentials \cup {NoCredentials},
   state : SessionStates, count : Nat,
   result : AllTokenResults \cup AllApiResults \cup {"cancelled", "none"},
   after : {"return", "force"}, finish : Requests \cup {NoRequest}]

\* Where a handler holds a token, works for get_session_token, or for a request.
TokenPCs == {"snapshot", "update_connection", "reset_failures", "add_token"}
AnswerPCs == TokenPCs \cup {"failed", "judge", "set_failure", "arm", "set_running"}
RequestPCs == {"add_non_st", "add_st", "remove", "retry", "release"}

\* The local variables a handler needs are set where it needs them, and a
\* token is held exactly from its pop (or its arrival) until it is stored.
LocalsOK(th) ==
  /\ th.pc \in RequestPCs => th.request \in Requests
  /\ th.pc = "add_st" => th.request \in STRequests
  /\ th.pc = "callback" => th.finish \in Requests
  /\ th.pc \in AnswerPCs \cup {"try", "try_one"} => th.credentials \in Credentials
  /\ th.pc \in AnswerPCs => th.result \in AllTokenResults
  /\ th.token \in Tokens <=> \/ th.pc = "add_st"
                             \/ th.pc \in TokenPCs /\ th.result = "ok"
  /\ th.pc \in {"reset_failures", "add_token"} => th.result = "ok"

ThreadStates == {th \in ThreadRecords : LocalsOK(th)}

RequestStates ==
  [called : BOOLEAN, inited : BOOLEAN, http : {"none", "live", "cancelling"},
   expired : BOOLEAN, cancelled : BOOLEAN, completions : 0..2]

\* The members of SessionMaintainerLocker and SessionMaintainer.
LockerOK ==
  /\ session_state \in SessionStates
  /\ session_state_change_count \in 0..(CountModulus - 1)
  /\ connection_state \in {"Uninitialized", "Unconnected", "Connected"}
  /\ credentials \in Credentials \cup {NoCredentials}
  /\ waiting_st_requests \in Seq(STRequests)
  /\ waiting_non_st_requests \in Seq(NonSTRequests)
  /\ in_progress_requests \subseteq Requests
  /\ checked_out_tokens \in [Requests -> Tokens \cup {NoToken}]
  /\ delayed_requests \subseteq Requests
  /\ session_tokens \in Seq(Tokens)
  /\ in_progress_session_token_requests \in Int
  /\ time_out_requests \in [Requests -> 0..MaxTimeOuts]
  /\ failure_count \in 0..skProlongedFailureThreshold
  /\ session_token_failure_timer \in 0..MaxTimerWaits
  /\ connection_state_recheck_timer \in 0..MaxTimerWaits

\* The shape of every variable: the locker's members as declared in
\* session_maintainer_locker.hpp, the calls on the wire and the threads.
TypeOK ==
  /\ LockerOK
  /\ request \in [Requests -> RequestStates]
  /\ token_calls \subseteq TokenCalls /\ IsFiniteSet(token_calls)
  /\ status_calls \in 0..MaxStatusCalls
  /\ thread \in [Threads -> ThreadStates]
  /\ credential_calls \in 0..MaxCredentialCalls

\* Threads between popping a token (or receiving one) and storing it.
Holders == {t \in Threads : thread[t].token # NoToken}

\* Every outstanding get_session_token call is counted exactly once, which is
\* what the assertion in DecrementSessionTokenInProgressCount relies on, and
\* the tokens stored, checked out, in a thread's hands or on their way never
\* exceed max_tokens by more than one per additional thread: the check in
\* StartRequestSessionToken cannot see a token another thread is holding.
TokenBudget ==
  /\ in_progress_session_token_requests = Cardinality(token_calls)
  /\ in_progress_session_token_requests <= max_in_progress_token_requests
  /\ in_progress_session_token_requests + TokensInUse + Cardinality(Holders)
       <= max_tokens + Cardinality(Threads) - 1

\* "We shouldn't go over the number of max tokens": the tokens stored, checked
\* out or asked for never exceed max_tokens.
TokenCap == in_progress_session_token_requests + TokensInUse <= max_tokens

\* No token is in two places: the assertions of AddSessionToken and ReuseToken
\* ("Check to ensure we aren't inserting more than one of these") never fail.
TokensDistinct ==
  /\ IsInjective(session_tokens)
  /\ \A r \in CheckedOut :
       /\ checked_out_tokens[r] \notin Range(session_tokens)
       /\ \A s \in CheckedOut :
            r # s => checked_out_tokens[r] # checked_out_tokens[s]
  /\ \A t \in Holders :
       /\ thread[t].token \notin Range(session_tokens)
       /\ \A u \in Holders : t # u => thread[t].token # thread[u].token
       /\ \A r \in CheckedOut : thread[t].token # checked_out_tokens[r]

\* What the user is told, and what requests are sent with, is about the
\* credentials the user set: CredentialsFailure and Running, set from an answer
\* that may be to a call made with earlier credentials, match credentials_, and
\* no token of earlier credentials is stored or checked out.
CredentialsMatch ==
  /\ session_state.kind \in {"CredentialsFailure", "Running"} =>
       session_state.credentials = credentials
  /\ \A tk \in Range(session_tokens) \cup {checked_out_tokens[r] : r \in CheckedOut} :
       tk.credentials = credentials

InHand(r) == \E t \in Threads : thread[t].request = r

\* A checked-out token belongs to a request that is on the wire (or whose
\* answer a thread is handling), so that it comes back some day: otherwise
\* StartRequestSessionToken counts it against max_tokens for ever.
NoTokenLeak ==
  \A r \in Requests :
    r \in CheckedOut \cup in_progress_requests =>
      request[r].http # "none" \/ InHand(r)

Times(queue, r) == Cardinality({i \in DOMAIN queue : queue[i] = r})
Places(r) ==
  Times(waiting_st_requests, r) + Times(waiting_non_st_requests, r)
    + Cardinality({s \in delayed_requests : s = r})
    + (IF request[r].http # "none" THEN 1 ELSE 0)

\* The callback is called at most once for a request the user never cancels.
AnsweredOnce ==
  \A r \in Requests : ~request[r].cancelled => request[r].completions <= 1

Lost(r) ==
  /\ request[r].called /\ request[r].completions = 0
  /\ Places(r) = 0
  /\ \A t \in Threads : thread[t].request # r /\ thread[t].finish # r

\* A request waits in one queue, waits out a delay or is on the wire, and never
\* two of these: it is neither started twice nor queued while it runs.  Until it
\* is answered it is in one of them; the only request that is dropped is a
\* session token request that was retried and whose timeout fired while it
\* waited again.
OnePlace ==
  \A r \in Requests :
    /\ Places(r) <= 1
    /\ Lost(r) => r \in STRequests /\ request[r].inited /\ request[r].expired

AllIdle == \A t \in Threads : At(t, "idle")

\* While the connection is down there is always a status call or a recheck
\* under way that can find it up again.
ReconnectPending ==
  AllIdle /\ connection_state = "Unconnected" =>
    connection_state_recheck_timer > 0 \/ status_calls > 0

\* "Can only proceed to ProlongedError from Initialized" (or re-emit it with
\* another error): a thread that read the state before another one moved it
\* to Running or CredentialsFailure must not overwrite that with an advisory.
ProlongedOnlyFromInitialized ==
  [][session_state' # session_state /\ session_state'.kind = "ProlongedError"
       => session_state.kind \in {"Initialized", "ProlongedError"}]_vars

\* "Always move to running if we have a good session token and we are not
\* uninitialized": when all handlers are done and tokens are stored, the state
\* is Running or something that may still move it there is pending.
GoodTokenRuns ==
  AllIdle /\ session_tokens # <<>> =>
    \/ session_state.kind = "Running"
    \/ token_calls # {}
    \/ session_token_failure_timer > 0

\* With the connection up, credentials set and not refused and all handlers
\* done, a session token request only waits while something that ends in another
\* attempt is pending: a call for a token, the failure timer, or a checked-out
\* token (which NoTokenLeak says comes back).
AttemptPending ==
  /\ AllIdle
  /\ connection_state # "Unconnected"
  /\ credentials # NoCredentials
  /\ session_state.kind # "CredentialsFailure"
  /\ waiting_st_requests # <<>>
  => \/ token_calls # {}
     \/ session_token_failure_timer > 0
     \/ CheckedOut # {}

\* No lost wakeup: whatever waits - a request for a token, a stored token for the
\* state Running, everything for the connection - waits for something that is
\* pending, although failures cancel timers and refuse calls.
NoLostWakeup == AttemptPending /\ GoodTokenRuns /\ ReconnectPending

\* If time runs, every call is answered, whatever the server does: queued
\* requests by their timeout, started ones by their response, also when they are
\* retried at once or after a delay; the one exception is a request that was
\* retried and whose timeout fired while it waited again.
CallAnswered ==
  TimeFairness => \A r \in Requests :
    request[r].called ~>
      \/ request[r].completions > 0
      \/ Lost(r) /\ request[r].inited /\ request[r].expired

\* If the server cooperates, a request is served or its retry time passes; it
\* never sits in a queue while the server would serve it: failed token calls,
\* a lost connection and requests ahead of it do not leave it stranded.
CallServed ==
  ServerFairness => \A r \in Requests :
    /\ request[r].called
    /\ r \in STRequests => credentials # NoCredentials
    ~> request[r].completions > 0 \/ request[r].expired
============================================================================
