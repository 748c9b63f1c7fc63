# TLA+ models of the MediaFire C++ SDK

This directory holds formal models of the SDK - its session maintainer, API
classes, HTTP requests, actions, uploader and timers - the configurations that
model-check them on small instances with TLC, and proofs, checked by TLAPS, of
what holds for every number of threads, requests, tokens, uploads and events.
Paths below are relative to `src/mediafire_sdk/`.

## 1. Inventory of the system

| Component | State | Operations | Interacts with |
|---|---|---|---|
| `api/session_maintainer.*`, `api/detail/session_maintainer_locker.*` | session and connection state, credentials, waiting / delayed / in-progress requests, session tokens stored and checked out, count of outstanding `get_session_token` calls, failure count, two asio timers, one timeout per queued request | `Call`, `SetLoginCredentials`, `AttemptRequests`, response handlers, timer handlers | request objects (callbacks), TimedEvents (delays, timeouts), HTTP requests, the user's io_service threads |
| `api/detail/session_maintainer_request.hpp`, `api/detail/requester_impl.hpp`, `api/requester.hpp` | whether the request was started, its HTTP request, its callback | `Init`, `Cancel`, `Fail`, `CallbackProxy` | called by the maintainer and, for `Cancel`, by the user |
| `utils/timed_events.hpp`, `utils/timed_actions.hpp` | ordered events, one asio timer, running flag | `Add`, `CancelAll`, `Stop`, `ResetTimer`, `HandleTimeout`, destructor | an event processor called without the lock; lifetime through `shared_from_this` |
| `uploader/` manager | queues to hash and to upload, counts of running hashings and uploads, the hashes being uploaded, the action token and its expiry | `Add`, `ModifyUpload`, `Tick`, action token response, callbacks of the state machines | one state machine per file; the SessionMaintainer |
| `uploader/detail/upload_state_machine.hpp` and its transitions | state of one file: hashing, waiting, check, instant / simple / chunk upload, poll, done | events posted by API answers, start signals, errors | manager callbacks, API calls |
| `uploader/hasher.cpp`, `uploader/detail/stepping.cpp`, chunk bitmap | hash contexts, file position; pure functions | hash a file chunk by chunk; unit size and chunk ranges of a file size | upload state machine |
| `http/` request state machine | state of the machine, socket, timer and the operation it guards (`race_preventer.hpp`), URL and policy, pipe of POST data, buffers of the answer | start, resolve, connect, proxy, handshake, send header and POST data, read header and content, redirect, cancel, time out, restart | callback interface of the requester; the strand and the work io_service |
| `api/actions/` | a coroutine per action, its chunk numbers, revisions, results and errors; `WorkManager`'s queue and list of work in progress | start, resume on an API answer, queue and execute work, cancel | SessionMaintainer; a work resumes the action that queued it |
| `api/*/` generated API classes, `api/detail/api_base.hpp`, `api/response_base.cpp` | the `Impl` of a request, shared by its copies: arguments, options, session token, callback | set an option, build URL and POST data, parse an answer | SessionMaintainer, RequesterImpl |
| `utils/` conversions, `http/url.cpp`, `http/http_config.cpp` | none or plain settings | pure functions | everywhere |

What is hard in it:

* **Several threads run the io_services.** The maintainer locks one mutex per
  locker method, and every handler is a sequence of such critical sections;
  what one section reads is stale in the next. A change count
  (`session_state_change_count_`) guards some of these, not all.
* **Answers come in any order**, also for credentials that were replaced, and
  before the thread that started the call has recorded it.
* **Retries, delays and timeouts overlap**: a request may be queued, delayed or
  on the wire when one of its several timeouts fires.
* **Progress depends on timers** which later failures cancel and set again.
* **The upload manager reserves places for events that it posts**, one upload per
  Tick, and state machines that are cancelled or fail meanwhile must give them
  back; what may start next depends on a Tick being posted.
* **An HTTP request races its timer** at every asynchronous step, and a timeout
  restarts it; handlers of operations run outside the strand of the machine.
* **The body of an answer arrives split anywhere** and may be cut off anywhere.
* **102 classes parse what a server sends**, value by value, with extractors that
  stop half way.
* **Coroutines resume each other on one stack**: a work that ends runs the action
  that queued it before its own completion handler.
* **Lifetime**: `TimedEvents` is destroyed when its last handler lets go of it.

What makes the components correct: the token pool stays within its limit and no
token is used twice; what the user is told is about the credentials the user
set; a request is in one place and is answered once; nothing waits without
something pending that will move it; an HTTP request is sent once per URL,
keeps its redirect policy and ends in exactly one answer; the content a callback
is given is what the server sent, and all of it; a response without an error is
complete; an attempt carries its own token and arguments; an action that reports
no error has everything it was asked for; the upload manager keeps its limits, loses
no place and runs one upload of a content at a time; a scheduled event is handed over exactly
once, not early, whatever is stopped or destroyed meanwhile.

## 2. Plan

Done:

1. `SessionMaintainer` with its requests; types and tokens for any number of threads.
2. `TimedEvents` and its abstract specification `Scheduler`; refinement proved.
3. `Uploader`: the manager with one state machine per file, one io thread; every
   safety property proved.
4. `HttpRequest` with its abstract specification `HttpExchange`, and `HttpContent`
   for the body of an answer; every safety property of both and the safety part of
   the refinement proved.
5. The API classes: tables of what each class parses, declares and sends
   (`ApiBilling` to `ApiUser`), interpreted by `ApiResponse` and `ApiRequest`; the
   three properties of each proved, for every class whose tables hang together.
6. `Actions`: the WorkManager and the action coroutines; `NothingLeft` and `WholeResult`
   proved for every tree and list of changes.
7. The queues of `SessionMaintainer`: `OnePlace`, `AnsweredOnce` and the recheck of
   the connection for any number of threads, `ProlongedOnlyFromInitialized` for any
   number of threads while the change count does not come round, and the
   properties that only one thread keeps (`NoTokenLeak`, `CredentialsMatch`,
   `NoLostWakeup`) for one thread.

Left:

8. Destruction of the SessionMaintainer (`StopTimeouts`, the destructor), and the
   pure algorithms of the uploader (`stepping.cpp`, the bitmap).

## 3. Modules

| Module | What it is |
|---|---|
| `SessionMaintainer` | the maintainer, its locker and its requests |
| `MCSessionMaintainer` | the same with the symmetry sets for TLC |
| `SessionMaintainerProofs` | type correctness, the token budget and the distinctness of tokens; the places and answers of requests, the recheck of the connection, what one thread keeps of tokens, credentials and wakeups, and `ProlongedError` |
| `Scheduler` | what `TimedEvents` promises |
| `TimedEvents` | the implementation, with its refinement mapping to `Scheduler` |
| `Uploader`, `MCUploader` | the upload manager and the state machine of each upload; TLC's instance |
| `UploaderProofs` | the types, limits, places, Ticks, hashes and polls of the uploader |
| `MCTimedEvents`, `TimedEventsProofs` | TLC's instance; the invariants and the refinement |
| `HttpExchange` | what an HTTP request promises to its callback interface |
| `HttpRequest`, `MCHttpRequest` | the state machine of an HTTP request, with its refinement mapping to `HttpExchange`; TLC's instance |
| `HttpRequestProofs` | the invariants of `HttpRequest` and the order of what it tells |
| `HttpContent`, `MCHttpContent` | how the body of an answer is read and passed on; TLC's instance |
| `HttpContentProofs` | what is delivered of a body, for every body and every way to read it |
| `ApiSteps` | the vocabulary in which the API classes are written down |
| `ApiBilling`, `ApiContact`, `ApiDevice`, `ApiFile`, `ApiFolder`, `ApiSystem`, `ApiUpload`, `ApiUser`, `ApiClasses` | the 102 classes, one table each for what they parse, declare and send; all of them by name |
| `ApiResponse`, `MCApiResponse` | what a class makes of an answer; TLC's instance |
| `ApiResponseProofs` | what reaches the callback of any answer: nothing unwritten, nothing lost, no failure hidden |
| `ApiRequest`, `MCApiRequest` | what a class sends and to whom the answer goes; TLC's instance |
| `ApiRequestProofs` | what is sent, with which token, and who is answered |
| `Actions`, `MCActions` | the WorkManager and the actions; TLC's instance |
| `ActionsProofs` | the places of works, the yields of `main`, and what its callback gets |

A definition whose name ends in `_` and a word (`ReuseToken_NotErased`) is a
faulty variant of the definition that follows it. No specification uses it; put
in the place of the right one it makes a property fail, which shows that the
property can fail.

### SessionMaintainer

Every method of `SessionMaintainerLocker` holds `mutex_` for its whole body, so
one action is one such method. A thread is a record with a program counter `pc`
and the local variables of the handler it runs; `pc = "idle"` is a thread that
may take the next event. With one thread a handler runs to its end before the
next event; with two, critical sections interleave as the mutex allows.

* State: the members of the locker under their own names; the pending waits of
  the two asio timers (`session_token_failure_timer`,
  `connection_state_recheck_timer`); the `get_session_token` calls
  (`token_calls`, with the credentials they were made with) and `get_status`
  calls on the wire; per request whether it was called, started (`inited`), has
  an HTTP request, is past `max_retry_time_`, was cancelled, and how often its
  callback was called.
* Public methods: `Call`, `SetLoginCredentials`, `Cancel`.
* `AttemptRequests`: `AttemptConnection`, `StartNonSTRequest`,
  `AddInProgressNonST`, `CheckRunning`, `StartSTRequest`, `AddInProgressST`,
  `RequestNeededSessionTokens`, `TryRequestSessionToken`, ...
* Answers to API requests (`ApiResponse` and the steps of `HandleCompletion`,
  `HandleRetry`, `HandleDelay`), to token calls (`SessionTokenResponse` and the
  steps of `HandleSessionTokenResponse`) and to status calls.
* Timers: the failure timer, the recheck timer, the delay of a request
  (`DelayedRequestTimeout`), the timeout of a request (`HandleTimedOutRequest`).

A token is the credentials it was obtained with and an identity; an answer is
one of the classes the code distinguishes (`ok`, bad credentials, account
locked, connection error, invalid token, asynchronous operation in progress,
other error).

### TimedEvents and Scheduler

An action of `TimedEvents` is one section under `mutex_` or one call of the
event processor, during which the mutex is free. `resets` counts posted
`ResetTimer` calls and completed waits, `cancelled` the events posted to the
processor with an error, `expiry` is what the pending wait of the one timer
waits for. The object lives while the user, a posted handler or the pending wait
refers to it. `Scheduler` knows only the clock, the pending events and the calls
of the processor; the refinement mapping is
`pending = data + events in a thread's hands + cancelled`, `doomed = cancelled`.

### Uploader

One thread runs the work io_service, as in the repository's programs. An action
is one handler of that io_service run to its end. The boost msm back end queues
an event that is raised while another one is handled and takes it before
`process_event` returns, and `ProcessEvent` dispatches at once on the io thread;
so a chain such as `StartHash`, `SetupHasher`, `OpenFile`, first read is one step.
A transition runs the exit of the old state, the action, the entry of the new
state, in this order; `DoChunkUpload` followed by `UploadChunkEntry` keeps it.

* `um` is the manager: its members under their own names, the posted Ticks
  (`ticks`) and start events (`starts`), the `get_action_token` calls on the wire,
  the retry timer's pending and completed wait, and whether
  `action_token_expires_` is in the future (`token_current`). A callback of the
  manager (`HandleAddToHash`, `HandleComplete`, `DecrementUploadingCount`, ...) is an
  operator from a manager to a manager; a handler is their composition.
* `up[r]` is the state machine of upload `r`: its state, its count state, the
  continuations that will call back into it (`pending`), the chunk states,
  whether it has an upload key, and how it ended.
* User: `Add` (the file may be missing or empty), `ModifyUpload` (cancel and pause
  are the same event), `Destroy` (when no handler refers to the manager).
* Manager: `TickHandler`, `HandleActionToken`, `ActionTokenRetry`.
* State machine: `StartHash`, `ReadNext`, `StartUpload`, `ErrorEvent`,
  `CheckResponse`, `InstantResponse`, `SimpleResponse`, `ChunkResponse`,
  `PollResponse`, `RetryPoll`.

Handlers that are ready run in any order. The one order that is kept is that the
error `Add` posts for a bad file comes before the start event that a later Tick
posts. An answer is a choice among the events the code derives from it. The
words of the bitmap are a set of chunks, and the random choice of the next chunk
is any chunk that needs to be uploaded.

The upload's hashing place is held until it starts to upload (`count_state`
changes from `Hashing` to `Uploading` directly), so files that wait for upload
occupy hashing places; the model keeps this.

### HttpRequest, HttpExchange and HttpContent

`HttpRequest` is the msm machine of `http_request_state_machine.hpp` with the
`state_*.hpp` it includes. An event raised while another one is handled waits in
`evq`, as in msm; an event that a handler dispatches waits in `strand`. A record of
`ops` is one asynchronous operation together with the wait of `timer_` that guards
it: both share a `RacePreventer` (`taken`), and the timeout id (`current`). With
`Threads = 2` the handler of an operation is two steps beside the strand (it tests
`IsFirst` and the flags, then it acts); with one thread a handler is one step.

* Every state has an `Enter...` action for its entry, every operation a handler
  that fails or goes on, every row of the table is a case of the machine's step;
  an event without a row is the fault "improper transition".
* `Cancel` may come at any time, time passes in `Tick`, a timer that is due runs
  before or after the operation it guards. A timeout restarts a request younger
  than its `timeout_seconds_`.
* A setup is a scheme, the kind of POST data, a redirect policy and two proxies.
* No number of redirects, restarts or reads is cut off. `attempt` is a number that
  nothing outstanding has, `hop` tells the first URL from later ones, `sent` counts the
  writes of the header since the last redirect, and `told.redirects` and
  `told.content` change with each redirect and each piece, so that none of them grows.
* `told` is what the callback interface has been told; `Exchange` maps it to
  `HttpExchange`: in order, and one answer for every request that was started.

`HttpContent` is `state_read_content.hpp` byte by byte: a body is a sequence of
tokens, each counted as one byte (bytes, a chunk's size line, CR, LF, a size line
that was cut), framed by a Content-Length, chunks or the end of the connection,
gzipped or not, over TLS or not, and the connection is closed, broken or left open
after any of its bytes. A read returns any number of tokens. `WellFramed` says what
the server puts on the wire: bytes only where nothing is chunked, and in chunks as many
bytes after a size line as it says, then the two that end the chunk. The server may stop
anywhere, send any line instead of a size line (`BadLine`, `CutLine`) and more or fewer
bytes than its Content-Length; `whole` holds at most when it does none of this.

### ApiSteps, the classes, ApiResponse and ApiRequest

The classes under `api/<group>/<call>/<version>` are generated by
`gen_api_template.py` and differ in their members only. Each is written down as
tables: the steps of `ParseResponse` and of each extractor in their order, the
members the header declares, the constructor, base and method of `Impl`, and the
parts of `GetPostData`. A step is one of the thirteen shapes the template produces
(a required value, an optional one, one with a default, an enum, a list, a
struct, an array, ...), so `ApiSteps` is what the generator does and the tables
are what it was given. Classes whose table equals another's refer to it.

`ApiResponse` runs the steps: the answer is revealed as it is read, every step
chooses whether its value can be had. An extractor is a frame that returns true or
false to the step that called it. `InitializeWithContent` is applied first.

`ApiRequest` is the life of one `Impl`: options are set, calls are made with copies
of the handle, an attempt gets a token, builds its message from the `Impl` and is
answered through `callback_`; a retried call is built anew. The queues and the pool
are those of `SessionMaintainer`; here a call takes any token no other call holds.
One object may be used for any number of calls. With `Overlap = FALSE` a call is made
when the one before is over, as `ut_session_maintainer.cpp:827` does from the
callback; with `LateSetters = FALSE` options are set at those times only. What the
earlier call left in the `Impl` - its callback, token, time and secret key - is still
there when the next is made.

### Actions

One action of the user (`main`: a clone of a folder tree, a poll of own or of
foreign changes) and the works it queues. `running` is the work whose coroutine is
on the stack; a work that returns calls the handler of `main`, which resumes
`main` above it, and `WorkCompletes` follows when `main` has yielded. `posted` is
the io_service's queue in order. `ExecuteWork` keeps its yield count: each yield is
answered by the callback of one work. `main` and the works are records with the
members the code has; a folder's chunks, pages of revisions (`Page` for 500) and
32-bit revisions (`Modulus`) are numbers. A request waits for a session token or is
sent (`AttemptRequests`), and is answered with or without an error, and a request that
has failed may fail for ever. One that is to be retried and whose timeout fires while
it waits again is lost (`RequestLost`): `HandleTimedOutRequest` takes it from the queue,
and `Fail` goes to an HTTP request that is over. This is what `CallAnswered` of
`SessionMaintainer` excepts.

A cancel of a request that has been sent is answered later. `Cancel` of one that
still waits calls the callback within `Cancel` (see `AnsweredOnce` above), in the
middle of the coroutine or of the loop over `in_progress_list_`; what follows is
undefined, and the model stops with the fault "cancelled too early".

## 4. Runs

Deadlock is not checked in any run but `api_response` (whose class answers for
ever): all of these systems may come to rest (no request left, no event left),
which is a legal end. An invariant that has parts with names of their own is
checked as their conjunction; the type invariants of the modules without a proof
of theirs are conjuncts of `NoFault`, `OnlyServerData`, `NothingLost`, `OwnToken` and
`NothingLeft`.

| Run | Shows |
|---|---|
| `session_one_thread` | One io thread, a request with and a cancellable one without a session token, two credentials, every class of answer: `NoTokenLeak`, `OnePlace`, `NoLostWakeup`, `CredentialsMatch`, `AnsweredOnce`. |
| `session_two_threads` | Two threads interleave: `TokenBudget`, `TokensDistinct`, `ProlongedOnlyFromInitialized`. |
| `session_liveness` | Two session token requests that are answered, retried at once (`invalid_token`) or after a delay (`async`), and time out: `CallAnswered` when time runs, `CallServed` when the server cooperates. A request that is dropped when its timeout fires after a retry occurs in the run; it is the one that `CallAnswered` excepts. |
| `timed_events` | Two io threads and two events: `TimerCoversData`, the refinement `Implements`, `EventHandled`. |
| `uploader` | Three uploads, two of the same content, one of those cancelled at any time, the third possibly in two chunks, any answers, destruction: `ConcurrencyLimit`, `NoSlotLeak`, `NoLostTick`, `NoHashLeak`, `PolledWhole`. |
| `uploader_liveness` | Two uploads of the same content through one hashing place, tokens that fail, expire and are asked for twice at once: `UploadEnds`. |
| `http_request` | Five kinds of request, direct and through proxies, with any number of redirects (http to https and back among them), restarts and reads, timeouts, a cancel, a pipe that throws: `SentOnce`, `NoFault`, `NeverUnguarded`, `NoLateAnswer`, `PolicyHeld`, and the refinement of `HttpExchange` with its liveness (`KeepsPromise`). |
| `http_content` | Every split of every small body, whole or cut off anywhere: `OnlyServerData`, `CompleteIsWhole`, `WholeIsAccepted`, `Ends`. |
| `api_response` | All 102 classes, any answer that lacks up to two values: `NoGarbage`, `NothingLost`, `FailureReported`. |
| `api_request` | All classes, three calls on two threads, two of them in turn with one object and the third with another, retried once, any one option: `SentAsMeant`, `OwnToken`, `OwnAnswer`. |
| `actions` | Two trees and four polls, one to three works at a time, requests of up to two works that fail, now and then or for ever, requests that are lost, a cancel at any time: `NothingLeft` (with `WorkLimit`), `WholeResult` (with `ErrorsPropagated`), `ActionEnds`. Each of the endless cases that `ActionEnds` excepts occurs: with any one of them taken out of `Endless` the run is violated. |
| `token_leak_two_threads` | Violated: a response handled before `AddInProgressRequest` leaves its token checked out for ever. |

### What the code does not keep

The run `token_leak_two_threads` shows a disagreement between the code and its
comment. The following are other places where the code does not do what it, or
its documentation, says. Each was met as a counterexample; the properties of the
passing runs except exactly these cases (or their instances leave them out), so
that they show there is no other. A changed constant, or the exception taken out
of the property, brings the counterexample back.

Session and uploader:

* `OnePlace` and `CallAnswered` except it: a retried request whose timeout fires while it
  waits again is erased and its callback never called, although `Call` promises a
  "Function called when the API request completes".
* `AnsweredOnce` is about requests that are not cancelled: `Cancel` before the
  first start calls the callback and leaves the request in its queue, `Cancel`
  after a timeout calls it a second time.
* `TokenBudget`: with two threads the limit on tokens can be exceeded by one (the
  tests say "We shouldn't go over the number of max tokens").
* `CredentialsMatch` fails with two threads: credentials replaced between
  the equality check and `SetSessionStateSafe`, while the state is `Initialized`,
  are reported as refused, since setting `Initialized` again is not counted.
* `GoodTokenRuns` (part of `NoLostWakeup`) fails with two threads: a good token
  and an account-locked answer handled at once leave `ProlongedError`, a stored
  token and nothing pending.
* In `CredentialsFailure` the forced token request is refused while a call made
  with the previous credentials is outstanding; when that one succeeds, nothing
  retries any more, although the comment in `RequestNeededSessionTokens` says so.
* `TimedEvents::Stop`: an event that another thread has taken out of the queue is
  fired after `Stop` has returned ("Safe to pass in this as we call Stop in DTOR").
* "Skip duplicate hashes": the cancel of an upload that waits as a duplicate
  erases the hash of the running one, and the next duplicate starts beside it
  (three uploads of one content).
* A file resumed with exactly one chunk missing ends in `LogicError`: the key its
  chunk brings is stored after `DoChunkUpload` has looked for it.
* A cancel or pause of a file that is being hashed is dropped: the hashing states
  have no transition for `Error` (in a debug build msm's `no_transition` asserts).
* An upload cancelled while it is polled goes on polling until the server is done
  with the file; the answers are ignored.

HTTP:

* `NoLateAnswer` with `Threads = 2`: a handler passes `IsFirst`, the timeout restarts
  the request in the strand, and the event the handler dispatches then is taken by
  the new attempt.
* `NoFault` with `Threads = 2`: `HandleProxyConnectWrite` goes on with the socket
  that a `Cancel` in the strand has dropped.
* `NoFault` with `PipeSize = 0`: `PostViaInterface` does not return after
  the pipe has thrown and raises `PostSent` as well.
* `RedirectHeaderReceived` is called before the policy is asked, so a denied
  redirect is announced though it is not "being followed".
* `Ends` and `KeepsPromise` except it: a connection closed before the Content-Length is
  read again for ever, and every read sets the timeout anew. `KeepsPromise` says
  that a request is answered unless it reads for ever or
* is redirected for ever: nothing limits the number of redirects.
* `OnlyServerData` excepts it: a chunk that the end of the connection cuts off is
  passed on at its full size, with bytes that were never written.

API classes:

* `NoGarbage` and `NothingLost` except it: an empty element of a required array
  makes `ParseResponse` return in the middle without an error ("error set
  already"): `system/get_info` succeeds with members never written,
  `file/get_links` loses the links that follow.
* `NothingLost` excepts it: a bitmap word of `upload/pre_upload` that cannot be read
  cuts the list off.
* `FailureReported` with "zero" in `ErrorFields`: a failure whose `response.error` is
  0 is delivered as a success.
* `OwnAnswer` with `Overlap = TRUE`: copies of a Request share `callback_`, and when a
  second call is made with an object whose first call is still in progress, the first
  answer goes to the second callback. (`OwnToken` fails as well: the token of the one
  call is sent by the other.)
* `SentAsMeant` with `LateSetters`: an option set while a call is in progress is sent by
  a retry.

Actions:

* `NothingLeft` and `WholeResult` are about `max_concurrent_work_ > 1`: with 1 the
  action is resumed while the work before is still in `in_progress_list_`, finds no
  room and goes on, its work queued for ever. `limit > 1` taken out of either
  property shows it.
* A tree of more than 101 folders is cut off without an error (in a debug build
  the assertion fails); `WholeResult` excepts it.
* `PollForeignChanges` looks for an error of get_info in the response, where it is
  not: the error is lost and an empty info delivered (`ErrorsPropagated`).
* `GetForeignChangesDevice` reports the start of the next page (500 when the latest
  revision is 7) as the latest revision, so that a poll from there misses changes;
  `WholeResult` claims the revision of own changes only.
* `latest_device_revision_` of `GetChangesDevice` is read uninitialised when
  get_status fails (`Garbage`); the error is reported, the revision is anything.
* `ActionEnds` excepts them (`Endless`): a folder whose chunks fail for ever is asked for
  chunk after chunk for ever; a poll of foreign changes whose requests fail for ever
  asks from page to page, past 2^32 and round again, as no page ends at 2^32 - 1, the
  revision it starts out to reach; a poll of own changes does the same when get_status
  failed and the garbage in `latest_device_revision_` is after the last page. A cancel
  ends these loops. And an action waits for ever for a request that SessionMaintainer
  has lost.
* The cancel of a request that waits for a token is undefined behaviour (see
  Actions above).

### Bounds

* One request with and one without a session token, two token calls at once and
  two credentials are the least that compete and can be confused; with two threads
  two session token requests compete for two tokens. The limits `max_tokens` and
  `max_in_progress_token_requests` are 1 or 2, so that they are reached.
* `skProlongedFailureThreshold` is 1 or 2 instead of 10: the failure count
  saturates there, and the code only compares it.
* `CountModulus` stands for 2^32. With one thread 2 is enough (a snapshot is
  never stale, so only "changed or not" matters). With two threads it is 64 and
  `MaxStateChanges` stops the answers before the count wraps: wrapping 2^32 changes
  while a thread is suspended is not a case the code is expected to meet.
* `MaxStatusCalls`, `MaxTimeOuts`, `MaxTimerWaits` saturate counters of
  identical pending things; one pending and several pending enable the same
  steps. `MaxCredentialCalls` bounds the user.
* Two-thread runs leave out classes of answers that one-thread runs cover.
* `timed_events`: two events at four times, two threads; the theorems cover the rest.
* `uploader`: three uploads with limits of two are the least in which one waits
  for a place and two are of the same content. `MaxTokenCalls`
  is 1 in the safety run and 2 in the liveness run, where
  a second request overtakes or follows the first. Two chunks tell "some left"
  from "none left". One cancel is pending at a time; a second one would find the
  state machine as the first left it.
* `http_request`: redirects, restarts and reads are not bounded. `StageTimeout = 1` and
  timeouts of 1 and 2 tell a request that is young enough to restart from one that
  is not. One cancel at any time and a pipe of two chunks, which
  tells "goes on" from "ends". Time stops while `MaxLate` timers wait to be handled, as
  an io_service that runs takes them.
* `http_content`: four bytes and a `ReadSize` of two give bodies shorter than, equal
  to and longer than a read and an announced length; two chunks and the last one.
* `api_response`: two values may lack in one answer and an array has up to two
  elements, so a bad one comes before and after a good one and inside a struct.
* `api_request`: two calls made in turn, a third beside them, two tokens and two attempts
  are the least in which an attempt can use what an earlier attempt, an earlier call
  of the same object or a call of another object has left behind.
* `actions`: trees of four and five folders around a loop limit of three. Pages of three
  revisions, 32-bit numbers that come round at 8: as with 500 and 2^32 no page ends at
  the last number and the pages after the first round start at other revisions.
  The last page ends at the latest revision or after it, and the garbage is 0, within
  the pages or after the last. One to three works at a time. `MaxFailing` lets
  the requests of two works, by kind, fail, each as often as it likes. `MaxChunk`
  is where chunk numbers stop growing: every chunk from there on is one that no folder
  has, so a folder that fails for ever goes on at it.

Symmetry is declared for requests (except cancellable ones), credentials, token
and call identities and threads in the safety runs, and not in the liveness runs.

### Fairness

* A thread finishes the handler it is in (`WF` of its next step): handlers do
  not block.
* An io_service runs what is posted to it, HTTP requests end (with a timeout if
  nothing else), timers fire: strong fairness per event, because the event is
  not enabled while the thread is busy with others, and the io_service takes
  handlers in the order they become ready. The answer to a request and the end of its
  delay are one condition, since a request is on the wire or delayed and never both
  (`OnePlace`): it leaves either place in the end, retried any number of times.
* `CallAnswered` additionally assumes that time reaches `max_retry_time_` and then the
  timeouts (`TimeFairness`) and nothing of the server. `CallServed` assumes that the server,
  asked again and again, grants a token, answers a status call and serves a
  request (`ServerFairness`), and nothing of the timeouts.
* `Uploader!FairSpec`: weak fairness of each posted handler and each answer; strong
  fairness of a granted token, of a poll that finds the file finished and of a
  read that ends the hashing: the token call and the poll are repeated for ever
  otherwise, and a file has an end. Without it the code does retry for ever.
* `TimedEvents!FairSpec`: weak fairness of the clock, the timer, each thread's
  next step and each posted handler; an unreferenced object is destroyed.

* `HttpRequest!FairSpec`: the machine handles its events, the strand and the
  io_service run what is ready, time passes. Nothing is assumed of the network: an
  operation that never ends is ended by its timer.
* `HttpContent!Spec`: the next read ends; the timer of `HttpRequest` sees to it.
* `Actions!FairSpec`: the io_service runs and comes to every handler that was posted
  (strong fairness, since others run in between), and SessionMaintainer ends every
  request that it has not lost, which is `CallAnswered` of `SessionMaintainer` with its
  exception. Nothing is assumed of the answers: they may be errors for ever.

## 5. Proofs

All theorems hold for every value of the constants that satisfies the named
assumptions: finite sets of requests, threads and events, at least one thread,
positive limits, special values outside the sets they stand beside. Where a
theorem has a hypothesis beyond these, it is named below with its reason. No
theorem bounds the number of requests, threads, tokens, uploads, redirects,
works, failures, or what an answer lacks and how long its arrays are, which the runs
must.

### SessionMaintainer

* `SessionMaintainerProofs!TypeCorrect`: `Spec => []TypeOK`. `TypeOK` contains
  `LocalsOK`, which relates a thread's local variables to its program counter
  (a token is held exactly between its pop or arrival and the place where it is
  stored); without it no step that uses a local variable could be typed.
* `SessionMaintainerProofs!BudgetKeptForever`: `Spec => []TokenBudget`. `TokenBudget`
  is inductive together with `TypeOK`. The proof classifies the steps: `Quiet`
  steps keep the pool or clear it, and six `TokenMove` steps move a token between
  the call, the thread, the pool and a request. Only `TryRequestSessionToken`
  increases the sum; its guard bounds what it sees, and what it does not see is
  held by the other threads, one token each.
* `SessionMaintainerProofs!OneThreadCap`: with one thread, `TokenCap`.
* `SessionMaintainerProofs!TokensAlwaysDistinct`: `Spec => []TokensDistinct`, along the
  same classification; it rests on the server issuing a token that is not in use.
* `SessionMaintainerProofs!RequestInOnePlace` and `RequestAnsweredOnce`, for any number of
  threads: `Spec => []OnePlace` and `Spec => []AnsweredOnce`. Neither is inductive:
  a request leaves its queue before it is on the wire and the wire before it is
  queued again, and in between only a thread knows of it. `QueueInv` therefore
  counts the threads among the places: `PlaceOK` says that the waiting queues, the
  wire, the delay, a thread that handles the answer and a thread that owes the
  callback exclude each other, and that there is one such thread; `AnswerOK` what
  can still happen to a request that was never called, was answered, or was not
  yet; `FinishOK` where a thread that owes a callback can be.
* `ReconnectAlwaysPending`, for any number of threads: the third part of
  `NoLostWakeup`, from `ReconnectInv`: whoever sets the connection to uninitialized
  still has the status call or the recheck ahead of it, or has made it.
* `OnlyFromInitialized`, for any number of threads:
  `NoWrap => (Spec => []ProlongedOnlyFromInitialized)`, where the action property is
  that of the run. `SnapshotInv` says that a thread's snapshot of the change count
  is not ahead of the count, and that equal counts mean an equal state. The
  hypothesis `NoWrap` is that the bounds allow fewer changes than `CountModulus`, so
  that the count does not come round: the real one is a `uint32_t`, and 2^32 changes
  while a thread is between two critical sections are not expected.
* `NoTokenLeaks`, `CredentialsAlwaysMatch` and `NoWakeupLost`, with one thread:
  `Spec => []NoTokenLeak`, `[]CredentialsMatch` and `[]NoLostWakeup`. One thread is a
  hypothesis the code needs: the run `token_leak_two_threads` refutes the first
  with two, and section 4 names the interleavings that break the others. The
  invariants (`LeakInv`, `CredentialsInv`, `WakeInv`) hold in the middle of a
  handler as well, so they say what the one thread holds at each program counter
  and which of the attempts it still owes. `WakeInv` is the longest: for a request
  that waits, a token that is stored and a connection that is down it names what
  is pending (an attempt ahead, a token call, a timer, a request on the wire whose
  answer attempts again).

### TimedEvents

* `TimedEventsProofs!TimerAlwaysCovers`: `Spec => []TimerCoversData`, from
  `IInv = TypeOK /\ Places /\ Due /\ TimerCoversData`: an event is in one place,
  and a handler's clock reading is not in the future and not before the time of
  the event it holds.
* `TimedEventsProofs!Refinement`: `Spec => Implements`. Each step maps to a step of
  `Scheduler` or changes none of its variables; `Places` shows that an event is
  handed over once, `Due` that it is not early.

### Uploader

* `UploaderProofs!TypeCorrect`, `LimitsHold` and `NoPlaceLost`: `Spec => []TypeOK`,
  `Spec => []ConcurrencyLimit` and `Spec => []NoSlotLeak`, all from
  `PlacesInvariant`: `Spec => []IInv`. None of the three is inductive: a counter
  is right only if every state machine gives back exactly what it took, and a
  reserved place is taken only if its start event is neither lost nor taken
  twice. `IInv` therefore says of every upload where it is (`PlacesOf`): in a
  queue of the manager exactly in the queue's state and then with no start event
  posted, with a reserved place exactly while its start event will be taken, with
  no start event ahead of its state; that the queues hold an upload once
  (otherwise the erase of one entry would leave another); and that the count
  state follows the state (`UploadOK`; a file keeps its hashing place while it
  waits in `to_upload_`). The operators of the model take a manager to a manager,
  so the lemmas are about a pair of a manager and its uploads (`InvOf(m, u)`), one
  for each move of an upload (`TakeHashInv`, `HashedInv`, `TakeUploadInv`,
  `CompleteInv`, ...) and each half of `Tick`; a handler is their composition.
  Only the erase from a queue, the search in `to_upload_` and the slots that
  `Tick` fills need facts on sequences, which come first in the module.
* `NoTickForgotten`, `NoHashKept` and `PolledOnlyWhole`: `Spec => []NoLostTick`,
  `[]NoHashLeak` and `[]PolledWhole`, all from `WaitsInvariant`, which puts `WaitInv`
  beside `IInv`. `WakeOK` is that a Tick is posted whenever one could start something
  (`HashWaits`, `UploadWaits`), or that something which posts one is pending
  (`RetryArmed`). Every callback of the manager except the two increments posts a
  Tick, so it establishes `WakeOK` whatever it changed, and the Tick itself leaves
  either nothing to start or a start event for the last place it filled.
  `HashesOK`: every entry of `uploading_hashes` is the hash of an upload that runs or
  has a start event. `KeyOK`: only a chunk upload is given a key, and one that is
  polled with a key has all its chunks.

### HttpRequest

The hypothesis `Threads = 1` is what the repository's programs do (one thread runs
the io_service); section 4 names what two threads break.

* `SendsOnce`, `AlwaysGuarded`, `AnswersInTime`, `KeepsPolicy`: `Spec => []SentOnce`,
  `[]NeverUnguarded`, `[]NoLateAnswer`, `[]PolicyHeld`. All rest on one `IInv`, whose
  heart is a partition of the reachable states: the machine was not started, it
  waits and one operation with the current id is alive and guarded, it has
  exactly one event to handle, it handles a timeout, or it has ended. Which it is
  follows from `evq`, `strand` and `ops` together (`Placed`, `Guarded`). About an
  operation `IInv` says what its timer, its `RacePreventer` and its id can be at the
  same time (`TimerOK`, `HandlerOK`), and that only one is alive (`OneCurrent`):
  leaving a state cancels what the state started, so an answer that comes later
  is aborted or has lost the race. Three of the four properties are one more
  conjunct that every entry of a state keeps.
* `PolicyHeld` speaks of two moments: whenever an https URL was asked under
  DenyDowngrade, be it after a redirect from http, every later connection is secure.
  The proof of `KeepsPolicy` therefore has, besides `IInv`, a predicate that holds from
  the first https URL on and that every step keeps: `Secured`, the URL is not a plain
  one (`SecuredStep`). Only a redirect changes the URL, and it reads `is_ssl_`, which by
  `SchemeOK` is that of the URL whenever a redirect can be met.
* `NeverFaults`: `Spec => []NoFault` under `PipeSize # 0 \/ ~PipeThrows` in addition;
  an empty pipe that throws is the fault of section 4.
* `TellsInOrder`: the initial state and every step of `HttpRequest` are those of
  `HttpExchange` under the refinement mapping, or tell nothing
  (`Spec => Exchange!Order`). `KeepsPromise`, which the run checks, also says that an
  answer comes in the end; that is left to TLC.

### HttpContent

* `HttpContentProofs!OnlyTheServersData`, `CompletedIsWhole` and
  `WholeBodyIsAccepted`: `Spec => []OnlyServerData`, `[]CompleteIsWhole` and
  `[]WholeIsAccepted`, for every set of well framed bodies and every read size: no
  bound on the length of a body, the number of its chunks or of the reads. None is
  inductive. `ContentInv` adds where the read stands: `Placed` says that the buffer
  and what the socket still gives are the wire after its first `Reached` tokens,
  and `Underway` that what was passed on (or kept to be unzipped) is the bytes
  among those (`BytesTo`), or else that a chunk was cut off, nothing is left and
  the next line ends the request in an error (`Lost`). `AtStep` relates the step to
  the wire: a chunk is read where the last token was its size line, and a whole body
  has a size line where one is read.
* Deliveries and the bytes of the wire are concatenations (`FlattenSeq`), and facts
  about them need induction over their length. `LeastNumber` gives it without an
  operator parameter, from the library's `WFMin`: what fails for some number fails
  for a least one. `FlattenAppend` (one more piece goes to the end), `BytesRun` (a run
  of bytes is passed on whole), `BytesSkip` (size lines and line ends add nothing)
  and `BytesToPrefix` follow in this way; `PlacedRead` and `PlacedConsume` are about
  the buffer.

### ApiResponse

The theorems are about every class whose tables hang together, not about the 102
tables: `TablesAssumption` says what the generator sees to in each (a step sets a
declared member, a branch goes to the extractor of a struct, only `ParseResponse`
reads arrays of structs, a plain member is set by a step that does not pass without
it). An answer may lack any number of values and its arrays have any length.

* `ResponseHasNoGarbage`: `Spec => []NoGarbage`.
* `ResponseLosesNothing`: `Spec => []NothingLost`, the types included. Its second part
  needs that no element is counted twice or skipped while extractors end early.
* `ResponseReportsFailure`: `Spec => []FailureReported` if no failure has the code 0
  (`"zero" \notin ErrorFields`). The code is put into a `std::error_code`, and one
  with the value 0 tests false: `error_code` tells of no failure (section 4). The run
  leaves this answer out as well.

What a callback gets depends on how every function on the stack has come to where it
is, so the three properties are not inductive. `ResponseInv` (checked by TLC on the run
`api_response` before it was proved) says it of each function:

* `FrameOK`: a function has written the members of all steps it has passed that it
  cannot pass without them (`Firm`), and holds elements only at the array they are of.
* `Stack`: `ParseResponse` is at the bottom, and every function above it was called by
  the step that the one below is at (`Awaits`).
* `Recorded`: every empty element that is still to come counts as lacking.
* `Answered`: an extractor returns true with its plain members written, and false only
  with an error or for a branch that is empty.
* `Books`: what was pushed and what is still to be read never exceed what the arrays
  offered, and are equal to it but for an error and the two exceptions of
  `NothingLost`.
* `Whole`: a `ParseResponse` that has ended left an error, a required array with an
  empty element, or all plain members; and an error in an answer that reports success
  has its reason in `lacking`.

The proof takes the state apart into operators of its values (the class, the stack,
what is lacking, the error), so that the steps share lemmas: a function goes on
(`StepsOn`), stops with an error (`FailsOut`), calls an extractor (`Calls`), finds an
empty branch (`FindsEmpty`) or reads the next element (`ElementsNext`). Each action
then is one of these. `Trusted` (a refused answer is an error) is an invariant beside
it, and the only one that needs the hypothesis on the code 0.

### ApiRequest

* `CarriesOwnToken` and `AnswersOwnCall`: `Spec => []OwnToken` and `Spec => OwnAnswer`
  under `~Overlap`, the calls made with one object follow each other; when they
  overlap the first answer reaches the second callback (section 4). Nothing in the
  code sees to this, and nothing clears what a call leaves in the Impl, so `CallInv` says
  of an object with a call in progress that the call is the only one (`Alone`), and
  that the Impl's callback and token are those of this call from `SetSessionToken` and
  `Init` on, whatever they were before (`Answerable`, `Lent`, `Carried`). `OwnAnswer` is about a step:
  what the answer ends is looked up in the shared Impl, and it is the call on the wire
  (`AnswerIsOwn`).
* `SendsAsMeant`: `Spec => []SentAsMeant` under `~LateSetters`, no option set while a call
  with the object is in progress; calls may overlap. What is proved is the dynamics:
  an attempt is built anew from a shared Impl and yet sends what the Impl held at the
  call, of whichever call the callback is (`CallbackMeant`). That the
  parts of each class are its members, one for one, is a fact about 102 tables:
  `PartsAssumption`, which TLC evaluates for all of them in every run.

### Actions

* `NothingIsLeft`: `Spec => []NothingLeft`, from `PlacesAndYields`: `Spec => []IInv`. The
  assumption on the data is `IsTree`: the root is in no folder, every other folder
  in at most one, and every folder can be reached from the root. `NothingLeft` says of the moment in which `main` is answered that nothing
  is queued or in progress; to get there `IInv` follows the works all the way.
  `RequestsOK`: a work waits for as many answers as it has requests outstanding,
  one of each kind. `Lists`: the queue, `in_progress_list_` and the posted handlers
  hold each work once and as its state says. `Keys`: the folders or changes that
  are still to be queued were not queued before, so a work is never started
  twice. `Stack`: the yields `main` owes are the works whose callback is still to
  come, also while one of them runs above `main` on the stack. `Room`: a work that
  waits in the queue will find a place when a work under way ends, or a cancel is
  posted ahead of everything under way and will drop it (`Fenced`). The last is
  false for `max_concurrent_work_ = 1`, as the code is (section 4).
* `FailuresAreReported`: `Spec => []ErrorsPropagated`, the first half of `WholeResult`,
  from `ErrorsInv`: a failure is kept by its work, the work is under way or over, and
  what is over was passed to `main`. The step that could lose an error is the first
  work of a poll, which assigns `main`'s errors instead of adding to them; it loses
  none because it is alone (`ChangesFirst`, `FirstWorkAlone`).
* `ResultIsWhole`: `RevisionsFit => (Spec => []WholeResult)`: an action that ended, was
  not cancelled and reports no error has every chunk of every folder, or every change
  and its info. It needs all of `IInv`, since what `main` has is whole only when
  nothing is queued or under way, and on top of it `ResultInv`, which follows the data:
  `AllChunks` (a work without errors has got the chunks before the one it asks for
  next, whatever order the answers come in), `ContentsKnown` (a folder found in an
  answer of a work that is over was queued or is among `main`'s keys), `Counted` (the
  loop stops early only for a tree larger than its limit), `PagesGot` (the changes up
  to the revision asked from next), `ChangesKnown` and `InfoKnown` (each change has its
  work, each work its info). A step is either one in which neither works nor `main`
  get anything (`AllWait`: seven of the actions) or one of `MakeCalls`,
  `HandleResponse`, `WorkReturns` and the two bodies, with a lemma each. That every
  folder is reached follows from the last part of `IsTree`, applied to the set of
  works that are over. The hypothesis `RevisionsFit` says that the revisions, and the
  page after the last, stay below `Modulus`: the code adds to a `uint32_t`, and a
  revision that comes round would be asked from again or be taken for the end. No
  device has 2^32 changes; the run's instance satisfies the hypothesis. Like
  `WholeResult` itself the theorem excepts `max_concurrent_work_ = 1`, cancelled
  actions and trees larger than the limit of the loop.

### Only model-checked

* All liveness properties: `CallAnswered`, `CallServed`, `EventHandled`, `UploadEnds`,
  `Ends`, `ActionEnds`, and the answer in `KeepsPromise`. The prover has no rules for
  fairness and `ENABLED`.
* That each of the 102 classes satisfies `TablesAssumption` and `PartsAssumption`: facts
  about given tables, which TLC evaluates in the runs `api_response` and `api_request`.
* That the one-thread properties of the session fail with two threads
  (`token_leak_two_threads`): a counterexample is an instance.

## 6. Not modelled

* Destruction of the SessionMaintainer, the user's state-change callbacks, and
  the secret key and time inside a token (no decision depends on them).
* Data races inside asio timers that are used by several threads without a lock:
  `expires_from_now` and `async_wait` have their effect as separate steps, but no
  torn outcomes.
* Of the API classes the JSON paths, the conversions of values and the strings of
  enums and URLs; the models tell apart whether a value can be had. The
  hand-written `user/get_session_token` is part of `SessionMaintainer`.
* The text of URLs and headers, TLS verification and the accounting of bandwidth
  in the HTTP request; no step depends on them. Sizes of chunks near 2^64.
* Several actions that share one WorkManager (each would be resumed by the works
  of the other) and several io threads under the actions.
* Several io threads under the uploader: the manager and the hasher call
  `process_event` outside the strand the other events of a state machine run in,
  and msm gives concurrent calls no meaning.
* Of the uploader also the status callbacks, URLs and headers, and its pure
  algorithms: the chunk ranges of `stepping.cpp` (the offset of a chunk is put into
  an int and is negative from 2 GiB on, `transition_upload.hpp:515`) and the words of
  the bitmap (`UpdateBitmap`, which nothing calls). They are functions of one number;
  the model needs only which chunks there are.
* Pure conversions, URL parsing, HTTP configuration and the example program.
