---------------------------- MODULE HttpRequest -----------------------------
(***************************************************************************)
(* One HTTP request: the state machine of                                  *)
(* http/detail/http_request_state_machine.hpp and of the state_*.hpp files *)
(* it includes, with its timeout timer, its delay timer and the handlers   *)
(* of its asynchronous operations.                                         *)
(*                                                                         *)
(* Events that the state machine raises while it handles another one wait  *)
(* in `evq', the queue of boost::msm; events dispatched to event_strand_   *)
(* by another handler wait in `strand'.  Timer handlers run in the strand; *)
(* the handlers of asynchronous operations do not, and run beside it when  *)
(* the work io_service has a second thread.  Such a handler is two steps:  *)
(* it reads the flags that can stop it, and then it acts.                  *)
(*                                                                         *)
(* Every asynchronous operation is guarded by the timer and shares a       *)
(* RacePreventer with the timer's handler, so the two are one record of    *)
(* `ops'.  What the body of an answer looks like is left to HttpContent.   *)
(***************************************************************************)
EXTENDS Integers, Sequences, FiniteSets, Functions

CONSTANTS
    Threads,        \* how many threads run the work io_service
    StageTimeout,   \* timeouts.hpp: to resolve, to connect, to shake hands
    Timeouts,       \* the values timeout_seconds_ can be given
    Setups,         \* the requests and configurations that are tried
    PipeSize,       \* PostDataSize() of a pipe, in chunks
    PipeThrows,     \* whether the pipe may throw
    MaxCancels,     \* bound: calls of Cancel
    MaxLate         \* bound: time stops while so many timers wait to be handled

ASSUME HttpRequestAssumption ==
    /\ Threads \in {1, 2}
    /\ StageTimeout \in Nat \ {0}
    /\ Timeouts \subseteq Nat \ {0}
    /\ PipeSize \in Nat
    /\ PipeThrows \in BOOLEAN
    /\ MaxCancels \in Nat
    /\ MaxLate \in Nat \ {0}

Schemes == {"http", "https", "other", "invalid"}

\* The target, POST data and policy a request is made with, and the two
\* proxies of its HttpConfig.
ASSUME SetupsAssumption ==
    Setups \subseteq [scheme: Schemes, post: {"none", "buffer", "pipe"},
                      policy: {"Allow", "DenyDowngrade", "Deny"},
                      http_proxy: {"none", "open", "login"},
                      https_proxy: {"none", "open", "login"}]

VARIABLES
    setup,      \* what the request was created and configured with
    timeout,    \* timeout_seconds_
    state,      \* the state of the machine
    evq,        \* events raised and not yet handled, in order
    strand,     \* events dispatched to event_strand_
    ops,        \* asynchronous operations by number, each with the wait of timer_
    delay,      \* transmission_delay_timer_
    socket,     \* whether socket_wrapper_ holds a socket
    scheme,     \* scheme of the URL that is asked now
    is_ssl,     \* is_ssl_
    hop,        \* 0 at the first URL, 1 when a redirect was followed
    attempt,    \* the number of this attempt, that nothing outstanding has
    age,        \* time since request_creation_time_, while it matters
    pipe,       \* chunks left in the pipe, chunks read in this state
    cancels,    \* calls of Cancel so far
    told,       \* what the callback has been told; redirects and content change
                \* with each redirect and each piece
    sent,       \* how often the header was written since the last redirect
    faults      \* assertions and null pointers that were met

vars == <<setup, timeout, state, evq, strand, ops, delay, socket, scheme,
          is_ssl, hop, attempt, age, pipe, cancels, told, sent, faults>>

-----------------------------------------------------------------------------
(* Types *)

Ended == {"FinalError", "Complete"}

\* The states in which the machine waits for an operation.
Waiting == {"Resolve", "Connect", "ProxyConnect", "SSLHandshake",
            "SendHeader", "SendPost", "ReadHeaders", "ReadContent"}

States == Waiting \cup Ended \cup
          {"Unstarted", "Initializing", "ParseHeaders", "Redirect", "Error"}

Kinds == {"resolve", "connect", "proxy_write", "proxy_read", "handshake",
          "header", "post", "read_headers", "read_content"}

\* Outcomes of an operation.  The header of an answer is malformed, a
\* redirect (known by the scheme of its Location, or without one) or the
\* start of a body; a read of a body brings more of it, ends it or finds it
\* malformed.
Results == Schemes \cup {"ok", "failed", "malformed", "no_location", "more"}

\* The events that carry an answer name the attempt that asked.
Events ==
    [ev: {"Start", "Restart", "Initialized", "Redirected", "Resolved",
          "Connected", "Handshake", "HeadersWritten", "PostSent",
          "HeadersRead", "HeadersParsed", "Redirect", "ContentRead",
          "Error"},
     of: Nat, what: Results \cup {"IoTimeout", "none"}]

Ops ==
    [kind: Kinds, of: Nat,
     cancelled: BOOLEAN,    \* cancelled of the state data it was given
     taken: BOOLEAN,        \* first_taken_ of the RacePreventer
     handler: {"waiting", "running", "done"},
     result: Results,       \* what the running handler was called with
     timer: {"armed", "fired", "aborted", "running", "done"},
     left: Nat,             \* time until the timer expires
     timer_first: BOOLEAN,  \* what the timer's handler read
     current: BOOLEAN]      \* whether its id is still timeout_id_

TypeOK ==
    /\ setup \in Setups
    /\ timeout \in Timeouts
    /\ state \in States
    /\ evq \in Seq(Events)
    /\ strand \in Seq(Events)
    /\ IsFiniteSet(DOMAIN ops) /\ ops \in [DOMAIN ops -> Ops]
    /\ delay \in [waiting: BOOLEAN, cancelled: BOOLEAN, enabled: BOOLEAN]
    /\ socket \in BOOLEAN
    /\ scheme \in Schemes
    /\ is_ssl \in BOOLEAN
    /\ hop \in {0, 1}
    /\ attempt \in Nat
    /\ age \in Nat
    /\ pipe \in [left: 0..PipeSize, read: 0..PipeSize]
    /\ cancels \in Nat
    /\ told \in [redirects: {0, 1}, headers: Nat, content: {0, 1},
                 errors: Nat, completes: Nat]
    /\ sent \in Nat
    /\ faults \subseteq {"improper transition", "null socket"}

-----------------------------------------------------------------------------
(* The timeout timer and the operations it guards *)

Event(e, what) == [ev |-> e, of |-> attempt, what |-> what]

ErrorEvent(what) == Event("Error", what)

\* ClearAsyncTimeout: no id matches any more, and a wait that has not
\* expired is aborted.  Its handler only takes the RacePreventer, so when
\* that is taken already the wait is over.
ClearAsyncTimeout(q) ==
    [i \in DOMAIN q |->
        IF q[i].current
        THEN [q[i] EXCEPT !.current = FALSE,
                          !.timer = IF @ # "armed" THEN @
                                    ELSE IF q[i].taken THEN "done"
                                    ELSE "aborted"]
        ELSE q[i]]

\* An operation, the wait that guards it and the RacePreventer they share.
NewOp(kind, seconds, stopped) ==
    [kind |-> kind, of |-> attempt, cancelled |-> stopped,
     taken |-> FALSE, handler |-> "waiting", result |-> "ok",
     timer |-> "armed", left |-> seconds,
     timer_first |-> FALSE, current |-> TRUE]

\* A number that is not in use.
FreeNumber(used) == CHOOSE n \in 1 .. Cardinality(used) + 1 : n \notin used

AddOp(q, o) ==
    [n \in DOMAIN q \cup {FreeNumber(DOMAIN q)} |->
        IF n \in DOMAIN q THEN q[n] ELSE o]

\* A faulty SetAsyncTimeout: the old wait is cleared after the new one is set.
SetAsyncTimeout_Order(q, kind, seconds, stopped) ==
    ClearAsyncTimeout(AddOp(q, NewOp(kind, seconds, stopped)))

\* SetAsyncTimeout, and the operation started under it.
SetAsyncTimeout(q, kind, seconds, stopped) ==
    AddOp(ClearAsyncTimeout(q), NewOp(kind, seconds, stopped))

\* What an operation was no longer matters when its handler has returned and
\* its state was left.
KindLeft(o) == IF o.handler = "done" THEN "resolve" ELSE o.kind

\* on_exit of every state that waits: state_data_->cancelled = true.
ExitState(q) ==
    [i \in DOMAIN q |->
        [q[i] EXCEPT !.cancelled = TRUE, !.kind = KindLeft(q[i])]]

\* A record goes when both of its handlers have run.
Outstanding(q) ==
    Restrict(q, {n \in DOMAIN q : q[n].handler # "done" \/ q[n].timer # "done"})

\* A handler returns, and what it read is forgotten.
HandlerDone(o) ==
    [o EXCEPT !.taken = TRUE, !.handler = "done", !.result = "ok"]

\* The socket that the operation is started on.
UseSocket ==
    faults' = IF socket THEN faults ELSE faults \cup {"null socket"}

StrandHeld == evq # <<>> \/ \E i \in DOMAIN ops : ops[i].timer = "running"

Running == {i \in DOMAIN ops : ops[i].handler = "running"}

\* A thread is there for a new handler of an operation, for the strand.
HandlerMayRun ==
    Cardinality(Running) + (IF StrandHeld \/ strand # <<>> THEN 1 ELSE 0)
        < Threads

StrandMayRun == ~StrandHeld /\ Cardinality(Running) < Threads

-----------------------------------------------------------------------------
(* The rows of the transition table, each with the entry of its target *)

Handles(from, ev) == evq # <<>> /\ state \in from /\ Head(evq).ev = ev

Raise(e) == evq' = Append(Tail(evq), e)

Handled == evq' = Tail(evq)

requestVars == <<setup, timeout, cancels, scheme, hop, attempt>>
clockVars == <<age, strand>>

\* The entry of a state that starts an operation.
StartIn(to, kind, seconds) ==
    /\ state' = to
    /\ ops' = Outstanding(SetAsyncTimeout(ExitState(ops), kind, seconds, FALSE))
    /\ delay' = [delay EXCEPT !.cancelled = TRUE]
    /\ UseSocket

\* The numbers of the attempts that operations and events are left from.
Attempts ==
    {ops[i].of : i \in DOMAIN ops} \cup {strand[i].of : i \in DOMAIN strand}

\* Initializing::DoInit, entered to start, to restart and after a redirect.
EnterInitializing ==
    /\ \/ Handles({"Unstarted"}, "Start")
       \/ Handles({"Error"}, "Restart")
       \/ Handles({"Redirect"}, "Redirected")
    /\ state' = "Initializing"
    /\ attempt' = FreeNumber(Attempts)
    /\ socket' = (scheme \in {"http", "https"})
    /\ is_ssl' = CASE scheme = "http" -> FALSE
                   [] scheme = "https" -> TRUE
                   [] OTHER -> is_ssl
    /\ Raise(IF scheme \in {"http", "https"} THEN Event("Initialized", "none")
             ELSE ErrorEvent("none"))
    /\ UNCHANGED <<setup, timeout, strand, ops, delay, scheme, hop, age, pipe,
                   cancels, told, sent, faults>>

EnterResolve ==
    /\ Handles({"Initializing"}, "Initialized")
    /\ StartIn("Resolve", "resolve", StageTimeout)
    /\ Handled
    /\ UNCHANGED <<requestVars, clockVars, socket, is_ssl, pipe, told,
                   sent>>

EnterConnect ==
    /\ Handles({"Resolve"}, "Resolved")
    /\ StartIn("Connect", "connect", StageTimeout)
    /\ Handled
    /\ UNCHANGED <<requestVars, clockVars, socket, is_ssl, pipe, told,
                   sent>>

CurrentProxy == IF is_ssl THEN setup.https_proxy ELSE setup.http_proxy

UsingProxy == CurrentProxy # "none"

\* The guard ProxyConnectRequired.
ProxyConnectRequired == UsingProxy /\ (CurrentProxy = "login" \/ is_ssl)

EnterProxyConnect ==
    /\ Handles({"Connect"}, "Connected")
    /\ ProxyConnectRequired
    /\ StartIn("ProxyConnect", "proxy_write", StageTimeout)
    /\ Handled
    /\ UNCHANGED <<requestVars, clockVars, socket, is_ssl, pipe, told,
                   sent>>

EnterSSLHandshake ==
    /\ \/ Handles({"Connect"}, "Connected") /\ ~ProxyConnectRequired
       \/ Handles({"ProxyConnect"}, "Connected")
    /\ is_ssl
    /\ StartIn("SSLHandshake", "handshake", StageTimeout)
    /\ Handled
    /\ UNCHANGED <<requestVars, clockVars, socket, is_ssl, pipe, told,
                   sent>>

\* A faulty entry: the write of the header gets the timeout of a stage, after
\* which the request is young enough for a restart.
EnterSendHeader_Stage ==
    /\ \/ Handles({"Connect"}, "Connected") /\ ~ProxyConnectRequired /\ ~is_ssl
       \/ Handles({"ProxyConnect"}, "Connected") /\ ~is_ssl
       \/ Handles({"SSLHandshake"}, "Handshake")
    /\ StartIn("SendHeader", "header", StageTimeout)
    /\ sent' = sent + 1
    /\ Handled
    /\ UNCHANGED <<requestVars, clockVars, socket, is_ssl, pipe, told>>

EnterSendHeader ==
    /\ \/ Handles({"Connect"}, "Connected") /\ ~ProxyConnectRequired /\ ~is_ssl
       \/ Handles({"ProxyConnect"}, "Connected") /\ ~is_ssl
       \/ Handles({"SSLHandshake"}, "Handshake")
    /\ StartIn("SendHeader", "header", timeout)
    /\ sent' = sent + 1
    /\ Handled
    /\ UNCHANGED <<requestVars, clockVars, socket, is_ssl, pipe, told>>

-----------------------------------------------------------------------------
(* Sending the POST data *)

\* What RetreivePostDataChunk returns: a chunk while there is one, nothing
\* at the end or when the pipe gives up, or an exception.
PipeAnswers ==
    (IF pipe.left > 0 THEN {"chunk"} ELSE {}) \cup {"empty"}
        \cup (IF PipeThrows THEN {"throw"} ELSE {})

\* The events PostViaInterface raises when no chunk came.  After an
\* exception it goes on with an empty chunk.
PipeEvents(answer, read) ==
    (IF answer = "throw" THEN <<ErrorEvent("none")>> ELSE <<>>)
    \o (IF read # PipeSize THEN <<ErrorEvent("none")>>
        ELSE <<Event("PostSent", "none")>>)

\* SetTransactionDelayTimer and the wait that replaces an earlier one.
SetTransactionDelayTimer(stopped) ==
    delay' = [waiting |-> TRUE, cancelled |-> stopped, enabled |-> TRUE]

\* SendPost::on_entry with a buffer: one write.
EnterSendPostBuffer ==
    /\ Handles({"SendHeader"}, "HeadersWritten")
    /\ setup.post = "buffer"
    /\ StartIn("SendPost", "post", timeout)
    /\ Handled
    /\ UNCHANGED <<requestVars, clockVars, socket, is_ssl, pipe, told,
                   sent>>

\* SendPost::on_entry with a pipe: PostViaInterface.
EnterSendPostPipe ==
    /\ Handles({"SendHeader"}, "HeadersWritten")
    /\ setup.post = "pipe"
    /\ state' = "SendPost"
    /\ ops' = Outstanding(ExitState(ops))
    /\ \E answer \in PipeAnswers :
          IF answer = "chunk"
          THEN /\ pipe' = [left |-> pipe.left - 1, read |-> 1]
               /\ SetTransactionDelayTimer(FALSE)
               /\ Handled
          ELSE /\ pipe' = [pipe EXCEPT !.read = 0]
               /\ evq' = Tail(evq) \o PipeEvents(answer, 0)
               /\ delay' = [delay EXCEPT !.cancelled = TRUE]
    /\ UNCHANGED <<requestVars, clockVars, socket, is_ssl, told, sent,
                   faults>>

EnterReadHeaders ==
    /\ \/ Handles({"SendHeader"}, "HeadersWritten") /\ setup.post = "none"
       \/ Handles({"SendPost"}, "PostSent")
    /\ StartIn("ReadHeaders", "read_headers", timeout)
    /\ Handled
    /\ UNCHANGED <<requestVars, clockVars, socket, is_ssl, pipe, told,
                   sent>>

-----------------------------------------------------------------------------
(* The answer *)

\* A faulty entry: no return after the error for a missing Location.
EnterParseHeaders_NoReturn ==
    /\ Handles({"ReadHeaders"}, "HeadersRead")
    /\ state' = "ParseHeaders"
    /\ ops' = Outstanding(ExitState(ops))
    /\ evq' = Tail(evq)
              \o (IF Head(evq).what \in {"no_location", "invalid"}
                  THEN <<ErrorEvent("none")>> ELSE <<>>)
              \o <<Event("HeadersParsed", "none")>>
    /\ told' = [told EXCEPT !.headers = @ + 1]
    /\ UNCHANGED <<requestVars, clockVars, delay, socket, is_ssl, pipe, sent,
                   faults>>

\* A faulty entry: the header of a redirect is passed on as the response's.
EnterParseHeaders_EachHeader ==
    /\ Handles({"ReadHeaders"}, "HeadersRead")
    /\ Head(evq).what \in (Schemes \ {"invalid"}) \cup {"ok"}
    /\ state' = "ParseHeaders"
    /\ ops' = Outstanding(ExitState(ops))
    /\ told' = [told EXCEPT !.headers = @ + 1]
    /\ Raise(IF Head(evq).what = "ok" THEN Event("HeadersParsed", "none")
             ELSE Event("Redirect", Head(evq).what))
    /\ UNCHANGED <<requestVars, clockVars, delay, socket, is_ssl, pipe, sent,
                   faults>>

\* ParseHeaders::on_entry: what the header says.  A redirect to an URL that
\* parses is announced before Redirect looks at the policy.
EnterParseHeaders ==
    /\ Handles({"ReadHeaders"}, "HeadersRead")
    /\ state' = "ParseHeaders"
    /\ ops' = Outstanding(ExitState(ops))
    /\ LET what == Head(evq).what IN
       CASE what \in {"no_location", "invalid"} ->
                Raise(ErrorEvent("none")) /\ UNCHANGED told
         [] what \in Schemes \ {"invalid"} ->
                /\ told' = [told EXCEPT !.redirects = 1 - @]
                /\ Raise(Event("Redirect", what))
         [] OTHER ->
                /\ told' = [told EXCEPT !.headers = @ + 1]
                /\ Raise(Event("HeadersParsed", "none"))
    /\ UNCHANGED <<requestVars, clockVars, delay, socket, is_ssl, pipe, sent,
                   faults>>

\* A faulty Redirect: the URL the request was made with decides what a
\* downgrade is.
EnterRedirect_FirstUrl ==
    /\ Handles({"ParseHeaders"}, "Redirect")
    /\ state' = "Redirect"
    /\ LET target == Head(evq).what IN
       IF \/ setup.policy = "Deny"
          \/ setup.policy = "DenyDowngrade" /\ setup.scheme = "https" /\ target = "http"
       THEN /\ Raise(ErrorEvent("none"))
            /\ UNCHANGED <<scheme, hop, sent, socket>>
       ELSE /\ scheme' = target
            /\ hop' = 1 /\ sent' = 0
            /\ socket' = FALSE
            /\ Raise(Event("Redirected", "none"))
    /\ UNCHANGED <<setup, timeout, cancels, attempt, clockVars, ops, delay,
                   is_ssl, pipe, told, faults>>

\* Redirect::on_entry: the policy, the new URL.
EnterRedirect ==
    /\ Handles({"ParseHeaders"}, "Redirect")
    /\ state' = "Redirect"
    /\ LET target == Head(evq).what IN
       IF \/ setup.policy = "Deny"
          \/ setup.policy = "DenyDowngrade" /\ is_ssl /\ target = "http"
       THEN /\ Raise(ErrorEvent("none"))
            /\ UNCHANGED <<scheme, hop, sent, socket>>
       ELSE /\ scheme' = target
            /\ hop' = 1 /\ sent' = 0
            /\ socket' = FALSE
            /\ Raise(Event("Redirected", "none"))
    /\ UNCHANGED <<setup, timeout, cancels, attempt, clockVars, ops, delay,
                   is_ssl, pipe, told, faults>>

\* ReadContent::on_entry: an encoding that is not supported, or a first read.
EnterReadContent ==
    /\ Handles({"ParseHeaders"}, "HeadersParsed")
    /\ \/ /\ StartIn("ReadContent", "read_content", timeout)
          /\ Handled
       \/ /\ state' = "ReadContent"
          /\ Raise(ErrorEvent("none"))
          /\ UNCHANGED <<ops, delay, faults>>
    /\ UNCHANGED <<requestVars, clockVars, socket, is_ssl, pipe, told,
                   sent>>

\* Complete::on_entry.
EnterComplete ==
    /\ Handles({"ReadContent"}, "ContentRead")
    /\ state' = "Complete"
    /\ ops' = Outstanding(ExitState(ops))
    /\ delay' = [delay EXCEPT !.cancelled = TRUE]
    /\ socket' = FALSE
    /\ told' = [told EXCEPT !.completes = @ + 1]
    /\ Handled
    /\ UNCHANGED <<requestVars, clockVars, is_ssl, pipe, sent, faults>>

-----------------------------------------------------------------------------
(* Errors *)

\* Error::on_entry: a timeout restarts the request while it is young.
EnterError ==
    /\ Handles(Waiting \cup {"Initializing", "ParseHeaders", "Redirect"},
               "Error")
    /\ state' = "Error"
    /\ ops' = Outstanding(ExitState(ops))
    /\ delay' = [delay EXCEPT !.cancelled = TRUE]
    /\ socket' = FALSE
    /\ Raise(IF Head(evq).what = "IoTimeout" /\ age < timeout
             THEN Event("Restart", "none") ELSE Head(evq))
    /\ UNCHANGED <<requestVars, clockVars, is_ssl, pipe, told, sent,
                   faults>>

\* FinalError::on_entry.  A delay that has expired by now is not cancelled.
EnterFinalError ==
    /\ Handles({"Error"}, "Error")
    /\ state' = "FinalError"
    /\ socket' = FALSE
    /\ \/ delay.enabled
          /\ \E expired \in BOOLEAN :
                delay' = [delay EXCEPT !.waiting = @ /\ expired, !.enabled = FALSE]
       \/ ~delay.enabled /\ UNCHANGED delay
    /\ told' = [told EXCEPT !.errors = @ + 1]
    /\ Handled
    /\ UNCHANGED <<requestVars, clockVars, ops, is_ssl, pipe, sent,
                   faults>>

\* The events that each state has a row for.
Rows ==
    [s \in States |->
        CASE s = "Unstarted" -> {"Start"}
          [] s = "Initializing" -> {"Initialized", "Error"}
          [] s = "Resolve" -> {"Resolved", "Error"}
          [] s = "Connect" -> {"Connected", "Error"}
          [] s = "ProxyConnect" -> {"Connected", "Error"}
          [] s = "SSLHandshake" -> {"Handshake", "Error"}
          [] s = "SendHeader" -> {"HeadersWritten", "Error"}
          [] s = "SendPost" -> {"PostSent", "Error"}
          [] s = "ReadHeaders" -> {"HeadersRead", "Error"}
          [] s = "ParseHeaders" -> {"HeadersParsed", "Redirect", "Error"}
          [] s = "Redirect" -> {"Redirected", "Error"}
          [] s = "ReadContent" -> {"ContentRead", "Error"}
          [] s = "Error" -> {"Restart", "Error"}
          [] OTHER -> {}]

\* An event without a row.  The terminate states take no event; elsewhere
\* no_transition fails an assertion, and without assertions the event is lost.
NoTransition ==
    /\ evq # <<>> /\ Head(evq).ev \notin Rows[state]
    /\ Handled
    /\ faults' = IF state \in Ended THEN faults
                 ELSE faults \cup {"improper transition"}
    /\ UNCHANGED <<requestVars, clockVars, state, ops, delay, socket, is_ssl,
                   pipe, told, sent>>

-----------------------------------------------------------------------------
(* The strand, the handlers of the operations and of the timers *)

machineVars == <<state, socket, is_ssl, requestVars, sent>>

\* The strand takes the next event that was dispatched to it.
StrandRuns ==
    /\ strand # <<>> /\ StrandMayRun
    /\ evq' = <<Head(strand)>>
    /\ strand' = Tail(strand)
    /\ UNCHANGED <<machineVars, ops, delay, age, pipe, told, faults>>

\* What can come back from the network.  There may be any number of redirects,
\* and a body may take any number of reads: ReadContent reads for ever from a
\* connection that ended before the Content-Length.
Outcomes(kind) ==
    CASE kind = "read_headers" ->
            {"ok", "failed", "malformed", "no_location"} \cup Schemes
      [] kind = "read_content" ->
            {"ok", "failed", "malformed", "more"}
      [] kind = "proxy_read" -> {"ok", "failed", "malformed"}
      [] OTHER -> {"ok", "failed"}

\* A faulty handler: neither the cancelled flag nor the RacePreventer counts.
HandlerRuns_Unchecked ==
    /\ HandlerMayRun
    /\ \E i \in DOMAIN ops, r \in Results :
          /\ ops[i].handler = "waiting"
          /\ r \in Outcomes(ops[i].kind)
          /\ ops' = [ops EXCEPT ![i].handler = "running", ![i].result = r]
    /\ UNCHANGED <<machineVars, evq, strand, delay, age, pipe, told,
                   faults>>

\* A handler is called and returns when its state was left or IsFirst() is
\* false ("skip if cancelled due to timeout").  HandleResolve takes the
\* RacePreventer first.
HandlerCalled(o, r) ==
    IF o.cancelled
    THEN [o EXCEPT !.handler = "done", !.taken = @ \/ o.kind = "resolve",
                   !.kind = "resolve"]
    ELSE IF o.taken THEN HandlerDone(o)
    ELSE [o EXCEPT !.handler = "running", !.result = r]

HandlerRuns ==
    /\ HandlerMayRun
    /\ \E i \in DOMAIN ops, r \in Results :
          /\ ops[i].handler = "waiting"
          /\ r \in Outcomes(ops[i].kind)
          /\ ops' = Outstanding([ops EXCEPT ![i] = HandlerCalled(ops[i], r)])
    /\ UNCHANGED <<machineVars, evq, strand, delay, age, pipe, told,
                   faults>>

\* The event that ends an operation of one step.
AnswerTo(o) ==
    LET ok == [resolve |-> "Resolved", connect |-> "Connected",
               proxy_read |-> "Connected", handshake |-> "Handshake",
               header |-> "HeadersWritten", post |-> "PostSent",
               read_headers |-> "HeadersRead"]
    IN  IF o.result \in {"failed", "malformed"}
        THEN [ErrorEvent("none") EXCEPT !.of = o.of]
        ELSE [ev |-> ok[o.kind], of |-> o.of, what |-> o.result]

\* IsFirst() returned true: it is taken now, and the timer is stopped.
First(q, i) ==
    ClearAsyncTimeout([q EXCEPT ![i] = HandlerDone(@)])

\* A handler whose only outcome is an event for the machine.
Answers(kind) ==
    /\ \E i \in Running :
          /\ ops[i].kind = kind
          /\ strand' = Append(strand, AnswerTo(ops[i]))
          /\ ops' = Outstanding(First(ops, i))
    /\ UNCHANGED <<machineVars, evq, delay, age, pipe, told, faults>>

HandleResolve == Answers("resolve")

HandleConnect == Answers("connect")

HandleProxyHeaderRead == Answers("proxy_read")

HandleHandshake == Answers("handshake")

HandleHeaderWrite == Answers("header")

\* Headers that cannot be parsed are an error.
HandleHeaderRead == Answers("read_headers")

\* HandleProxyConnectWrite: the answer of the proxy is read next.
HandleProxyConnectWrite ==
    /\ \E i \in Running :
          /\ ops[i].kind = "proxy_write"
          /\ IF ops[i].result = "ok"
             THEN /\ ops' = Outstanding(
                                SetAsyncTimeout(First(ops, i), "proxy_read",
                                    StageTimeout, ops[i].cancelled))
                  /\ UseSocket
                  /\ UNCHANGED strand
             ELSE /\ ops' = Outstanding(First(ops, i))
                  /\ strand' = Append(strand, AnswerTo(ops[i]))
                  /\ UNCHANGED faults
    /\ UNCHANGED <<machineVars, evq, delay, age, pipe, told>>

\* HandlePostWrite: an error, the end of a buffer, or a chunk after which
\* PostViaInterface asks for the next one.
HandlePostWrite ==
    /\ \E i \in Running :
          /\ ops[i].kind = "post"
          /\ ops' = Outstanding(First(ops, i))
          /\ IF setup.post = "buffer" \/ ops[i].result = "failed"
             THEN /\ strand' = Append(strand, AnswerTo(ops[i]))
                  /\ UNCHANGED <<pipe, delay>>
             ELSE IF ops[i].cancelled THEN UNCHANGED <<pipe, delay, strand>>
             ELSE \E answer \in PipeAnswers :
                     IF answer = "chunk"
                     THEN /\ pipe' = [left |-> pipe.left - 1,
                                      read |-> pipe.read + 1]
                          /\ SetTransactionDelayTimer(FALSE)
                          /\ UNCHANGED strand
                     ELSE /\ strand' = strand \o PipeEvents(answer, pipe.read)
                          /\ UNCHANGED <<pipe, delay>>
    /\ UNCHANGED <<machineVars, evq, age, told, faults>>

\* HandleContentRead, HandleContentChunkRead, HandleContentChunkSizeRead: a
\* read of the body.  It may pass content on, and then raises the end or an
\* error, waits for the delay timer or reads again at once.
HandleContentRead ==
    /\ \E i \in Running :
          /\ ops[i].kind = "read_content"
          /\ \/ ops[i].result # "failed" /\ told' = [told EXCEPT !.content = 1 - @]
             \/ UNCHANGED told
          /\ CASE ops[i].result = "ok" ->
                    /\ strand' = Append(strand,
                            [ev |-> "ContentRead", of |-> ops[i].of,
                             what |-> "ok"])
                    /\ ops' = Outstanding(First(ops, i))
                    /\ UNCHANGED <<delay, faults>>
               [] ops[i].result = "more" ->
                    /\ \/ /\ SetTransactionDelayTimer(ops[i].cancelled)
                          /\ ops' = Outstanding(First(ops, i))
                          /\ UNCHANGED faults
                       \/ /\ ops' = Outstanding(
                                SetAsyncTimeout(First(ops, i), "read_content",
                                    timeout, ops[i].cancelled))
                          /\ UseSocket
                          /\ UNCHANGED delay
                    /\ UNCHANGED strand
               [] OTHER ->
                    /\ strand' = Append(strand, AnswerTo(ops[i]))
                    /\ ops' = Outstanding(First(ops, i))
                    /\ UNCHANGED <<delay, faults>>
    /\ UNCHANGED <<machineVars, evq, age, pipe>>

\* HandleAsyncTimeout, in the strand, of a wait that expired or was
\* aborted: it reads the RacePreventer ...
TimeoutRuns ==
    /\ StrandMayRun
    /\ \E i \in DOMAIN ops :
          /\ ops[i].timer \in {"fired", "aborted"}
          /\ ops' = [ops EXCEPT ![i].timer = "running",
                                ![i].timer_first = ~ops[i].taken]
    /\ UNCHANGED <<machineVars, evq, strand, delay, age, pipe, told,
                   faults>>

\* ... and raises the error when it was first, the wait expired and its id
\* is the current one.
HandleAsyncTimeout ==
    /\ \E i \in DOMAIN ops :
          /\ ops[i].timer = "running"
          /\ ops' = Outstanding([ops EXCEPT ![i].timer = "done",
                                            ![i].timer_first = FALSE,
                                            ![i].taken = TRUE])
          /\ evq' = IF ops[i].timer_first /\ ops[i].left = 0 /\ ops[i].current
                    THEN <<[ErrorEvent("IoTimeout") EXCEPT !.of = ops[i].of]>>
                    ELSE <<>>
    /\ UNCHANGED <<machineVars, strand, delay, age, pipe, told, faults>>

\* SetTransactionDelayTimerWrapper: the delay is over.  The callback does
\* nothing when its state was left or the timer disabled.
DelaySkipped ==
    /\ delay.waiting /\ StrandMayRun
    /\ delay.cancelled \/ ~delay.enabled
    /\ delay' = [delay EXCEPT !.waiting = FALSE]
    /\ UNCHANGED <<machineVars, evq, strand, ops, age, pipe, told, faults>>

\* The callback goes on with the transfer.
DelayCallback(kind, enabled) ==
    /\ delay.waiting /\ StrandMayRun
    /\ ~delay.cancelled /\ delay.enabled
    /\ delay' = [delay EXCEPT !.waiting = FALSE, !.enabled = enabled]
    /\ ops' = Outstanding(SetAsyncTimeout(ops, kind, timeout, FALSE))
    /\ UseSocket
    /\ UNCHANGED <<machineVars, evq, strand, age, pipe, told>>

PostViaInterfaceDelayCallback ==
    state = "SendPost" /\ DelayCallback("post", FALSE)

HandleContentReadDelayCallback ==
    state = "ReadContent" /\ DelayCallback("read_content", FALSE)

\* It leaves the enabled flag set.
HandleContentChunkSizeReadDelay ==
    state = "ReadContent" /\ DelayCallback("read_content", TRUE)

\* Time passes; steady_timer expires.
Tick ==
    /\ Cardinality({i \in DOMAIN ops : ops[i].timer = "fired"}) < MaxLate
    /\ \/ age < timeout /\ state \notin Ended
       \/ \E i \in DOMAIN ops : ops[i].timer = "armed"
    /\ age' = IF age < timeout /\ state \notin Ended THEN age + 1 ELSE age
    /\ ops' = [i \in DOMAIN ops |->
                  IF ops[i].timer = "armed"
                  THEN [ops[i] EXCEPT !.left = @ - 1,
                          !.timer = IF ops[i].left = 1 THEN "fired" ELSE @]
                  ELSE ops[i]]
    /\ UNCHANGED <<machineVars, evq, strand, delay, pipe, told, faults>>

-----------------------------------------------------------------------------
(* The user *)

Init ==
    /\ setup \in Setups
    /\ timeout \in Timeouts
    /\ state = "Unstarted"
    /\ evq = <<>> /\ strand = <<>> /\ ops = <<>>
    /\ delay = [waiting |-> FALSE, cancelled |-> FALSE, enabled |-> FALSE]
    /\ socket = FALSE
    /\ scheme = setup.scheme
    /\ is_ssl = FALSE       \* uninitialized; set before its first use
    /\ hop = 0 /\ attempt = 0 /\ age = 0
    /\ pipe = [left |-> PipeSize, read |-> 0]
    /\ cancels = 0
    /\ told = [redirects |-> 0, headers |-> 0, content |-> 0, errors |-> 0,
               completes |-> 0]
    /\ sent = 0
    /\ faults = {}

\* HttpRequest::SetTimeout, SetPostData and SetPostDataPipe: a ConfigEvent,
\* before Start.  The last POST data that is set counts.
Configure ==
    /\ state = "Unstarted" /\ strand = <<>> /\ evq = <<>>
    /\ \/ \E t \in Timeouts : t # timeout /\ timeout' = t /\ UNCHANGED setup
       \/ \E s \in Setups :
             /\ s # setup /\ s = [setup EXCEPT !.post = s.post]
             /\ s.post # "none"
             /\ setup' = s
             /\ UNCHANGED timeout
    /\ UNCHANGED <<state, evq, strand, ops, delay, socket, scheme, is_ssl, hop,
                   attempt, age, pipe, cancels, told, sent, faults>>

\* HttpRequest::Start, called once.
Start ==
    /\ state = "Unstarted" /\ strand = <<>> /\ evq = <<>>
    /\ strand' = <<Event("Start", "none")>>
    /\ UNCHANGED <<machineVars, evq, ops, delay, age, pipe, told, faults>>

\* HttpRequest::Cancel, and Fail with an error of the caller's: "this can
\* only be called while already running".
Cancel ==
    /\ state # "Unstarted" \/ strand # <<>> \/ evq # <<>>
    /\ cancels < MaxCancels
    /\ cancels' = cancels + 1
    /\ strand' = Append(strand, ErrorEvent("none"))
    /\ UNCHANGED <<setup, timeout, state, evq, ops, delay, socket, scheme,
                   is_ssl, hop, attempt, age, pipe, told, sent, faults>>

-----------------------------------------------------------------------------
(* The specification *)

Machine ==
    \/ EnterInitializing \/ EnterResolve \/ EnterConnect \/ EnterProxyConnect
    \/ EnterSSLHandshake \/ EnterSendHeader \/ EnterSendPostBuffer
    \/ EnterSendPostPipe \/ EnterReadHeaders \/ EnterParseHeaders
    \/ EnterRedirect \/ EnterReadContent \/ EnterComplete \/ EnterError
    \/ EnterFinalError \/ NoTransition

Handlers ==
    \/ HandleResolve \/ HandleConnect
    \/ HandleProxyConnectWrite \/ HandleProxyHeaderRead \/ HandleHandshake
    \/ HandleHeaderWrite \/ HandlePostWrite \/ HandleHeaderRead
    \/ HandleContentRead

Timers ==
    \/ TimeoutRuns \/ HandleAsyncTimeout \/ DelaySkipped
    \/ PostViaInterfaceDelayCallback \/ HandleContentReadDelayCallback
    \/ HandleContentChunkSizeReadDelay

User == Configure \/ Start \/ Cancel

Next == Machine \/ StrandRuns \/ HandlerRuns \/ Handlers \/ Timers \/ Tick \/ User

Spec == Init /\ [][Next]_vars

\* The io_service is run and time passes; nothing is assumed of the network.
FairSpec ==
    /\ Spec
    /\ WF_vars(Machine) /\ WF_vars(StrandRuns) /\ WF_vars(Handlers)
    /\ WF_vars(Timers) /\ WF_vars(Tick)

-----------------------------------------------------------------------------
(* Properties *)

\* The state machine keeps the promise of RequestResponseInterface: one
\* header, content only between the header and the end, and exactly one
\* answer for every request that was started, whatever the network does.
Exchange == INSTANCE HttpExchange WITH
    asked <- state # "Unstarted", redirects <- told.redirects,
    headers <- told.headers, content <- told.content, errors <- told.errors,
    completes <- told.completes

\* The code sets no limit to two things: the redirects it follows, and the
\* reads of one body, which go on as well when the connection has ended before
\* the Content-Length is reached.
Endless ==
    \/ []<>(state = "Redirect")
    \/ []<>(\E i \in Running : ops[i].result = "more")

\* Nothing is told out of order, and the answer comes unless redirects or
\* reads go on for ever: no timeout, restart, cancel or failure of the pipe or
\* the network leaves the caller without one.
KeepsPromise == Exchange!Order /\ (Endless \/ Exchange!Promise)

\* A request goes out at most once to each URL it is led to, and whole: a timeout restarts the
\* request, but never one whose header a server may already have read, so a POST
\* is not repeated, and the answer is only waited for after the POST data of one
\* whole pass over the pipe was written.
SentOnce ==
    /\ sent <= 1
    /\ state \in {"ReadHeaders", "ParseHeaders", "ReadContent", "Complete"}
          /\ setup.post = "pipe"
          => pipe.read = PipeSize /\ pipe.left = 0

\* No event reaches a state without a row for it (the assertion "improper
\* transition in http state machine" of no_transition), and no operation is
\* started on the socket that Disconnect has dropped, whatever late answers,
\* cancellations and timeouts are under way; every variable keeps its type.
NoFault == TypeOK /\ faults = {}

\* While the machine waits, something is going to wake it up: an operation
\* that is not cancelled, whose RacePreventer is free or in the hands of a
\* running handler and whose timeout is armed, or the delay timer.
NeverUnguarded ==
    state \in Waiting /\ evq = <<>> /\ strand = <<>> =>
        \/ \E i \in DOMAIN ops :
              /\ ~ops[i].cancelled /\ ops[i].of = attempt
              /\ \/ ops[i].handler = "running"
                 \/ /\ ops[i].handler = "waiting" /\ ~ops[i].taken
                    /\ ops[i].current
                    /\ ops[i].timer \in {"armed", "fired", "running"}
        \/ delay.waiting /\ delay.enabled /\ ~delay.cancelled

\* "If timeout id doesn't match, then both timeout handler and async handler
\* ended up on the stack": the answer of an operation is handled in the attempt
\* that started it, never in a later one, and a timeout belongs to the operation
\* the machine waits for, not to an earlier one that was answered just in time.
NoLateAnswer ==
    evq # <<>> /\ state \notin Ended =>
        /\ Head(evq).ev \in {"Resolved", "Connected", "Handshake",
                             "HeadersWritten", "HeadersRead", "ContentRead"}
            => Head(evq).of = attempt
        /\ Head(evq).what = "IoTimeout" /\ state \in Waiting =>
              /\ Head(evq).of = attempt
              /\ \E i \in DOMAIN ops :
                    ~ops[i].cancelled /\ ops[i].handler # "done" /\ ops[i].left = 0
              /\ \A i \in DOMAIN ops :
                    ~ops[i].cancelled /\ ops[i].handler # "done" => ops[i].left = 0

\* A policy holds over every redirect and restart: under Deny no second URL
\* is asked, and under DenyDowngrade, once an https URL was asked, whether the
\* first or one that a redirect led to, every connection is to an https URL
\* and encrypted.  (Redirect looks at is_ssl_, which DoInit sets from the URL.)
PolicyHeld ==
    /\ [](setup.policy = "Deny" => hop = 0)
    /\ [](setup.policy = "DenyDowngrade" /\ state \in Waiting /\ scheme = "https"
          => [](state \in Waiting => scheme = "https" /\ is_ssl))
=============================================================================
