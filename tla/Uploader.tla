------------------------------ MODULE Uploader ------------------------------
(***************************************************************************)
(* The upload manager (uploader/detail/upload_manager_impl.cpp) and the    *)
(* state machine of each upload (uploader/detail/upload_state_machine.hpp  *)
(* with its transitions).                                                  *)
(*                                                                         *)
(* One thread runs the work io_service, as in the repository's programs.   *)
(* An action is one handler of that io_service run to its end: an event    *)
(* that a state machine raises while it handles another one is kept in its *)
(* queue and handled before process_event returns, so a chain of events is *)
(* one step.  Handlers that are ready run in any order.                    *)
(*                                                                         *)
(* `um' is the manager, `up[r]' the state machine of upload r.  A callback *)
(* of the manager is an operator from a manager to a manager, so that a    *)
(* handler reads as the sequence of the calls it makes.                    *)
(***************************************************************************)
EXTENDS Integers, Sequences, FiniteSets, SequencesExt

CONSTANTS
    Requests,       \* the uploads
    Hashes,         \* the hashes of file contents
    FileHash,       \* the hash of the file of each upload
    Chunked,        \* the hashes of files of more than one chunk
    Chunks,         \* the chunks of such a file
    Modified,       \* the uploads the user cancels or pauses
    MaxHashings,    \* max_concurrent_hashings_
    MaxUploads,     \* max_concurrent_uploads_
    MaxTokenCalls   \* bound: get_action_token calls on the wire at once

ASSUME UploaderAssumption ==
    /\ IsFiniteSet(Requests)
    /\ FileHash \in [Requests -> Hashes]
    /\ Chunked \subseteq Hashes
    /\ Modified \subseteq Requests
    /\ MaxHashings \in Nat \ {0}
    /\ MaxUploads \in Nat \ {0}
    /\ MaxTokenCalls \in Nat \ {0}

VARIABLES um, up

vars == <<um, up>>

-----------------------------------------------------------------------------
(* Types *)

States == {"Initial", "WaitForHashSignal", "Hashing", "WaitForUploadSignal",
           "InUploadCheck", "InstantUpload", "UploadFile", "UploadChunk",
           "PollUpload", "CompleteWithSuccess", "CompleteWithError"}

Ended == {"CompleteWithSuccess", "CompleteWithError"}

Uploading == {"InUploadCheck", "InstantUpload", "UploadFile", "UploadChunk",
              "PollUpload"}

\* What will call back into a state machine: events in its strand, posted
\* reads, API calls and HTTP requests on the wire, and its timer.
Continuations == {"FileError", "Error", "ReadNext", "check", "instant", "simple", "chunk",
                  "poll", "poll_timer"}

ErrorEvents == {"FileError", "Error"}

Upload ==
    [state : States,
     count_state : {"None", "Hashing", "Uploading"},
     pending : SUBSET Continuations,
     chunk_states : [Chunks -> {"NeedsUpload", "Uploading", "Uploaded"}],
     has_key : BOOLEAN,                        \* upload_key_ is not empty
     error : {"None", "Failed", "LogicError"}]

Starts == {"StartHash", "StartUpload"} \X Requests

\* ticks counts the posted Ticks, starts are the posted start events,
\* token_current says that now < action_token_expires_, retry_wait and
\* retry_due are the retry timer's pending wait and its completed one.
Manager ==
    [alive : BOOLEAN,
     requests : SUBSET Requests,
     to_hash : Seq(Requests),
     to_upload : Seq(Requests),
     uploading_hashes : SUBSET Hashes,
     enqueued_to_start_hashings : SUBSET Requests,
     enqueued_to_start_uploads : SUBSET Requests,
     current_hashings : 0..Cardinality(Requests),
     current_uploads : 0..Cardinality(Requests),
     action_token_state : {"Invalid", "Retrieving", "Error", "Valid"},
     token_current : BOOLEAN,
     token_calls : 0..MaxTokenCalls,
     retry_wait : BOOLEAN,
     retry_due : BOOLEAN,
     ticks : Nat,
     starts : SUBSET Starts]

TypeOK ==
    /\ um \in Manager
    /\ up \in [Requests -> Upload]

NewManager ==
    [alive |-> TRUE, requests |-> {}, to_hash |-> <<>>, to_upload |-> <<>>,
     uploading_hashes |-> {}, enqueued_to_start_hashings |-> {},
     enqueued_to_start_uploads |-> {}, current_hashings |-> 0,
     current_uploads |-> 0, action_token_state |-> "Invalid",
     token_current |-> FALSE, token_calls |-> 0, retry_wait |-> FALSE,
     retry_due |-> FALSE, ticks |-> 0, starts |-> {}]

NewUpload ==
    [state |-> "Initial", count_state |-> "None", pending |-> {},
     chunk_states |-> [c \in Chunks |-> "NeedsUpload"], has_key |-> FALSE,
     error |-> "None"]

Init ==
    /\ um = NewManager
    /\ up = [r \in Requests |-> NewUpload]

-----------------------------------------------------------------------------
(* Tick *)

\* The uploads in to_upload_ that are no duplicates of a running one.
Startable(m) == {r \in ToSet(m.to_upload) : FileHash[r] \notin m.uploading_hashes}

CanUploadMore(m) ==
    m.current_uploads + Cardinality(m.enqueued_to_start_uploads) < MaxUploads

\* The token is requested again while it is being retrieved: only a failure
\* that is less than kActionTokenRetry old holds the request back.
RequestActionToken(m) ==
    IF m.action_token_state = "Error" /\ m.token_current
    THEN m
    ELSE [m EXCEPT !.action_token_state = "Retrieving", !.token_calls = @ + 1]

StartFirstUpload(m) ==
    LET i == SelectInSeq(m.to_upload, LAMBDA r : FileHash[r] \notin m.uploading_hashes)
        r == m.to_upload[i]
    IN  [m EXCEPT !.to_upload = RemoveAt(@, i),
                  !.uploading_hashes = @ \cup {FileHash[r]},
                  !.enqueued_to_start_uploads = @ \cup {r},
                  !.starts = @ \cup {<<"StartUpload", r>>}]

\* Starts at most one upload.
Tick_StartUploads(m) ==
    IF m.to_upload = <<>> THEN m
    ELSE IF m.action_token_state # "Valid" \/ ~m.token_current
    THEN RequestActionToken(m)
    ELSE IF CanUploadMore(m) /\ Startable(m) # {}
    THEN StartFirstUpload(m)
    ELSE m

\* The free hashing slots.
FreeHashings_OnlyRunning(m) == MaxHashings - m.current_hashings

FreeHashings(m) ==
    MaxHashings - (m.current_hashings + Cardinality(m.enqueued_to_start_hashings))

\* Fills the free hashing slots from the front of to_hash_.
Tick_StartHashings(m) ==
    LET free == FreeHashings(m)
        n == IF free <= 0 THEN 0
             ELSE IF free < Len(m.to_hash) THEN free ELSE Len(m.to_hash)
        started == {m.to_hash[i] : i \in 1..n}
    IN  [m EXCEPT !.to_hash = SubSeq(@, n + 1, Len(@)),
                  !.enqueued_to_start_hashings = @ \cup started,
                  !.starts = @ \cup ({"StartHash"} \X started)]

Tick(m) == Tick_StartHashings(Tick_StartUploads(m))

EnqueueTick(m) == [m EXCEPT !.ticks = @ + 1]

-----------------------------------------------------------------------------
(* The callbacks of the state machines.  A state machine that the manager's *)
(* destructor has disconnected calls nothing.                               *)

Callback(m, result) == IF m.alive THEN result ELSE m

HandleAddToHash(m, r) ==
    Callback(m, EnqueueTick([m EXCEPT !.to_hash = Append(@, r)]))

HandleRemoveToHash(m, r) ==
    Callback(m, EnqueueTick([m EXCEPT !.to_hash = RemoveFirst(@, r)]))

HandleAddToUpload(m, r) ==
    Callback(m, EnqueueTick([m EXCEPT !.to_upload = Append(@, r)]))

HandleRemoveToUpload(m, r) ==
    Callback(m, EnqueueTick([m EXCEPT !.to_upload = RemoveFirst(@, r)]))

HandleComplete_PlaceKept(m, r, hashed) ==
    Callback(m, EnqueueTick(
        [m EXCEPT !.requests = @ \ {r},
                  !.uploading_hashes = IF hashed THEN @ \ {FileHash[r]} ELSE @]))

HandleComplete_HashKept(m, r, hashed) ==
    Callback(m, EnqueueTick(
        [m EXCEPT !.enqueued_to_start_hashings = @ \ {r},
                  !.enqueued_to_start_uploads = @ \ {r},
                  !.requests = @ \ {r}]))

\* hashed: the state machine knows its hash.  The hash is erased whoever is
\* uploading it.
HandleComplete(m, r, hashed) ==
    Callback(m, EnqueueTick(
        [m EXCEPT !.enqueued_to_start_hashings = @ \ {r},
                  !.enqueued_to_start_uploads = @ \ {r},
                  !.requests = @ \ {r},
                  !.uploading_hashes = IF hashed THEN @ \ {FileHash[r]} ELSE @]))

DecrementHashingCount(m) ==
    Callback(m, [EnqueueTick(m) EXCEPT !.current_hashings = @ - 1])

DecrementUploadingCount_Hashing(m) ==
    Callback(m, [EnqueueTick(m) EXCEPT !.current_hashings = @ - 1])

DecrementUploadingCount(m) ==
    Callback(m, [EnqueueTick(m) EXCEPT !.current_uploads = @ - 1])

IncrementHashingCount(m, r) ==
    Callback(m, [m EXCEPT !.current_hashings = @ + 1,
                          !.enqueued_to_start_hashings = @ \ {r}])

IncrementUploadingCount(m, r) ==
    Callback(m, [m EXCEPT !.current_uploads = @ + 1,
                          !.enqueued_to_start_uploads = @ \ {r}])

SetCountState(m, r, old, new) ==
    LET left == CASE old = "None"      -> m
                  [] old = "Hashing"   -> DecrementHashingCount(m)
                  [] old = "Uploading" -> DecrementUploadingCount(m)
    IN  CASE new = "None"      -> left
          [] new = "Hashing"   -> IncrementHashingCount(left, r)
          [] new = "Uploading" -> IncrementUploadingCount(left, r)

\* hash_ is set when the hashing has succeeded.
HasHash(r) == up[r].state \notin {"Initial", "WaitForHashSignal", "Hashing"}

-----------------------------------------------------------------------------
(* Steps shared by the handlers of a state machine.  `m' is the manager and *)
(* `u' the state machine as the handler has left them so far.               *)

\* The entry of a final state.
CompleteWith(r, m, u, final, error) ==
    /\ um' = HandleComplete(SetCountState(m, r, u.count_state, "None"),
                            r, HasHash(r))
    /\ up' = [up EXCEPT ![r] = [u EXCEPT !.state = final,
                                         !.count_state = "None",
                                         !.error = error]]

CompleteWithError(r, m, u, error) == CompleteWith(r, m, u, "CompleteWithError", error)

CompleteWithSuccess(r, m, u) == CompleteWith(r, m, u, "CompleteWithSuccess", "None")

\* The exit of the state of `u'.
OnExit(m, r, u) ==
    CASE u.state = "WaitForHashSignal"   -> HandleRemoveToHash(m, r)
      [] u.state = "WaitForUploadSignal" -> HandleRemoveToUpload(m, r)
      [] OTHER                           -> m

\* Enter a state that waits for `continuation'.
WaitIn(r, u, state, continuation) ==
    up' = [up EXCEPT ![r] = [u EXCEPT !.state = state,
                                      !.pending = @ \cup {continuation}]]

\* The state machine of r without the continuation that now runs.
Without(r, continuation) == [up[r] EXCEPT !.pending = @ \ {continuation}]

\* A final state ignores every event.
Ignored(r, continuation) ==
    /\ up' = [up EXCEPT ![r] = Without(r, continuation)]
    /\ UNCHANGED um

\* ReadFile: one read, and what the hashing does after it.
ReadFile(r, m, u) ==
    \/ /\ WaitIn(r, u, "Hashing", "ReadNext")
       /\ um' = m
    \/ /\ up' = [up EXCEPT ![r] = [u EXCEPT !.state = "WaitForUploadSignal"]]
       /\ um' = HandleAddToUpload(m, r)
    \/ CompleteWithError(r, m, u, "Failed")

\* The entry of UploadChunk, which records the chunks that are `done' and the
\* upload key that came with them.
UploadChunkEntry_NotMarked(u, done) == [u EXCEPT !.has_key = @ \/ done # {}]

UploadChunkEntry(u, done) ==
    [u EXCEPT !.chunk_states = [c \in Chunks |-> IF c \in done THEN "Uploaded" ELSE @[c]],
              !.has_key = @ \/ done # {}]

\* DoChunkUpload, the action of the transition, and then the entry of the state.
DoChunkUpload(r, u, done) ==
    LET needed == {c \in Chunks : u.chunk_states[c] = "NeedsUpload"}
        Entered(cs) == UploadChunkEntry([u EXCEPT !.chunk_states = cs], done)
    IN  \/ \E c \in needed :
             /\ WaitIn(r, Entered([u.chunk_states EXCEPT ![c] = "Uploading"]),
                       "UploadChunk", "chunk")
             /\ UNCHANGED um
        \/ /\ needed # {}                     \* the file does not open
           /\ CompleteWithError(r, um, Entered(u.chunk_states), "Failed")
        \/ /\ needed = {}
           /\ u.has_key
           /\ WaitIn(r, Entered(u.chunk_states), "PollUpload", "poll")
           /\ UNCHANGED um
        \/ /\ needed = {}                     \* the poll refuses an empty key
           /\ ~u.has_key
           /\ CompleteWithError(r, um, Entered(u.chunk_states), "LogicError")

DoSimpleUpload(r, u) ==
    \/ /\ WaitIn(r, u, "UploadFile", "simple")
       /\ UNCHANGED um
    \/ CompleteWithError(r, um, u, "Failed")  \* the file does not open

-----------------------------------------------------------------------------
(* The user *)

\* The event Start leads to WaitForHashSignal; for a file that is missing or
\* empty the event Error is posted too.
Add(r, readable) ==
    /\ um.alive
    /\ up[r].state = "Initial"
    /\ um' = Tick(HandleAddToHash([um EXCEPT !.requests = @ \cup {r}], r))
    /\ um'.token_calls <= MaxTokenCalls
    /\ up' = [up EXCEPT ![r].state = "WaitForHashSignal",
                        ![r].pending = IF readable THEN {} ELSE {"FileError"}]

\* Cancel and Pause send the event Error.  Bound: one at a time.
ModifyUpload(r) ==
    /\ r \in um.requests
    /\ r \in Modified
    /\ "Error" \notin up[r].pending
    /\ up' = [up EXCEPT ![r].pending = @ \cup {"Error"}]
    /\ UNCHANGED um

\* The destructor, which runs when no handler that refers to the manager is
\* left.  A state machine that is hashing has no transition for Error.
Destroy ==
    /\ um.alive
    /\ um.ticks = 0 /\ um.starts = {} /\ um.token_calls = 0
    /\ ~um.retry_wait /\ ~um.retry_due
    /\ um' = [NewManager EXCEPT !.alive = FALSE]
    /\ up' = [r \in Requests |->
                IF r \in um.requests /\ up[r].state # "Hashing"
                THEN [up[r] EXCEPT !.state = "CompleteWithError",
                                   !.count_state = "None",
                                   !.error = "Failed"]
                ELSE up[r]]

-----------------------------------------------------------------------------
(* Handlers of the manager *)

TickHandler ==
    /\ um.ticks > 0
    /\ um' = Tick([um EXCEPT !.ticks = @ - 1])
    /\ um'.token_calls <= MaxTokenCalls
    /\ UNCHANGED up

HandleActionToken_NoTick(granted) ==
    /\ um.token_calls > 0
    /\ LET m == [um EXCEPT !.token_calls = @ - 1, !.token_current = TRUE]
       IN  um' = IF granted
                 THEN [m EXCEPT !.action_token_state = "Valid"]
                 ELSE [m EXCEPT !.action_token_state = "Error",
                                !.retry_wait = TRUE]
    /\ UNCHANGED up

HandleActionToken(granted) ==
    /\ um.token_calls > 0
    /\ LET m == [um EXCEPT !.token_calls = @ - 1, !.token_current = TRUE]
       IN  um' = IF granted
                 THEN Tick([m EXCEPT !.action_token_state = "Valid"])
                 ELSE [m EXCEPT !.action_token_state = "Error",
                                !.retry_wait = TRUE]
    /\ UNCHANGED up

ActionTokenRetry_NoTick ==
    /\ um.retry_due
    /\ LET m == [um EXCEPT !.retry_due = FALSE]
       IN  um' = IF m.action_token_state = "Error"
                 THEN [m EXCEPT !.action_token_state = "Invalid"]
                 ELSE m
    /\ UNCHANGED up

ActionTokenRetry ==
    /\ um.retry_due
    /\ LET m == [um EXCEPT !.retry_due = FALSE]
       IN  um' = IF m.action_token_state = "Error"
                 THEN Tick([m EXCEPT !.action_token_state = "Invalid"])
                 ELSE m
    /\ um'.token_calls <= MaxTokenCalls
    /\ UNCHANGED up

\* The retry timer and action_token_expires_ are set to the same time.
\* Bound: one completed wait at a time.
RetryTimerExpires ==
    /\ um.retry_wait
    /\ ~um.retry_due
    /\ um' = [um EXCEPT !.retry_wait = FALSE,
                        !.retry_due = TRUE,
                        !.token_current = @ /\ um.action_token_state # "Error"]
    /\ UNCHANGED up

\* kActionTokenLife passes.
TokenExpires ==
    /\ um.action_token_state = "Valid"
    /\ um.token_current
    /\ um' = [um EXCEPT !.token_current = FALSE]
    /\ UNCHANGED up

-----------------------------------------------------------------------------
(* Handlers of a state machine *)

\* The error that Add posts for the file is in front of the start event.
StartHash(r) ==
    /\ <<"StartHash", r>> \in um.starts
    /\ "FileError" \notin up[r].pending
    /\ LET m == [um EXCEPT !.starts = @ \ {<<"StartHash", r>>}]
       IN  \/ /\ up[r].state = "WaitForHashSignal"
              /\ ReadFile(r, SetCountState(HandleRemoveToHash(m, r), r, "None", "Hashing"),
                          [up[r] EXCEPT !.state = "Hashing",
                                        !.count_state = "Hashing"])
           \/ /\ up[r].state \in Ended
              /\ um' = m
              /\ UNCHANGED up

ReadNext(r) ==
    /\ "ReadNext" \in up[r].pending
    /\ ReadFile(r, um, Without(r, "ReadNext"))

StartUpload(r) ==
    /\ <<"StartUpload", r>> \in um.starts
    /\ LET m == [um EXCEPT !.starts = @ \ {<<"StartUpload", r>>}]
       IN  \/ /\ up[r].state = "WaitForUploadSignal"
              /\ um' = SetCountState(HandleRemoveToUpload(m, r), r,
                                     up[r].count_state, "Uploading")
              /\ WaitIn(r, [up[r] EXCEPT !.count_state = "Uploading"],
                        "InUploadCheck", "check")
           \/ /\ up[r].state \in Ended
              /\ um' = m
              /\ UNCHANGED up

\* The event Error from the strand.
ErrorEvent(r, event) ==
    /\ event \in up[r].pending
    /\ LET u == Without(r, event)
       IN  IF up[r].state \in Ended \cup {"Hashing"}
           THEN Ignored(r, event)
           ELSE CompleteWithError(r, OnExit(um, r, u), u, "Failed")

\* HandleCheck.
CheckResponse(r) ==
    /\ "check" \in up[r].pending
    /\ LET u == Without(r, "check")
       IN  IF up[r].state # "InUploadCheck" THEN Ignored(r, "check")
           ELSE \/ CompleteWithError(r, um, u, "Failed")
                \/ CompleteWithSuccess(r, um, u)          \* AlreadyUploaded
                \/ /\ WaitIn(r, u, "InstantUpload", "instant")
                   /\ UNCHANGED um
                \/ DoSimpleUpload(r, u)
                \/ /\ FileHash[r] \in Chunked             \* SetBitmap
                   /\ \E have \in SUBSET Chunks :
                        DoChunkUpload(r,
                            [u EXCEPT !.chunk_states =
                                [c \in Chunks |-> IF c \in have THEN "Uploaded"
                                                  ELSE "NeedsUpload"]],
                            {})

InstantResponse(r) ==
    /\ "instant" \in up[r].pending
    /\ LET u == Without(r, "instant")
       IN  IF up[r].state # "InstantUpload" THEN Ignored(r, "instant")
           ELSE \/ CompleteWithSuccess(r, um, u)
                \/ CompleteWithError(r, um, u, "Failed")

\* HandleUploadResponse.
SimpleResponse(r) ==
    /\ "simple" \in up[r].pending
    /\ LET u == Without(r, "simple")
       IN  IF up[r].state # "UploadFile" THEN Ignored(r, "simple")
           ELSE \/ /\ WaitIn(r, u, "PollUpload", "poll")
                   /\ UNCHANGED um
                \/ CompleteWithError(r, um, u, "Failed")

\* HandleChunkResponse.  The chunk is "Uploading" and the key unset while
\* DoChunkUpload looks for the next one.
ChunkResponse(r) ==
    /\ "chunk" \in up[r].pending
    /\ LET u == Without(r, "chunk")
       IN  IF up[r].state # "UploadChunk" THEN Ignored(r, "chunk")
           ELSE \/ DoChunkUpload(r, u, {c \in Chunks : u.chunk_states[c] = "Uploading"})
                \/ CompleteWithError(r, um, u, "Failed")

\* HandlePollResponse.  An unfinished file is polled again whatever the state.
PollResponse(r, finished) ==
    /\ "poll" \in up[r].pending
    /\ LET u == Without(r, "poll")
       IN  IF ~finished
           THEN /\ WaitIn(r, u, up[r].state, "poll_timer")
                /\ UNCHANGED um
           ELSE IF up[r].state # "PollUpload" THEN Ignored(r, "poll")
           ELSE \/ CompleteWithSuccess(r, um, u)
                \/ CompleteWithError(r, um, u, "Failed")

RetryPoll(r) ==
    /\ "poll_timer" \in up[r].pending
    /\ WaitIn(r, Without(r, "poll_timer"), up[r].state, "poll")
    /\ UNCHANGED um

-----------------------------------------------------------------------------

Next ==
    \/ Destroy
    \/ TickHandler
    \/ ActionTokenRetry
    \/ RetryTimerExpires
    \/ TokenExpires
    \/ \E granted \in BOOLEAN : HandleActionToken(granted)
    \/ \E r \in Requests :
         \/ \E readable \in BOOLEAN : Add(r, readable)
         \/ ModifyUpload(r)
         \/ StartHash(r)
         \/ ReadNext(r)
         \/ StartUpload(r)
         \/ \E event \in ErrorEvents : ErrorEvent(r, event)
         \/ CheckResponse(r)
         \/ InstantResponse(r)
         \/ SimpleResponse(r)
         \/ ChunkResponse(r)
         \/ \E finished \in BOOLEAN : PollResponse(r, finished)
         \/ RetryPoll(r)

Spec == Init /\ [][Next]_vars

(* Handlers that are ready run, calls are answered and timers expire; a file *)
(* ends.  A token that is asked for again and again is granted in the end,   *)
(* and a file that is polled again and again is finished in the end.         *)
Fairness ==
    /\ WF_vars(TickHandler)
    /\ WF_vars(ActionTokenRetry)
    /\ WF_vars(RetryTimerExpires)
    /\ WF_vars(\E granted \in BOOLEAN : HandleActionToken(granted))
    /\ SF_vars(HandleActionToken(TRUE))
    /\ \A r \in Requests :
         /\ WF_vars(StartHash(r))
         /\ SF_vars(ReadNext(r) /\ "ReadNext" \notin up'[r].pending)
         /\ WF_vars(StartUpload(r))
         /\ \A event \in ErrorEvents : WF_vars(ErrorEvent(r, event))
         /\ WF_vars(CheckResponse(r))
         /\ WF_vars(InstantResponse(r))
         /\ WF_vars(SimpleResponse(r))
         /\ WF_vars(ChunkResponse(r))
         /\ SF_vars(PollResponse(r, TRUE))
         /\ WF_vars(RetryPoll(r))

FairSpec == Spec /\ Fairness

-----------------------------------------------------------------------------
(* Properties *)

\* The uploads with a count state, and those whose start event is posted and
\* will be taken.
Counted(c) == {r \in Requests : up[r].count_state = c}

StartPending(event, state) ==
    {r \in Requests : <<event, r>> \in um.starts /\ up[r].state = state}

\* The manager's limits on concurrent hashings and uploads hold, counting what
\* is running and what is about to start (Tick_StartHashings, CanUploadMore).
ConcurrencyLimit ==
    /\ um.current_hashings + Cardinality(um.enqueued_to_start_hashings) <= MaxHashings
    /\ um.current_uploads + Cardinality(um.enqueued_to_start_uploads) <= MaxUploads

\* No slot is lost or counted twice: the counters count the state machines
\* between SetCountState calls, and a place reserved by Tick belongs to an
\* upload whose start event is still to be taken, whatever was cancelled or
\* failed in between.
NoSlotLeak ==
    um.alive =>
        /\ um.current_hashings = Cardinality(Counted("Hashing"))
        /\ um.current_uploads = Cardinality(Counted("Uploading"))
        /\ um.enqueued_to_start_hashings = StartPending("StartHash", "WaitForHashSignal")
        /\ um.enqueued_to_start_uploads = StartPending("StartUpload", "WaitForUploadSignal")

\* An upload that could be hashed or uploaded now is not forgotten: a Tick, a
\* start event, a token call or the retry timer that leads to one is pending.
\* (Tick starts one upload only, and runs only when something posts it.)
NoLostTick ==
    /\ /\ um.to_hash # <<>>
       /\ um.current_hashings + Cardinality(um.enqueued_to_start_hashings) < MaxHashings
       => um.ticks > 0
    /\ Startable(um) # {} /\ CanUploadMore(um)
       => \/ um.ticks > 0
          \/ um.enqueued_to_start_uploads # {}
          \/ um.token_calls > 0
          \/ um.retry_wait
          \/ um.retry_due

\* uploading_hashes_ holds no hash that nobody uploads, which would keep every
\* later upload of the same content waiting for ever (HandleComplete).
NoHashLeak ==
    \A h \in um.uploading_hashes :
        \E r \in Requests :
            /\ FileHash[r] = h
            /\ up[r].state \in Uploading \/ r \in um.enqueued_to_start_uploads

\* A resumable upload is polled only when the server has every chunk, although
\* the last chunk is marked after DoChunkUpload has found none to send.
PolledWhole ==
    \A r \in Requests :
        up[r].state = "PollUpload" /\ up[r].has_key
        => \A c \in Chunks : up[r].chunk_states[c] = "Uploaded"

\* Every upload ends with a success or an error, except one that was hashing
\* when the manager was destroyed: nobody tells it to go on.
UploadEnds ==
    \A r \in Requests :
        up[r].state # "Initial"
        ~> \/ up[r].state \in Ended
           \/ ~um.alive /\ up[r].state = "WaitForUploadSignal"

=============================================================================
