------------------------------ MODULE Actions -------------------------------
(***************************************************************************)
(* The actions of api/actions: coroutines that make API calls one after    *)
(* the other, and the WorkManager that runs the coroutines another one has *)
(* queued, so many at a time.                                              *)
(*                                                                         *)
(* The action of the user (`main') is a CloneCloudTree, a PollChanges or a *)
(* PollForeignChanges.  It queues work: a GetFolderContents for each       *)
(* folder, a GetChangesDevice or a GetForeignChangesDevice, and a          *)
(* GetInfoFile or GetInfoFolder for each change.  The other actions with   *)
(* one request (create, delete, move, rename, get_foreign_resources) have  *)
(* the body of GetInfoFile and are used without a WorkManager.             *)
(*                                                                         *)
(* One thread runs the io_service.  A coroutine that is resumed runs up to *)
(* its next yield inside the function that resumes it: a work calls the    *)
(* callback that resumes main, main runs and yields, and only then does    *)
(* the work go on to its completion handler.  `running' is the work on the *)
(* stack; main is above it while main.pc is "body" or "execute".           *)
(***************************************************************************)
EXTENDS Integers, Sequences, FiniteSets, SequencesExt

CONSTANTS
    Asked,                 \* the actions that are tried, see Action
    Limits,                \* the values of max_concurrent_work_
    MAX_LOOP_ITERATIONS,   \* clone_cloud_tree_impl.hpp
    Page,                  \* revisions in an answer to get_changes: 500
    Modulus,               \* 2^32, for revisions
    Garbage,               \* values of an uninitialised uint32_t
    MaxChunk,              \* bound: chunk numbers, more than any folder has
    MaxFailing             \* bound: bodies with requests of a kind that fail

\* Works are numbered.  A clone has a GetFolderContents for each folder, the
\* root is 0; folder w has the subfolders of subfolders[w][1], [2].. in so many
\* chunks, and so many chunks of files.  A poll has the work 0, which asks for
\* the changes after the revision known, and one for each revision that
\* changed a file or a folder.
Kinds == {"clone", "poll", "foreign"}
Changes == {"file", "folder", "trash", "deleted"}

\* A tree of folders: the root is in no other folder, a folder is in one, and every
\* folder can be reached from the root.
IsTree(subfolders) ==
    /\ DOMAIN subfolders \subseteq Nat /\ IsFiniteSet(DOMAIN subfolders)
    /\ 0 \in DOMAIN subfolders
    /\ \A w \in DOMAIN subfolders :
          /\ subfolders[w] \in Seq(SUBSET (DOMAIN subfolders \ {0}))
          /\ \A v \in DOMAIN subfolders :
                \A m \in DOMAIN subfolders[v], n \in DOMAIN subfolders[w] :
                    subfolders[v][m] \cap subfolders[w][n] # {} => v = w
    /\ \A reached \in SUBSET DOMAIN subfolders :
          /\ 0 \in reached
          /\ \A w \in reached : \A n \in DOMAIN subfolders[w] : subfolders[w][n] \subseteq reached
          => reached = DOMAIN subfolders

ASSUME ActionsAssumption ==
    /\ \A a \in Asked :
          \/ /\ a.kind = "clone"
             /\ IsTree(a.subfolders)
             /\ a.files \in [DOMAIN a.subfolders -> 0 .. MaxChunk - 1]
             /\ \A w \in DOMAIN a.subfolders : Len(a.subfolders[w]) < MaxChunk
          \/ /\ a.kind \in {"poll", "foreign"}
             /\ a.known \in 0 .. Modulus - 1
             /\ a.changed \in Seq(Changes) /\ Len(a.changed) < Modulus
    /\ Limits \subseteq Nat \ {0}
    /\ MAX_LOOP_ITERATIONS \in Nat
    /\ Page \in Nat \ {0}
    /\ Modulus \in Nat \ {0}
    /\ Garbage \subseteq 0 .. Modulus - 1
    /\ MaxChunk \in Nat /\ MaxFailing \in Nat

VARIABLES
    asked,         \* the action
    limit,         \* max_concurrent_work_
    main,          \* the coroutine of the action
    work,          \* the coroutines it queues
    running,       \* the work whose coroutine is on the stack, or None
    work_queue,    \* WorkManager: works that wait
    in_progress,   \* WorkManager: in_progress_list_
    posted,        \* handlers posted to the io_service, in order
    requests,      \* API requests under way
    results,       \* what the callback of main is going to get
    failed,        \* requests that were answered with an error
    faults         \* undefined behaviour that was met

managerVars == <<work_queue, in_progress, posted>>
vars == <<asked, limit, main, work, running, work_queue, in_progress, posted,
          requests, results, failed, faults>>

None == -1

Works == IF asked.kind = "clone" THEN DOMAIN asked.subfolders
         ELSE 0 .. Len(asked.changed)

WorkKind(w) ==
    CASE asked.kind = "clone" -> "contents"
      [] asked.kind = "poll" /\ w = 0 -> "changes"
      [] asked.kind = "foreign" /\ w = 0 -> "foreign"
      [] OTHER -> "info"

Latest == Len(asked.changed)

\* The members of a work.  files and folders: the number of the chunk that is
\* asked for next, 0 after the last one.  start, latest: start_revision and
\* latest_device_revision_.  waits: yields before the body goes on.
NewWork(kind) ==
    [state |-> "new", cancelled |-> FALSE, waits |-> 0, first |-> TRUE,
     files |-> IF kind = "clone" THEN 1 ELSE 0,
     folders |-> IF kind = "clone" THEN 1 ELSE 0,
     start |-> 0, latest |-> 0, got |-> {}, errors |-> {}]

Init ==
    /\ asked \in Asked
    /\ limit \in Limits
    /\ main = [pc |-> "new", phase |-> 1, iterations |-> 0, yields |-> 0,
               more |-> FALSE, cancelled |-> FALSE,
               keys |-> IF asked.kind = "clone" THEN <<0>> ELSE <<>>]
    /\ \E garbage \in Garbage :
          work = [w \in Works |->
                    LET kind == WorkKind(w)
                    IN [NewWork(asked.kind) EXCEPT
                          !.start = IF w = 0 /\ kind # "contents" THEN asked.known ELSE 0,
                          !.latest = CASE kind = "changes" -> garbage
                                       [] kind = "foreign" -> Modulus - 1
                                       [] OTHER -> 0]]
    /\ running = None
    /\ work_queue = <<>> /\ in_progress = {} /\ posted = <<>>
    /\ requests = {}
    /\ results = [revision |-> 0, got |-> {}, info |-> <<>>, errors |-> {}]
    /\ failed = {}
    /\ faults = {}

MainRuns == main.pc \in {"body", "execute"}

\* The io_service may run a handler.  After undefined behaviour the model
\* stops.
Idle == ~MainRuns /\ running = None /\ faults = {}
-----------------------------------------------------------------------------
(* WorkManager *)

Least(a, b) == IF a < b THEN a ELSE b
Most(a, b) == IF a < b THEN b ELSE a

\* An element of posted that is not the start of a work.
CancelAll == None

\* QueueWork, and WorkManager::Cancel when main was cancelled before.
QueueWork(works) ==
    /\ work_queue' = work_queue \o works
    /\ work' = [w \in Works |-> IF w \in Range(works)
                                THEN [work[w] EXCEPT !.state = "queued"] ELSE work[w]]
    /\ posted' = IF main.cancelled THEN Append(posted, CancelAll) ELSE posted

\* A faulty ExecuteWork: it yields once for all the work that it has posted.
ExecuteWork_OneYield ==
    /\ main.pc = "execute"
    /\ LET room == Most(0, limit - Cardinality(in_progress))
           next == SubSeq(work_queue, 1, Least(room, Len(work_queue)))
           yields == main.yields + Least(1, Len(next))
       IN  /\ work_queue' = SubSeq(work_queue, Len(next) + 1, Len(work_queue))
           /\ in_progress' = in_progress \cup Range(next)
           /\ posted' = posted \o next
           /\ work' = [w \in Works |-> IF w \in Range(next)
                                       THEN [work[w] EXCEPT !.state = "posted"] ELSE work[w]]
           /\ main' = [main EXCEPT !.yields = Most(0, yields - 1),
                                   !.more = next # <<>>,
                                   !.pc = IF yields > 0 THEN "yielded" ELSE "body"]
    /\ UNCHANGED <<asked, limit, running, requests, results, failed, faults>>

\* ExecuteWork up to its yield: post as much work as there is room for, and
\* yield once for each work that was posted.  It returns when nothing was
\* posted since the last yield and none is left.
ExecuteWork ==
    /\ main.pc = "execute"
    /\ LET room == Most(0, limit - Cardinality(in_progress))
           next == SubSeq(work_queue, 1, Least(room, Len(work_queue)))
           yields == main.yields + Len(next)
       IN  /\ work_queue' = SubSeq(work_queue, Len(next) + 1, Len(work_queue))
           /\ in_progress' = in_progress \cup Range(next)
           /\ posted' = posted \o next
           /\ work' = [w \in Works |-> IF w \in Range(next)
                                       THEN [work[w] EXCEPT !.state = "posted"] ELSE work[w]]
           /\ main' = [main EXCEPT !.yields = Most(0, yields - 1),
                                   !.more = next # <<>>,
                                   !.pc = IF yields > 0 THEN "yielded" ELSE "body"]
    /\ UNCHANGED <<asked, limit, running, requests, results, failed, faults>>

\* Coroutine::Resume of main: ExecuteWork goes on after its yield, and ends
\* when that was the last one.  To resume a coroutine that does not wait in a
\* yield is undefined.
Resume(keys) ==
    IF main.pc = "yielded"
    THEN /\ main' = [main EXCEPT !.keys = keys,
                                 !.pc = IF main.yields = 0 /\ ~main.more
                                        THEN "body" ELSE "execute"]
         /\ UNCHANGED faults
    ELSE faults' = faults \cup {"resumed"} /\ UNCHANGED main

\* Cancel of the works: the requests of those in progress are cancelled.  The
\* answer to a request that has been sent still comes.  One that waits for a
\* session token is answered at once, within Cancel: its coroutine is resumed
\* while it runs, or ends while the loop over in_progress_list_ is at it, or is
\* resumed again by the answer that SessionMaintainer still gives later.  All
\* of that is undefined.
CancelRequests(works, rs) ==
    /\ requests' = {IF r.of \in works /\ r.state = "sent"
                    THEN [r EXCEPT !.state = "cancelled"] ELSE r : r \in rs}
    /\ faults' = IF \E r \in rs : r.of \in works /\ r.state = "waiting"
                 THEN faults \cup {"cancelled too early"} ELSE faults

\* The handler of WorkManager::Cancel: works that wait are dropped without
\* their callback being called.
ManagerCancel ==
    /\ Idle /\ posted # <<>> /\ Head(posted) = CancelAll
    /\ posted' = Tail(posted)
    /\ work_queue' = <<>>
    /\ in_progress' = {}
    /\ work' = [w \in Works |->
                  IF w \in Range(work_queue)
                  THEN [work[w] EXCEPT !.cancelled = TRUE, !.state = "dropped"]
                  ELSE [work[w] EXCEPT !.cancelled = @ \/ w \in in_progress]]
    /\ CancelRequests(in_progress, requests)
    /\ UNCHANGED <<asked, limit, main, running, results, failed>>

\* A faulty Start: a work that was cancelled before is not started.
StartWork_Cancelled ==
    /\ Idle /\ posted # <<>> /\ Head(posted) # CancelAll
    /\ posted' = Tail(posted)
    /\ IF work[Head(posted)].cancelled THEN UNCHANGED <<running, work>>
       ELSE /\ running' = Head(posted)
            /\ work' = [work EXCEPT ![Head(posted)].state = "running"]
    /\ UNCHANGED <<asked, limit, main, work_queue, in_progress, requests, results,
                   failed, faults>>

\* Coroutine::Start of a work.
StartWork ==
    /\ Idle /\ posted # <<>> /\ Head(posted) # CancelAll
    /\ posted' = Tail(posted)
    /\ running' = Head(posted)
    /\ work' = [work EXCEPT ![Head(posted)].state = "running"]
    /\ UNCHANGED <<asked, limit, main, work_queue, in_progress, requests, results,
                   failed, faults>>

\* The end of a coroutine: its completion handler takes it off the list.
WorkCompletes ==
    /\ ~MainRuns /\ running # None /\ work[running].state = "returned"
    /\ in_progress' = in_progress \ {running}
    /\ work' = [work EXCEPT ![running].state = "done"]
    /\ running' = None
    /\ UNCHANGED <<asked, limit, main, work_queue, posted, requests, results,
                   failed, faults>>

-----------------------------------------------------------------------------
(* The bodies of the works *)

\* max_revision of the page that starts after a revision, in 32 bits.
MaxRevision(start) == ((((start + 1) % Modulus) \div Page + 1) * Page) % Modulus

\* The requests a body makes before it yields next; none when it is done.
Round(w) ==
    CASE WorkKind(w) = "contents" ->
             {k \in {"files", "folders"} : work[w][k] > 0 /\ ~work[w].cancelled}
      [] WorkKind(w) = "info" -> IF work[w].first THEN {"info"} ELSE {}
      [] WorkKind(w) = "changes" /\ work[w].first -> {"status"}
      [] OTHER -> IF work[w].start < work[w].latest /\ ~work[w].cancelled
                  THEN {"changes"} ELSE {}

Argument(w, k) ==
    CASE k \in {"files", "folders"} -> work[w][k]
      [] k = "changes" -> work[w].start
      [] OTHER -> 0

\* CoroutineBody up to its yield: SessionMaintainer::Call for each request,
\* which is sent at once or waits, and Cancel when it comes too late.
MakeCalls ==
    /\ ~MainRuns /\ running # None /\ work[running].state = "running"
    /\ Round(running) # {}
    /\ \E sent \in [Round(running) -> {"waiting", "sent"}] :
          LET new == {[of |-> running, kind |-> k, arg |-> Argument(running, k),
                       state |-> sent[k]] : k \in Round(running)}
          IN  IF work[running].cancelled
              THEN CancelRequests({running}, requests \cup new)
              ELSE requests' = requests \cup new /\ UNCHANGED faults
    /\ work' = [work EXCEPT ![running] =
                  [@ EXCEPT !.state = "suspended", !.first = FALSE,
                            !.waits = Cardinality(Round(running))]]
    /\ running' = None
    /\ UNCHANGED <<asked, limit, main, managerVars, results, failed>>

\* AttemptRequests has a token for a request that waits.
RequestSent(r) ==
    /\ Idle /\ r.state = "waiting"
    /\ requests' = (requests \ {r}) \cup {[r EXCEPT !.state = "sent"]}
    /\ UNCHANGED <<asked, limit, main, work, running, managerVars, results, failed, faults>>

\* HandleTimedOutRequest, for a request that was sent, is to be retried and waits
\* again: it is taken from the queue, and Fail goes to an HTTP request that is over.
\* Nothing answers it any more.
RequestLost(r) ==
    /\ Idle /\ r.state \in {"sent", "cancelled"}
    /\ requests' = (requests \ {r}) \cup {[r EXCEPT !.state = "lost"]}
    /\ UNCHANGED <<asked, limit, main, work, running, managerVars, results, failed, faults>>

\* The revisions that device/get_changes answers with.
PageAfter(start) == {v \in 1 .. Latest : start < v /\ v <= MaxRevision(start)}

\* What an answer without an error leaves in the members of the work.
Answered(w, r) ==
    CASE r.kind = "files" ->
             [w EXCEPT !.got = @ \cup {<<"files", r.arg>>},
                       !.files = IF r.arg >= asked.files[r.of] THEN 0 ELSE @ + 1]
      [] r.kind = "folders" ->
             [w EXCEPT !.got = @ \cup {<<"folders", r.arg>>},
                       !.folders = IF r.arg >= Len(asked.subfolders[r.of]) THEN 0 ELSE @ + 1]
      [] r.kind = "status" -> [w EXCEPT !.latest = Latest]
      [] r.kind = "changes" ->
             [w EXCEPT !.got = @ \cup PageAfter(r.arg),
                       !.start = MaxRevision(r.arg),
                       !.latest = IF asked.kind = "foreign" THEN Latest ELSE @]
      [] r.kind = "info" -> [w EXCEPT !.got = {r.of}]

\* An answer with an error: the body goes on with the next chunk or page.  A chunk
\* after MaxChunk is another chunk that the folder does not have.
Refused(w, r) ==
    LET e == [w EXCEPT !.errors = @ \cup {<<r.of, r.kind, r.arg>>}]
    IN  CASE r.kind \in {"files", "folders"} -> [e EXCEPT ![r.kind] = Least(@ + 1, MaxChunk)]
          [] r.kind = "changes" -> [e EXCEPT !.start = MaxRevision(r.arg)]
          [] OTHER -> e

\* The bodies that have failed, each with a kind of request; one that has may go on
\* failing for ever.
Failing(fs) == {<<f[1], f[2]>> : f \in fs}

\* The callback of a request: note what came, and resume the coroutine.
HandleResponse(r, ok) ==
    /\ Idle /\ r.state # "lost"
    /\ ok => r.state # "waiting"
    /\ ~ok /\ r.state # "cancelled" =>
          Cardinality(Failing(failed \cup {<<r.of, r.kind, r.arg>>})) <= MaxFailing
    /\ requests' = requests \ {r}
    /\ failed' = IF ok THEN failed ELSE failed \cup {<<r.of, r.kind, r.arg>>}
    /\ LET w == IF ok THEN Answered(work[r.of], r) ELSE Refused(work[r.of], r)
           last == w.waits = 1
       IN  /\ work' = [work EXCEPT ![r.of] =
                         [w EXCEPT !.waits = @ - 1,
                                   !.state = IF last THEN "running" ELSE @]]
           /\ running' = IF last THEN r.of ELSE None
    /\ UNCHANGED <<asked, limit, main, managerVars, results, faults>>

-----------------------------------------------------------------------------
(* The bodies of the actions *)

\* folder/get_content: a chunk after the last one is empty.
Subfolders(w, chunk) ==
    IF chunk <= Len(asked.subfolders[w]) THEN asked.subfolders[w][chunk] ELSE {}

\* HandleGetInfoFile and HandleGetInfoFolder.  Those of PollForeignChanges look
\* for the error in the response, which has none when the request failed.
HandleGetInfo(w) ==
    IF asked.kind = "poll" /\ w.errors # {}
    THEN [results EXCEPT !.errors = @ \cup w.errors]
    ELSE [results EXCEPT !.info = Append(@, w.got)]

\* The body of a work is done: it calls its callback, a handler of main, which
\* resumes main.
WorkReturns ==
    /\ ~MainRuns /\ running # None /\ work[running].state = "running"
    /\ Round(running) = {}
    /\ work' = [work EXCEPT ![running].state = "returned"]
    /\ LET w == work[running]
           subfolders == UNION {Subfolders(running, x[2]) :
                                  x \in {x \in w.got : x[1] = "folders"}}
       IN  CASE asked.kind = "clone" ->
                  /\ results' = [results EXCEPT
                                   !.got = @ \cup {<<running, x>> : x \in w.got},
                                   !.errors = @ \cup w.errors]
                  /\ Resume(main.keys \o SetToSeq(subfolders))
             [] WorkKind(running) \in {"changes", "foreign"} ->
                  /\ results' = [results EXCEPT
                                   !.revision = IF asked.kind = "poll" THEN w.latest ELSE w.start,
                                   !.got = {v \in w.got : asked.changed[v] # "trash"},
                                   !.errors = w.errors]
                  /\ Resume(<<>>)
             [] OTHER ->
                  /\ results' = HandleGetInfo(w)
                  /\ Resume(<<>>)
    /\ UNCHANGED <<asked, limit, running, managerVars, requests, failed>>

\* A faulty loop: it ends one iteration early.
CloneBody_Early ==
    /\ main.pc = "body" /\ asked.kind = "clone"
    /\ LET room == MAX_LOOP_ITERATIONS - main.iterations
           now == SubSeq(main.keys, 1, Least(room, Len(main.keys)))
       IN  IF now = <<>>
           THEN main' = [main EXCEPT !.pc = "ended"] /\ UNCHANGED <<work, work_queue, posted>>
           ELSE /\ QueueWork(now)
                /\ main' = [main EXCEPT
                              !.keys = SubSeq(@, Len(now) + 1, Len(@)),
                              !.iterations = @ + Len(now),
                              !.pc = IF now = main.keys THEN "execute" ELSE "ended"]
    /\ UNCHANGED <<asked, limit, running, in_progress, requests, results, failed, faults>>

\* CloneCloudTree::CoroutineBody: a work for each key, up to the limit of the
\* loop; the last one executes them.
CloneBody ==
    /\ main.pc = "body" /\ asked.kind = "clone"
    /\ LET room == MAX_LOOP_ITERATIONS + 1 - main.iterations
           now == SubSeq(main.keys, 1, Least(room, Len(main.keys)))
       IN  IF now = <<>>
           THEN main' = [main EXCEPT !.pc = "ended"] /\ UNCHANGED <<work, work_queue, posted>>
           ELSE /\ QueueWork(now)
                /\ main' = [main EXCEPT
                              !.keys = SubSeq(@, Len(now) + 1, Len(@)),
                              !.iterations = @ + Len(now),
                              !.pc = IF now = main.keys THEN "execute" ELSE "ended"]
    /\ UNCHANGED <<asked, limit, running, in_progress, requests, results, failed, faults>>

Of(change) == {v \in results.got : asked.changed[v] = change}

\* PollChanges::CoroutineBody and PollForeignChanges::CoroutineBody: first the
\* changes, then every file, then every folder.
PollBody ==
    /\ main.pc = "body" /\ asked.kind # "clone"
    /\ IF main.phase = 4
       THEN main' = [main EXCEPT !.pc = "ended"] /\ UNCHANGED <<work, work_queue, posted>>
       ELSE /\ QueueWork(CASE main.phase = 1 -> <<0>>
                           [] main.phase = 2 -> SetToSeq(Of("file"))
                           [] main.phase = 3 -> SetToSeq(Of("folder")))
            /\ main' = [main EXCEPT !.pc = "execute", !.phase = @ + 1]
    /\ UNCHANGED <<asked, limit, running, in_progress, requests, results, failed, faults>>

\* Start of the action.
Start ==
    /\ Idle /\ main.pc = "new"
    /\ main' = [main EXCEPT !.pc = "body"]
    /\ UNCHANGED <<asked, limit, work, running, managerVars, requests, results, failed,
                   faults>>

\* Cancel of the action, once.
Cancel ==
    /\ Idle /\ ~main.cancelled
    /\ main' = [main EXCEPT !.cancelled = TRUE]
    /\ posted' = Append(posted, CancelAll)
    /\ UNCHANGED <<asked, limit, work, running, work_queue, in_progress, requests, results,
                   failed, faults>>

Io ==
    \/ ExecuteWork \/ ManagerCancel \/ StartWork \/ WorkCompletes
    \/ MakeCalls \/ WorkReturns \/ CloneBody \/ PollBody
    \/ \E r \in requests : RequestSent(r) \/ RequestLost(r)
                           \/ \E ok \in BOOLEAN : HandleResponse(r, ok)

Next == Io \/ Start \/ Cancel

Spec == Init /\ [][Next]_vars

\* The io_service is run and comes to every handler that was posted, and
\* SessionMaintainer ends every request that it has not lost, as its CallAnswered has it.
FairSpec == Spec /\ WF_vars(Io) /\ SF_vars(ManagerCancel \/ StartWork)

-----------------------------------------------------------------------------
(* Properties *)

TypeOK ==
    /\ asked \in Asked /\ limit \in Limits
    /\ main.pc \in {"new", "body", "execute", "yielded", "ended"}
    /\ main.yields \in Nat
    /\ DOMAIN work = Works
    /\ \A w \in Works :
          /\ work[w].state \in {"new", "queued", "posted", "running", "suspended",
                                "returned", "done", "dropped"}
          /\ work[w].start \in 0 .. Modulus - 1
          /\ work[w].latest \in 0 .. Modulus - 1
          /\ work[w].waits = Cardinality({r \in requests : r.of = w})
    /\ running \in Works \cup {None}
    /\ work_queue \in Seq(Works) /\ in_progress \subseteq Works
    /\ posted \in Seq(Works \cup {CancelAll})
    /\ faults \subseteq {"resumed", "cancelled too early"}

Busy == {w \in Works : work[w].state \in {"posted", "running", "suspended", "returned"}}

\* "Maximum amount of work that can be queued by us onto the io_service": until
\* a cancel clears in_progress_list_, no more coroutines are under way.
WorkLimit == (~ \E w \in Works : work[w].cancelled) => Cardinality(Busy) <= limit

\* The places and the yields of ExecuteWork come out even, and a work waits for
\* as many answers as it has requests (TypeOK), through errors and cancels.  No
\* more work runs than is allowed; each yield is answered by the callback of one
\* work, so that main is never resumed where it does not wait; and main's
\* callback is called when nothing is left to come: no work is queued or under
\* way but the one whose callback has resumed main.  With max_concurrent_work_ = 1
\* the code does not keep the last part: main is resumed while the work before
\* is still in in_progress_list_, finds no room and goes on.
NothingLeft ==
    /\ TypeOK
    /\ WorkLimit
    /\ "resumed" \notin faults
    /\ main.pc = "ended" /\ limit > 1 =>
          /\ work_queue = <<>> \/ main.keys # <<>>
          /\ Busy \subseteq {running}

\* "If there was an error, insert into vector and propagate at the callback":
\* a request that fails is reported.  The info of a foreign change is the
\* exception: PollForeignChanges looks for the error in the response, where it
\* is not, and passes an empty info on.
ErrorsPropagated ==
    main.pc = "ended" =>
        \A f \in failed :
            f \in results.errors \/ (asked.kind = "foreign" /\ f[2] = "info")

\* An action either reports what failed or has everything.  One that was not
\* cancelled and reports no error has, for a clone, every chunk of every folder
\* (of a tree whose folders the loop may count), for a poll, each change since
\* the revision that was known, the latest revision, and the info of each file
\* and folder that was changed.
WholeResult ==
    /\ ErrorsPropagated
    /\ main.pc = "ended" /\ results.errors = {} /\ ~main.cancelled /\ limit > 1 =>
           CASE asked.kind = "clone" ->
                  Cardinality(Works) <= MAX_LOOP_ITERATIONS + 1 =>
                    results.got = UNION {
                       {<<w, <<"files", n>>>> : n \in 1 .. Most(1, asked.files[w])}
                       \cup {<<w, <<"folders", n>>>> : n \in 1 .. Most(1, Len(asked.subfolders[w]))} :
                       w \in Works}
             [] OTHER ->
                  LET new == {v \in asked.known + 1 .. Latest : asked.changed[v] # "trash"}
                      kept == {v \in new : asked.changed[v] # "deleted"}
                  IN  /\ results.got = new
                      /\ asked.kind = "poll" => results.revision = Latest
                      /\ Len(results.info) = Cardinality(kept)
                      /\ asked.kind = "poll" => Range(results.info) = {{v} : v \in kept}

\* The greatest start_revision at the end of a page in 32 bits.
LastPage == ((Modulus - 1) \div Page) * Page

RequestEnds(kinds) ==
    \E r \in requests : r.kind \in kinds /\ \E ok \in BOOLEAN : HandleResponse(r, ok)
RequestFails(kinds) == \E r \in requests : r.kind \in kinds /\ HandleResponse(r, FALSE)

\* Where an action may stop for good or go on for ever: a request was cancelled before
\* it was sent; a request is lost; or the action is not cancelled and chunks are refused
\* for ever, as GetFolderContents asks for the next one until one is the last, or the pages
\* never end, as the revision to reach is after the last page.  That is so while
\* get_foreign_changes is not answered without an error, and when get_status failed and
\* left garbage.
Endless ==
    \/ <>("cancelled too early" \in faults)
    \/ <>(\E r \in requests : r.state = "lost")
    \/ /\ []~main.cancelled
       /\ \/ []<><<RequestFails({"files", "folders"})>>_vars
          \/ []<><<RequestEnds({"changes"})>>_vars /\ <>[](work[0].latest > LastPage)

\* An action that was started ends, whatever fails and however often, in any case but
\* those of Endless: a failed page, status or info never keeps it from ending, nor do
\* failed chunks when one of the later ones is answered, and a cancel ends the loops too.
ActionEnds == (main.pc = "body" ~> main.pc = "ended") \/ Endless
=============================================================================
