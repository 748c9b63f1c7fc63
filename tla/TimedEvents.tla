---------------------------- MODULE TimedEvents ----------------------------
(***************************************************************************)
(* mf::utils::TimedEvents (and TimedActions, which only wraps it): events  *)
(* kept in a multimap ordered by time, one asio timer set for the earliest *)
(* of them, and an event processor called without the lock.                *)
(*                                                                         *)
(* Threads run the io_service: ResetTimer, HandleTimeout and the           *)
(* cancelled events are handlers posted to it.  The public methods may be  *)
(* called on any other thread.  An action is one section under mutex_, or  *)
(* one call of the processor, during which mutex_ is free.                 *)
(***************************************************************************)
EXTENDS Integers, FiniteSets, Sequences

CONSTANTS
  Threads,     \* threads that run the io_service
  Events,      \* events; each is added at most once
  MaxTime,     \* bound: the clock stops and no event is added for later
  NoDeadline,  \* an event that has not been added
  NoEvent, NoWait

ASSUME TimeAssumption == MaxTime \in Nat
ASSUME ValuesAssumption ==
  /\ NoDeadline \notin Nat
  /\ NoWait \notin Nat
  /\ NoEvent \notin Events
ASSUME FiniteAssumption == IsFiniteSet(Threads) /\ IsFiniteSet(Events)

VARIABLES
  now,        \* steady_clock::now()
  running,    \* running_
  data,       \* the events in data_
  deadline,   \* and the times they were added for
  expiry,     \* what the one pending wait of timeout_timer_ waits for, if any
  resets,     \* posted ResetTimer calls, and waits that have completed
  cancelled,  \* events posted to the processor with an error
  calls,      \* per event: the error codes the processor was called with
  thread,     \* the io_service threads
  user_ref,   \* the user still holds its shared_ptr
  stopping,   \* a thread is in Stop, between its two sections
  stopped     \* Stop has returned

queueVars == <<data, deadline, expiry, resets>>
userVars == <<running, user_ref, stopping, stopped>>
vars == <<now, queueVars, cancelled, calls, thread, userVars>>

IdleThread == [pc |-> "idle", now |-> 0, event |-> NoEvent]

At(t, p) == thread[t].pc = p

\* data_.begin(): the standard orders equal times by insertion, which nothing
\* here depends on, so any of the earliest events may be the first.
IsFront(e) == e \in data /\ \A f \in data : deadline[e] <= deadline[f]

Init ==
  /\ now = 0
  /\ running = TRUE
  /\ data = {}
  /\ deadline = [e \in Events |-> NoDeadline]
  /\ expiry = NoWait
  /\ resets = 0
  /\ cancelled = {}
  /\ calls = [e \in Events |-> <<>>]
  /\ thread = [t \in Threads |-> IdleThread]
  /\ user_ref = TRUE
  /\ stopping = FALSE
  /\ stopped = FALSE

----------------------------------------------------------------------------
(***************************************************************************)
(* The public methods.  A definition whose name ends in "_" and a word is  *)
(* a faulty variant of the one that follows it; no specification uses it.  *)
(***************************************************************************)
Add_OnlyFirst(e, time) ==
  /\ user_ref
  /\ deadline[e] = NoDeadline
  /\ deadline' = [deadline EXCEPT ![e] = time]
  /\ data' = data \cup {e}
  /\ resets' = IF data = {} THEN resets + 1 ELSE resets
  /\ UNCHANGED <<now, expiry, cancelled, calls, thread, userVars>>

\* Both overloads: the time is any time, also one that has passed.
Add(e, time) ==
  /\ user_ref
  /\ deadline[e] = NoDeadline
  /\ deadline' = [deadline EXCEPT ![e] = time]
  /\ data' = data \cup {e}
  /\ resets' = resets + 1
  /\ UNCHANGED <<now, expiry, cancelled, calls, thread, userVars>>

\* CancelAll's section: cancel the timer and post every event with an error.
CancelEvents ==
  /\ expiry' = NoWait
  /\ cancelled' = cancelled \cup data
  /\ data' = {}

CancelAll ==
  /\ user_ref
  /\ CancelEvents
  /\ UNCHANGED <<now, deadline, resets, calls, thread, userVars>>

\* Stop: running_ is cleared in one section, CancelAll is the next one.
Stop ==
  /\ user_ref /\ ~stopping
  /\ running' = FALSE
  /\ stopping' = TRUE
  /\ UNCHANGED <<now, queueVars, cancelled, calls, thread, user_ref, stopped>>

StopCancelAll ==
  /\ stopping
  /\ CancelEvents
  /\ stopping' = FALSE
  /\ stopped' = TRUE
  /\ UNCHANGED <<now, deadline, resets, calls, thread, running, user_ref>>

\* The user drops its shared_ptr.
Release ==
  /\ user_ref /\ ~stopping
  /\ user_ref' = FALSE
  /\ UNCHANGED <<now, queueVars, cancelled, calls, thread, running, stopping,
                 stopped>>

\* Posted ResetTimer calls and the pending wait are bound to shared_from_this.
Unreferenced ==
  /\ ~user_ref
  /\ resets = 0
  /\ expiry = NoWait
  /\ \A t \in Threads : At(t, "idle")

\* ~TimedEvents: Stop, with nobody left to interleave
Destroy ==
  /\ Unreferenced
  /\ running' = FALSE
  /\ CancelEvents
  /\ UNCHANGED <<now, deadline, resets, calls, thread, user_ref, stopping,
                 stopped>>

----------------------------------------------------------------------------
(***************************************************************************)
(* The timer and the io_service.                                           *)
(***************************************************************************)
Tick ==
  /\ now < MaxTime
  /\ now' = now + 1
  /\ UNCHANGED <<queueVars, cancelled, calls, thread, userVars>>

\* The wait completes: HandleTimeout without an error is queued.  A wait that
\* expires_at or cancel aborts reaches HandleTimeout with one and does nothing.
TimerExpires ==
  /\ expiry # NoWait
  /\ expiry <= now
  /\ expiry' = NoWait
  /\ resets' = resets + 1
  /\ UNCHANGED <<now, data, deadline, cancelled, calls, thread, userVars>>

\* ResetTimer reads the clock before it takes the lock.
ResetTimer(t) ==
  /\ At(t, "idle")
  /\ resets > 0
  /\ resets' = resets - 1
  /\ thread' = [thread EXCEPT ![t] = [pc |-> "loop", now |-> now,
                                      event |-> NoEvent]]
  /\ UNCHANGED <<now, data, deadline, expiry, cancelled, calls, userVars>>

FireFront_Early(t, e) ==
  /\ At(t, "loop") /\ running
  /\ IsFront(e) /\ deadline[e] <= thread[t].now + 1
  /\ data' = data \ {e}
  /\ thread' = [thread EXCEPT ![t].pc = "process", ![t].event = e]
  /\ UNCHANGED <<now, deadline, expiry, resets, cancelled, calls, userVars>>

\* An event whose time has come is taken out and the lock released.
FireFront(t, e) ==
  /\ At(t, "loop") /\ running
  /\ IsFront(e) /\ deadline[e] <= thread[t].now
  /\ data' = data \ {e}
  /\ thread' = [thread EXCEPT ![t].pc = "process", ![t].event = e]
  /\ UNCHANGED <<now, deadline, expiry, resets, cancelled, calls, userVars>>

Process_Once(t) ==
  /\ At(t, "process")
  /\ calls' = [calls EXCEPT ![thread[t].event] = Append(@, "ok")]
  /\ thread' = [thread EXCEPT ![t] = IdleThread]
  /\ UNCHANGED <<now, queueVars, cancelled, userVars>>

\* event_processor_(event, no error); then the loop goes on.
Process(t) ==
  /\ At(t, "process")
  /\ calls' = [calls EXCEPT ![thread[t].event] = Append(@, "ok")]
  /\ thread' = [thread EXCEPT ![t].pc = "loop", ![t].event = NoEvent]
  /\ UNCHANGED <<now, queueVars, cancelled, userVars>>

\* expires_at replaces the pending wait by one for the first event.
SetTimer(t, e) ==
  /\ At(t, "loop") /\ running
  /\ IsFront(e) /\ deadline[e] > thread[t].now
  /\ expiry' = deadline[e]
  /\ thread' = [thread EXCEPT ![t] = IdleThread]
  /\ UNCHANGED <<now, data, deadline, resets, cancelled, calls, userVars>>

NothingToDo(t) ==
  /\ At(t, "loop")
  /\ ~running \/ data = {}
  /\ thread' = [thread EXCEPT ![t] = IdleThread]
  /\ UNCHANGED <<now, queueVars, cancelled, calls, userVars>>

\* A posted event_processor_(event, operation_canceled)
ProcessCancelled(t, e) ==
  /\ At(t, "idle")
  /\ e \in cancelled
  /\ cancelled' = cancelled \ {e}
  /\ calls' = [calls EXCEPT ![e] = Append(@, "canceled")]
  /\ UNCHANGED <<now, queueVars, thread, userVars>>

ThreadStep(t) ==
  \/ Process(t)
  \/ NothingToDo(t)
  \/ \E e \in Events : FireFront(t, e) \/ SetTimer(t, e)

Next ==
  \/ \E e \in Events, time \in 0..MaxTime : Add(e, time)
  \/ CancelAll \/ Stop \/ StopCancelAll \/ Release \/ Destroy
  \/ Tick \/ TimerExpires
  \/ \E t \in Threads :
       \/ ResetTimer(t)
       \/ ThreadStep(t)
       \/ \E e \in Events : ProcessCancelled(t, e)

Spec == Init /\ [][Next]_vars

(***************************************************************************)
(* Fairness: the io_service runs what was posted to it, its timer fires, a *)
(* call of Stop ends, time passes, and an unreferenced object is destroyed *)
(* at once.                                                                *)
(***************************************************************************)
FairSpec ==
  /\ Spec
  /\ WF_vars(Tick)
  /\ WF_vars(TimerExpires)
  /\ WF_vars(StopCancelAll)
  /\ WF_vars(Destroy)
  /\ WF_vars(\E t \in Threads : ResetTimer(t))
  /\ \A t \in Threads : WF_vars(ThreadStep(t))
  /\ \A e \in Events : WF_vars(\E t \in Threads : ProcessCancelled(t, e))

----------------------------------------------------------------------------
(***************************************************************************)
(* Properties.                                                             *)
(***************************************************************************)
ThreadStates == [pc : {"idle", "loop", "process"}, now : 0..MaxTime,
                 event : Events \cup {NoEvent}]

\* The shape of every variable; a thread has an event exactly while it calls
\* the processor.
TypeOK ==
  /\ now \in 0..MaxTime
  /\ running \in BOOLEAN
  /\ data \subseteq Events
  /\ deadline \in [Events -> (0..MaxTime) \cup {NoDeadline}]
  /\ expiry \in (0..MaxTime) \cup {NoWait}
  /\ resets \in Nat
  /\ cancelled \subseteq Events
  /\ calls \in [Events -> Seq({"ok", "canceled"})]
  /\ thread \in [Threads -> ThreadStates]
  /\ \A t \in Threads : thread[t].event # NoEvent <=> At(t, "process")
  /\ user_ref \in BOOLEAN /\ stopping \in BOOLEAN /\ stopped \in BOOLEAN

Held == {e \in Events : \E t \in Threads : thread[t].event = e}

\* The refinement mapping: an event is pending while it is in data_, in the
\* hands of a thread or posted with an error.
Promise == INSTANCE Scheduler WITH
  pending <- data \cup Held \cup cancelled, doomed <- cancelled

\* TimedEvents implements Scheduler: each event reaches the processor exactly
\* once, never early, and never both fired and cancelled, whatever ResetTimer,
\* CancelAll, Stop and the destructor interleave to.
Implements == Promise!Spec

\* While running, the earliest event is never forgotten: the timer waits for a
\* time that is not later, or a ResetTimer that will look at it is on its way.
TimerCoversData ==
  running /\ data # {} =>
    \/ resets > 0
    \/ \E t \in Threads : ~At(t, "idle")
    \/ expiry # NoWait /\ \A e \in data : expiry <= deadline[e]

\* An event that is pending while TimedEvents runs reaches the processor, and
\* "when TimedEvents is destroyed, all unfired events will fire": once the user
\* has let go of it, every event added, also one added after Stop, does.
EventHandled ==
  \A e \in Events :
    /\ e \in data /\ running ~> calls[e] # <<>>
    /\ ~user_ref /\ deadline[e] # NoDeadline ~> calls[e] # <<>>
============================================================================
