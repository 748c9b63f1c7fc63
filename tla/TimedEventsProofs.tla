------------------------- MODULE TimedEventsProofs -------------------------
(***************************************************************************)
(* TimedEvents never forgets its earliest event and implements Scheduler,  *)
(* for every number of threads and events.                                 *)
(***************************************************************************)
EXTENDS TimedEvents, TLAPS

USE DEF At, IdleThread, ThreadStates

\* Every pending event is in exactly one place and has a time.
Places ==
  /\ data \cap cancelled = {}
  /\ \A e \in data \cup cancelled : deadline[e] \in 0..MaxTime
  /\ \A t \in Threads : At(t, "process") =>
       /\ thread[t].event \notin data \cup cancelled
       /\ deadline[thread[t].event] \in 0..MaxTime
       /\ \A u \in Threads : u # t => thread[u].event # thread[t].event

\* A handler's clock reading is in the past, and what it fires was due then.
Due ==
  \A t \in Threads :
    /\ thread[t].now <= now
    /\ At(t, "process") => deadline[thread[t].event] <= thread[t].now

\* The inductive invariant.
IInv == TypeOK /\ Places /\ Due /\ TimerCoversData

\* The invariant holds of a new TimedEvents.
LEMMA InitInv == Init => IInv
<1> SUFFICES ASSUME Init PROVE IInv
  OBVIOUS
<1> USE TimeAssumption, ValuesAssumption
<1>1. TypeOK
  <2>1. thread \in [Threads -> ThreadStates]
    <3>1. IdleThread \in ThreadStates
      OBVIOUS
    <3>2. QED
      BY <3>1 DEF Init
  <2>2. calls \in [Events -> Seq({"ok", "canceled"})]
    <3>1. <<>> \in Seq({"ok", "canceled"})
      OBVIOUS
    <3>2. QED
      BY <3>1 DEF Init
  <2>3. \A t \in Threads : thread[t].event # NoEvent <=> At(t, "process")
    BY DEF Init
  <2>4. deadline \in [Events -> (0..MaxTime) \cup {NoDeadline}]
    BY DEF Init
  <2>5. now \in 0..MaxTime /\ resets \in Nat
    BY DEF Init
  <2>6. QED
    BY <2>1, <2>2, <2>3, <2>4, <2>5 DEF Init, TypeOK
<1>2. Places
  BY DEF Init, Places
<1>3. Due
  BY DEF Init, Due
<1>4. TimerCoversData
  BY DEF Init, TimerCoversData
<1>5. QED
  BY <1>1, <1>2, <1>3, <1>4 DEF IInv

\* An Add puts a new event in data_ and has ResetTimer look at it.
LEMMA AddInv ==
  ASSUME IInv, NEW e \in Events, NEW time \in 0..MaxTime, Add(e, time)
  PROVE  IInv'
<1> USE TimeAssumption, ValuesAssumption
<1>1. TypeOK'
  BY DEF IInv, TypeOK, Add, userVars
<1>2. Places'
  BY DEF IInv, TypeOK, Places, Add, userVars
<1>3. Due'
  BY DEF IInv, TypeOK, Places, Due, Add, userVars
<1>4. TimerCoversData'
  BY DEF IInv, TypeOK, TimerCoversData, Add, userVars
<1>5. QED
  BY <1>1, <1>2, <1>3, <1>4 DEF IInv

\* The actions that empty data_ keep the invariant: what they take out of it is
\* posted with an error, and there is nothing left to wait for.
LEMMA CancelInv ==
  ASSUME IInv, CancelAll \/ StopCancelAll \/ Destroy
  PROVE  IInv'
<1> USE TimeAssumption, ValuesAssumption
<1> USE DEF CancelAll, StopCancelAll, Destroy, CancelEvents, userVars
<1>1. TypeOK'
  BY DEF IInv, TypeOK
<1>2. Places'
  BY DEF IInv, TypeOK, Places
<1>3. Due'
  BY DEF IInv, Due
<1>4. TimerCoversData'
  BY DEF TimerCoversData
<1>5. QED
  BY <1>1, <1>2, <1>3, <1>4 DEF IInv

\* Stop's first section, letting go of the object, time and the timer.
LEMMA EnvironmentInv ==
  ASSUME IInv, Stop \/ Release \/ Tick \/ TimerExpires
  PROVE  IInv'
<1> USE TimeAssumption, ValuesAssumption
<1> USE DEF queueVars, userVars
<1>1. TypeOK'
  <2>1. CASE Stop
    BY <2>1 DEF IInv, TypeOK, Stop
  <2>2. CASE Release
    BY <2>2 DEF IInv, TypeOK, Release
  <2>3. CASE Tick
    BY <2>3 DEF IInv, TypeOK, Tick
  <2>4. CASE TimerExpires
    BY <2>4 DEF IInv, TypeOK, TimerExpires
  <2>5. QED
    BY <2>1, <2>2, <2>3, <2>4
<1>2. Places'
  BY DEF IInv, Places, Stop, Release, Tick, TimerExpires
<1>3. Due'
  BY DEF IInv, TypeOK, Due, Stop, Release, Tick, TimerExpires
<1>4. TimerCoversData'
  <2>1. CASE Stop
    BY <2>1 DEF TimerCoversData, Stop
  <2>2. CASE Release \/ Tick
    BY <2>2 DEF IInv, TimerCoversData, Release, Tick
  <2>3. CASE TimerExpires
    BY <2>3 DEF IInv, TypeOK, TimerCoversData, TimerExpires
  <2>4. QED
    BY <2>1, <2>2, <2>3
<1>5. QED
  BY <1>1, <1>2, <1>3, <1>4 DEF IInv

\* The handlers of the io_service.
LEMMA ThreadInv ==
  ASSUME IInv, NEW t \in Threads, ResetTimer(t) \/ ThreadStep(t)
  PROVE  IInv'
<1> USE TimeAssumption, ValuesAssumption
<1> USE DEF IInv, TypeOK, queueVars, userVars
<1>1. CASE ResetTimer(t)
  <2>1. TypeOK'
    BY <1>1 DEF ResetTimer
  <2>2. Places'
    BY <1>1 DEF ResetTimer, Places
  <2>3. Due'
    BY <1>1 DEF ResetTimer, Due
  <2>4. TimerCoversData'
    BY <1>1 DEF ResetTimer, TimerCoversData
  <2>5. QED
    BY <2>1, <2>2, <2>3, <2>4
<1>2. CASE Process(t)
  <2>1. TypeOK'
    BY <1>2 DEF Process
  <2>2. Places'
    BY <1>2 DEF Process, Places
  <2>3. Due'
    BY <1>2 DEF Process, Due
  <2>4. TimerCoversData'
    BY <1>2 DEF Process, TimerCoversData
  <2>5. QED
    BY <2>1, <2>2, <2>3, <2>4
<1>3. CASE NothingToDo(t)
  <2>1. TypeOK'
    BY <1>3 DEF NothingToDo
  <2>2. Places'
    BY <1>3 DEF NothingToDo, Places
  <2>3. Due'
    BY <1>3 DEF NothingToDo, Due
  <2>4. TimerCoversData'
    BY <1>3 DEF NothingToDo, TimerCoversData
  <2>5. QED
    BY <2>1, <2>2, <2>3, <2>4
<1>4. ASSUME NEW e \in Events, FireFront(t, e)
      PROVE  IInv'
  <2>1. TypeOK'
    BY <1>4 DEF FireFront
  <2>2. Places'
    BY <1>4 DEF FireFront, IsFront, Places
  <2>3. Due'
    BY <1>4 DEF FireFront, Due
  <2>4. TimerCoversData'
    BY <1>4 DEF FireFront, TimerCoversData
  <2>5. QED
    BY <2>1, <2>2, <2>3, <2>4
<1>5. ASSUME NEW e \in Events, SetTimer(t, e)
      PROVE  IInv'
  <2>1. TypeOK'
    BY <1>5 DEF SetTimer, IsFront, Places
  <2>2. Places'
    BY <1>5 DEF SetTimer, Places
  <2>3. Due'
    BY <1>5 DEF SetTimer, Due
  <2>4. TimerCoversData'
    BY <1>5 DEF SetTimer, IsFront, Places, TimerCoversData
  <2>5. QED
    BY <2>1, <2>2, <2>3, <2>4
<1>6. QED
  BY <1>1, <1>2, <1>3, <1>4, <1>5 DEF ThreadStep

\* Calling the processor for a cancelled event.
LEMMA CancelledInv ==
  ASSUME IInv, NEW t \in Threads, NEW e \in Events, ProcessCancelled(t, e)
  PROVE  IInv'
<1> USE TimeAssumption, ValuesAssumption
<1> USE DEF ProcessCancelled, queueVars, userVars
<1>1. TypeOK'
  BY DEF IInv, TypeOK
<1>2. Places'
  BY DEF IInv, Places
<1>3. Due'
  BY DEF IInv, Due
<1>4. TimerCoversData'
  BY DEF IInv, TimerCoversData
<1>5. QED
  BY <1>1, <1>2, <1>3, <1>4 DEF IInv

\* Every step keeps the invariant.
LEMMA NextInv == IInv /\ [Next]_vars => IInv'
<1> SUFFICES ASSUME IInv, [Next]_vars PROVE IInv'
  OBVIOUS
<1>1. CASE Next
  BY <1>1, AddInv, CancelInv, EnvironmentInv, ThreadInv, CancelledInv DEF Next
<1>2. CASE UNCHANGED vars
  BY <1>2 DEF vars, queueVars, userVars, IInv, TypeOK, Places, Due, TimerCoversData
<1>3. QED
  BY <1>1, <1>2

\* So it always holds.
LEMMA InvAlways == Spec => []IInv
  BY InitInv, NextInv, PTL DEF Spec

\* The timer is never set too late: for every number of threads and events,
\* while TimedEvents runs, its timer or a queued ResetTimer covers the earliest
\* event.
THEOREM TimerAlwaysCovers == Spec => []TimerCoversData
<1>1. IInv => TimerCoversData
  BY DEF IInv
<1>2. QED
  BY <1>1, InvAlways, PTL

----------------------------------------------------------------------------
(***************************************************************************)
(* The refinement: every step is a step of Scheduler or none.              *)
(***************************************************************************)

\* The events in the threads' hands after a step that leaves them alone.
LEMMA HeldKept ==
  ASSUME thread' = thread PROVE Held' = Held
  BY DEF Held

\* A step of one thread that neither takes an event nor hands one over.
LEMMA HeldQuiet ==
  ASSUME TypeOK, NEW t \in Threads,
         thread[t].event = NoEvent,
         NEW th, th.event = NoEvent, thread' = [thread EXCEPT ![t] = th]
  PROVE  Held' = Held
<1>1. \A u \in Threads : thread'[u].event = thread[u].event
  BY DEF TypeOK
<1>2. QED
  BY <1>1 DEF Held

\* The steps of the public methods map to steps of Scheduler.
LEMMA UserRefines ==
  ASSUME IInv,
         \/ \E e \in Events, time \in 0..MaxTime : Add(e, time)
         \/ CancelAll \/ Stop \/ StopCancelAll \/ Release \/ Destroy
  PROVE  [Promise!Next]_Promise!vars
<1>1. ASSUME NEW e \in Events, NEW time \in 0..MaxTime, Add(e, time)
      PROVE  Promise!Add(e, time)
  <2>1. Held' = Held
    BY <1>1, HeldKept DEF Add
  <2>2. QED
    BY <1>1, <2>1 DEF Add, Promise!Add
<1>2. CASE CancelAll \/ StopCancelAll \/ Destroy
  <2>1. Held' = Held
    BY <1>2, HeldKept DEF CancelAll, StopCancelAll, Destroy
  <2>2. /\ data \subseteq data \cup Held \cup cancelled
        /\ cancelled' = cancelled \cup data
        /\ data' = {}
        /\ UNCHANGED <<now, deadline, calls>>
    BY <1>2 DEF CancelAll, StopCancelAll, Destroy, CancelEvents
  <2>3. Promise!Cancel(data)
    BY <2>1, <2>2 DEF Promise!Cancel
  <2>4. QED
    BY <2>2, <2>3 DEF Promise!Next
<1>3. CASE Stop \/ Release
  <2>1. Held' = Held
    BY <1>3, HeldKept DEF Stop, Release
  <2>2. QED
    BY <1>3, <2>1 DEF Stop, Release, queueVars, Promise!vars
<1>4. QED
  BY <1>1, <1>2, <1>3 DEF Promise!Next

\* So do the steps of the timer and the io_service.
LEMMA ThreadRefines ==
  ASSUME IInv, NEW t \in Threads,
         ResetTimer(t) \/ ThreadStep(t) \/ \E e \in Events : ProcessCancelled(t, e)
  PROVE  [Promise!Next]_Promise!vars
<1> USE ValuesAssumption
<1>1. CASE ResetTimer(t)
  <2>1. Held' = Held
    BY <1>1, HeldQuiet DEF ResetTimer, IInv, TypeOK
  <2>2. QED
    BY <1>1, <2>1 DEF ResetTimer, Promise!vars
<1>2. CASE Process(t)
  <2> DEFINE e == thread[t].event
  <2>1. e \in Events /\ e \notin data \cup cancelled /\ e \in Held
    BY <1>2 DEF Process, IInv, TypeOK, Places, Held
  <2>2. \A u \in Threads :
          thread'[u].event = IF u = t THEN NoEvent ELSE thread[u].event
    BY <1>2 DEF Process, IInv, TypeOK
  <2>3. Held' = Held \ {e}
    <3>1. \A u \in Threads : u # t => thread[u].event # e
      BY <1>2 DEF Process, IInv, Places
    <3>2. \A f \in Events :
            (\E u \in Threads : thread'[u].event = f)
              <=> f # e /\ \E u \in Threads : thread[u].event = f
      BY <2>2, <3>1
    <3>3. QED
      BY <3>2 DEF Held
  <2>4. deadline[e] <= now
    BY <1>2 DEF Process, IInv, TypeOK, Places, Due
  <2>5. Promise!Fire(e)
    BY <1>2, <2>1, <2>3, <2>4 DEF Process, queueVars, Promise!Fire
  <2>6. QED
    BY <2>1, <2>5 DEF Promise!Next
<1>3. CASE NothingToDo(t)
  <2>1. Held' = Held
    BY <1>3, HeldQuiet DEF NothingToDo, IInv, TypeOK
  <2>2. QED
    BY <1>3, <2>1 DEF NothingToDo, queueVars, Promise!vars
<1>4. ASSUME NEW e \in Events, FireFront(t, e)
      PROVE  UNCHANGED Promise!vars
  <2>1. \A u \in Threads :
          thread'[u].event = IF u = t THEN e ELSE thread[u].event
    BY <1>4 DEF FireFront, IInv, TypeOK
  <2>2. Held' = Held \cup {e}
    BY <1>4, <2>1 DEF FireFront, IInv, TypeOK, Held
  <2>3. e \in data /\ data' = data \ {e} /\ cancelled' = cancelled
    BY <1>4 DEF FireFront, IsFront
  <2>4. data' \cup Held' \cup cancelled' = data \cup Held \cup cancelled
    BY <2>2, <2>3
  <2>5. QED
    BY <1>4, <2>4 DEF FireFront, Promise!vars
<1>5. ASSUME NEW e \in Events, SetTimer(t, e)
      PROVE  UNCHANGED Promise!vars
  <2>1. Held' = Held
    BY <1>5, HeldQuiet DEF SetTimer, IInv, TypeOK
  <2>2. QED
    BY <1>5, <2>1 DEF SetTimer, Promise!vars
<1>6. ASSUME NEW e \in Events, ProcessCancelled(t, e)
      PROVE  Promise!Abort(e)
  <2>1. Held' = Held
    BY <1>6, HeldKept DEF ProcessCancelled
  <2>2. e \notin data /\ e \notin Held
    BY <1>6 DEF ProcessCancelled, IInv, TypeOK, Places, Held
  <2>3. QED
    BY <1>6, <2>1, <2>2 DEF ProcessCancelled, queueVars, Promise!Abort
<1>7. QED
  BY <1>1, <1>2, <1>3, <1>4, <1>5, <1>6 DEF ThreadStep, Promise!Next

\* TimedEvents implements Scheduler, for every number of threads and events:
\* whatever the handlers, CancelAll, Stop and the destructor interleave to, an
\* event reaches the processor at most once, never early, and never both fired
\* and cancelled.
THEOREM Refinement == Spec => Implements
<1>1. Init => Promise!Init
  BY ValuesAssumption DEF Init, Promise!Init, Held
<1>2. IInv /\ [Next]_vars => [Promise!Next]_Promise!vars
  <2> SUFFICES ASSUME IInv, [Next]_vars PROVE [Promise!Next]_Promise!vars
    OBVIOUS
  <2>1. CASE Tick
    BY <2>1, HeldKept DEF Tick, queueVars, Promise!Tick, Promise!Next
  <2>2. CASE TimerExpires
    BY <2>2, HeldKept DEF TimerExpires, Promise!vars
  <2>3. CASE UNCHANGED vars
    BY <2>3, HeldKept DEF vars, queueVars, Promise!vars
  <2>4. QED
    BY <2>1, <2>2, <2>3, UserRefines, ThreadRefines DEF Next
<1>3. QED
  BY <1>1, <1>2, InvAlways, PTL DEF Spec, Implements, Promise!Spec
============================================================================
