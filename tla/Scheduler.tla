----------------------------- MODULE Scheduler -----------------------------
(***************************************************************************)
(* What TimedEvents promises, without its timer, its lock and its          *)
(* io_service: every event that was added is handed to the event processor *)
(* exactly once, either without an error and not before its time, or, if   *)
(* it was cancelled first, with one.                                       *)
(***************************************************************************)
EXTENDS Naturals, Sequences

CONSTANTS Events, MaxTime, NoDeadline

VARIABLES
  now,       \* the steady clock
  deadline,  \* the time an event was added for
  pending,   \* events added and not yet handed to the processor
  doomed,    \* pending events that will be handed over with an error
  calls      \* per event: the error codes the processor was called with

vars == <<now, deadline, pending, doomed, calls>>

Init ==
  /\ now = 0
  /\ deadline = [e \in Events |-> NoDeadline]
  /\ pending = {}
  /\ doomed = {}
  /\ calls = [e \in Events |-> <<>>]

Tick ==
  /\ now' = now + 1
  /\ UNCHANGED <<deadline, pending, doomed, calls>>

Add(e, time) ==
  /\ deadline[e] = NoDeadline
  /\ deadline' = [deadline EXCEPT ![e] = time]
  /\ pending' = pending \cup {e}
  /\ UNCHANGED <<now, doomed, calls>>

Fire(e) ==
  /\ e \in pending \ doomed
  /\ deadline[e] <= now
  /\ pending' = pending \ {e}
  /\ calls' = [calls EXCEPT ![e] = Append(@, "ok")]
  /\ UNCHANGED <<now, deadline, doomed>>

Cancel(S) ==
  /\ S \subseteq pending
  /\ doomed' = doomed \cup S
  /\ UNCHANGED <<now, deadline, pending, calls>>

Abort(e) ==
  /\ e \in doomed
  /\ pending' = pending \ {e}
  /\ doomed' = doomed \ {e}
  /\ calls' = [calls EXCEPT ![e] = Append(@, "canceled")]
  /\ UNCHANGED <<now, deadline>>

Next ==
  \/ Tick
  \/ \E S \in SUBSET pending : Cancel(S)
  \/ \E e \in Events :
       \/ \E time \in 0..MaxTime : Add(e, time)
       \/ Fire(e)
       \/ Abort(e)

Spec == Init /\ [][Next]_vars
============================================================================
