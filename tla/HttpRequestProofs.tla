------------------------- MODULE HttpRequestProofs --------------------------
(***************************************************************************)
(* What one HTTP request guarantees for every request, configuration,      *)
(* timeout and number of redirects and reads, when one thread runs the     *)
(* work io_service.                                                        *)
(***************************************************************************)
EXTENDS HttpRequest, FiniteSetTheorems, SequenceTheorems, TLAPS

-----------------------------------------------------------------------------
(* The inductive invariant *)

\* The operation that the machine waits for: its state was not left and its
\* handler has not returned.
Live(o) == ~o.cancelled /\ o.handler # "done"

NoneLive(q) == \A n \in DOMAIN q : ~Live(q[n])

\* The state that starts an operation.
StateOf ==
    [resolve |-> "Resolve", connect |-> "Connect",
     proxy_write |-> "ProxyConnect", proxy_read |-> "ProxyConnect",
     handshake |-> "SSLHandshake", header |-> "SendHeader",
     post |-> "SendPost", read_headers |-> "ReadHeaders",
     read_content |-> "ReadContent"]

\* What a handler can be called with.
ResultOK(o) ==
    /\ o.kind # "read_headers" => o.result \in {"ok", "failed", "malformed", "more"}
    /\ o.result = "more" => o.kind = "read_content"
    /\ o.kind \in {"proxy_write", "post"} => o.result # "malformed"

\* The timer of an operation and its RacePreventer.
TimerOK(o) ==
    /\ o.timer = "armed" => o.current /\ o.left > 0
    /\ o.timer = "fired" => o.left = 0
    /\ o.timer = "aborted" => ~o.current
    /\ o.timer = "running" =>
          (o.timer_first <=> ~o.taken) /\ (o.current => o.left = 0)

\* An operation that is waited for has the current id, and a handler that
\* runs was the first and is not too late.
HandlerOK(o) ==
    /\ Live(o) => o.current
    /\ o.handler = "running" => ~o.cancelled /\ ~o.taken /\ ResultOK(o)

OneCurrent(q) ==
    \A m, n \in DOMAIN q : q[m].current /\ q[n].current => m = n

OneHandler(q) ==
    \A m, n \in DOMAIN q :
       /\ ~(q[m].handler = "running" /\ q[n].timer = "running")
       /\ q[m].timer = "running" /\ q[n].timer = "running" => m = n

OpsOK(q) ==
    /\ IsFiniteSet(DOMAIN q)
    /\ q \in [DOMAIN q -> Ops]
    /\ \A n \in DOMAIN q : TimerOK(q[n]) /\ HandlerOK(q[n])
    /\ OneCurrent(q)
    /\ OneHandler(q)

\* An operation whose state was not left belongs to the state and attempt.
Placed(q, s, a) ==
    \A n \in DOMAIN q : ~q[n].cancelled => s = StateOf[q[n].kind] /\ q[n].of = a

\* While no event is handled, the operation that is waited for is guarded.
Guarded(q) ==
    \A n \in DOMAIN q : Live(q[n]) =>
       ~q[n].taken /\ q[n].timer \in {"armed", "fired", "running"}

\* No handler runs.
Still(q) ==
    \A n \in DOMAIN q : q[n].handler # "running" /\ q[n].timer # "running"

\* Every operation with the current id is waited for, for so long at least.
CurrentLive(q) == \A n \in DOMAIN q : q[n].current => Live(q[n])
CurrentFor(q, seconds) ==
    \A n \in DOMAIN q : q[n].current => q[n].left >= seconds

-----------------------------------------------------------------------------
(* The operators on the operations *)

\* There is always a number left.
LEMMA NumberIsFree ==
  ASSUME NEW used, IsFiniteSet(used)
  PROVE  FreeNumber(used) \notin used /\ FreeNumber(used) \in Nat
<1>. DEFINE c == Cardinality(used)
<1>1. c \in Nat
  BY FS_CardinalityType
<1>2. IsFiniteSet(1 .. c + 1) /\ Cardinality(1 .. c + 1) = c + 1
  <2>1. 1 \in Int /\ c + 1 \in Int
    BY <1>1
  <2>. QED  BY <1>1, <2>1, FS_Interval
<1>3. \E n \in 1 .. c + 1 : n \notin used
  <2>. SUFFICES ASSUME 1 .. c + 1 \subseteq used  PROVE FALSE
    OBVIOUS
  <2>1. Cardinality(1 .. c + 1) <= c
    BY FS_Subset
  <2>. QED  BY <1>1, <1>2, <2>1
<1>4. FreeNumber(used) \in 1 .. c + 1 /\ FreeNumber(used) \notin used
  BY <1>3 DEF FreeNumber
<1>. QED  BY <1>1, <1>4

\* What Outstanding leaves out is over.
LEMMA OutstandingOps ==
  ASSUME NEW q, q \in [DOMAIN q -> Ops]
  PROVE  LET e == Outstanding(q) IN
         /\ DOMAIN e \subseteq DOMAIN q
         /\ \A n \in DOMAIN e : e[n] = q[n]
         /\ e \in [DOMAIN e -> Ops]
         /\ \A n \in DOMAIN q : Live(q[n]) => n \in DOMAIN e
         /\ \A n \in DOMAIN q \ DOMAIN e : q[n].handler = "done" /\ q[n].timer = "done"
BY DEF Outstanding, Restrict, Live

\* The outstanding operations of well-formed ones are well formed.
LEMMA OutstandingOK ==
  ASSUME NEW q, OpsOK(q)
  PROVE  OpsOK(Outstanding(q))
<1>. DEFINE e == Outstanding(q)
<1>1. /\ DOMAIN e \subseteq DOMAIN q
      /\ \A n \in DOMAIN e : e[n] = q[n]
      /\ e \in [DOMAIN e -> Ops]
  BY OutstandingOps DEF OpsOK
<1>2. IsFiniteSet(DOMAIN e)
  BY <1>1, FS_Subset DEF OpsOK
<1>. QED  BY <1>1, <1>2 DEF OpsOK, OneCurrent, OneHandler

\* ClearAsyncTimeout leaves no operation with the current id, and changes
\* nothing else but timers that are armed.
LEMMA ClearOps ==
  ASSUME NEW q, q \in [DOMAIN q -> Ops]
  PROVE  LET e == ClearAsyncTimeout(q) IN
         /\ DOMAIN e = DOMAIN q
         /\ e \in [DOMAIN q -> Ops]
         /\ \A n \in DOMAIN q :
               /\ ~e[n].current
               /\ e[n].kind = q[n].kind /\ e[n].of = q[n].of
               /\ e[n].cancelled = q[n].cancelled /\ e[n].taken = q[n].taken
               /\ e[n].handler = q[n].handler /\ e[n].result = q[n].result
               /\ e[n].left = q[n].left /\ e[n].timer_first = q[n].timer_first
               /\ \/ e[n].timer = q[n].timer /\ (q[n].timer = "armed" => ~q[n].current)
                  \/ q[n].timer = "armed" /\ e[n].timer \in {"done", "aborted"}
<1>. DEFINE e == ClearAsyncTimeout(q)
<1>1. DOMAIN e = DOMAIN q
  BY DEF ClearAsyncTimeout
<1>2. ASSUME NEW n \in DOMAIN q
      PROVE  /\ e[n] \in Ops
             /\ ~e[n].current
             /\ e[n].kind = q[n].kind /\ e[n].of = q[n].of
             /\ e[n].cancelled = q[n].cancelled /\ e[n].taken = q[n].taken
             /\ e[n].handler = q[n].handler /\ e[n].result = q[n].result
             /\ e[n].left = q[n].left /\ e[n].timer_first = q[n].timer_first
             /\ \/ e[n].timer = q[n].timer /\ (q[n].timer = "armed" => ~q[n].current)
                \/ q[n].timer = "armed" /\ e[n].timer \in {"done", "aborted"}
  BY DEF ClearAsyncTimeout, Ops
<1>3. e \in [DOMAIN q -> Ops]
  BY <1>2 DEF ClearAsyncTimeout
<1>. QED  BY <1>1, <1>2, <1>3

\* An operation is started when none is waited for.
LEMMA SetOps ==
  ASSUME NEW q, OpsOK(q), NoneLive(q), Still(q), attempt \in Nat,
         NEW kind \in Kinds, NEW seconds \in Nat \ {0}
  PROVE  LET e == Outstanding(SetAsyncTimeout(q, kind, seconds, FALSE)) IN
         /\ OpsOK(e) /\ Still(e) /\ Guarded(e) /\ ~NoneLive(e)
         /\ CurrentLive(e) /\ CurrentFor(e, seconds)
         /\ Placed(q, StateOf[kind], attempt) => Placed(e, StateOf[kind], attempt)
<1>. DEFINE new == FreeNumber(DOMAIN q)
            o == NewOp(kind, seconds, FALSE)
            c == ClearAsyncTimeout(q)
            f == SetAsyncTimeout(q, kind, seconds, FALSE)
            e == Outstanding(f)
<1>1. new \notin DOMAIN q
  BY NumberIsFree DEF OpsOK
<1>2. /\ o \in Ops /\ o.kind = kind /\ o.of = attempt /\ ~o.cancelled /\ ~o.taken
      /\ o.handler = "waiting" /\ o.timer = "armed" /\ o.left = seconds /\ o.current
  BY DEF NewOp, Ops, Results
<1>3. /\ DOMAIN c = DOMAIN q
      /\ c \in [DOMAIN q -> Ops]
  BY ClearOps DEF OpsOK
<1>4. \A n \in DOMAIN q :
               /\ ~c[n].current
               /\ c[n].kind = q[n].kind /\ c[n].of = q[n].of
               /\ c[n].cancelled = q[n].cancelled /\ c[n].taken = q[n].taken
               /\ c[n].handler = q[n].handler /\ c[n].result = q[n].result
               /\ c[n].left = q[n].left /\ c[n].timer_first = q[n].timer_first
               /\ \/ c[n].timer = q[n].timer /\ (q[n].timer = "armed" => ~q[n].current)
                  \/ q[n].timer = "armed" /\ c[n].timer \in {"done", "aborted"}
  BY ClearOps DEF OpsOK
<1>5. /\ DOMAIN f = DOMAIN q \cup {new}
      /\ f[new] = o
      /\ \A n \in DOMAIN q : f[n] = c[n]
      /\ f \in [DOMAIN f -> Ops]
  <2>1. f = [n \in DOMAIN q \cup {new} |-> IF n \in DOMAIN q THEN c[n] ELSE o]
    BY <1>3 DEF SetAsyncTimeout, AddOp
  <2>. QED  BY <2>1, <1>1, <1>2, <1>3
<1>. HIDE DEF new, o, c, f
<1>6. IsFiniteSet(DOMAIN f)
  BY <1>5, FS_AddElement DEF OpsOK
<1>7. \A n \in DOMAIN q : ~Live(f[n]) /\ ~f[n].current
                          /\ f[n].handler # "running" /\ f[n].timer # "running"
  BY <1>4, <1>5 DEF NoneLive, Live, Still
<1>8. \A n \in DOMAIN q : TimerOK(f[n]) /\ HandlerOK(f[n])
  BY <1>4, <1>5, <1>7 DEF OpsOK, TimerOK, HandlerOK
<1>9. Live(o) /\ TimerOK(o) /\ HandlerOK(o)
  BY <1>2 DEF Live, TimerOK, HandlerOK
<1>10. OpsOK(f)
  BY <1>2, <1>5, <1>6, <1>7, <1>8, <1>9 DEF OpsOK, OneCurrent, OneHandler
<1>11. OpsOK(e)
  BY <1>10, OutstandingOK
<1>12. /\ DOMAIN e \subseteq DOMAIN f
       /\ \A n \in DOMAIN e : e[n] = f[n]
       /\ new \in DOMAIN e
  BY <1>5, <1>9, OutstandingOps
<1>13. Still(e) /\ Guarded(e) /\ ~NoneLive(e)
  BY <1>2, <1>5, <1>7, <1>9, <1>12 DEF Still, Guarded, NoneLive
<1>14. CurrentLive(e) /\ CurrentFor(e, seconds)
  BY <1>2, <1>5, <1>7, <1>9, <1>12 DEF CurrentLive, CurrentFor
<1>15. Placed(q, StateOf[kind], attempt) => Placed(e, StateOf[kind], attempt)
  BY <1>2, <1>4, <1>5, <1>12 DEF Placed
<1>. QED  BY <1>11, <1>13, <1>14, <1>15 DEF f

\* A state is left while no handler runs: nothing is waited for any more.
LEMMA ExitOps ==
  ASSUME NEW q, OpsOK(q), Still(q)
  PROVE  LET e == ExitState(q) IN
         /\ OpsOK(e) /\ Still(e) /\ NoneLive(e)
         /\ \A n \in DOMAIN e : e[n].cancelled
<1>. DEFINE e == ExitState(q)
<1>1. DOMAIN e = DOMAIN q
  BY DEF ExitState
<1>2. ASSUME NEW n \in DOMAIN q
      PROVE  /\ e[n] \in Ops /\ e[n].cancelled
             /\ e[n].timer = q[n].timer /\ e[n].handler = q[n].handler
             /\ e[n].current = q[n].current /\ e[n].left = q[n].left
             /\ e[n].taken = q[n].taken /\ e[n].timer_first = q[n].timer_first
  BY DEF ExitState, KindLeft, OpsOK, Ops, Kinds
<1>3. e \in [DOMAIN e -> Ops]
  BY <1>1, <1>2 DEF ExitState
<1>4. \A n \in DOMAIN q : e[n].handler # "running" /\ e[n].timer # "running" /\ ~Live(e[n])
  BY <1>2 DEF Still, Live
<1>5. \A n \in DOMAIN q : TimerOK(e[n]) /\ HandlerOK(e[n])
  BY <1>2, <1>4 DEF OpsOK, TimerOK, HandlerOK
<1>6. OneCurrent(e) /\ OneHandler(e)
  BY <1>1, <1>2, <1>4 DEF OpsOK, OneCurrent, OneHandler
<1>7. IsFiniteSet(DOMAIN e)
  BY <1>1 DEF OpsOK
<1>. QED  BY <1>1, <1>2, <1>3, <1>4, <1>5, <1>6, <1>7 DEF OpsOK, Still, NoneLive

\* The operations after a state was left.
LEMMA LeaveOps ==
  ASSUME NEW q, OpsOK(q), Still(q), NEW s, NEW a
  PROVE  LET e == Outstanding(ExitState(q)) IN
         OpsOK(e) /\ Still(e) /\ NoneLive(e) /\ Guarded(e) /\ Placed(e, s, a)
<1>. DEFINE x == ExitState(q)  e == Outstanding(x)
<1>1. OpsOK(x) /\ Still(x) /\ NoneLive(x) /\ \A n \in DOMAIN x : x[n].cancelled
  BY ExitOps
<1>. HIDE DEF x
<1>2. OpsOK(e) /\ DOMAIN e \subseteq DOMAIN x /\ \A n \in DOMAIN e : e[n] = x[n]
  BY <1>1, OutstandingOK, OutstandingOps DEF OpsOK
<1>3. Still(e) /\ NoneLive(e) /\ Guarded(e) /\ Placed(e, s, a)
  BY <1>1, <1>2 DEF Still, NoneLive, Guarded, Placed
<1>. QED  BY <1>2, <1>3 DEF x

\* The operations after the entry of a state that starts one.
LEMMA StartOps ==
  ASSUME NEW q, OpsOK(q), Still(q), attempt \in Nat,
         NEW kind \in Kinds, NEW seconds \in Nat \ {0}
  PROVE  LET e == Outstanding(SetAsyncTimeout(ExitState(q), kind, seconds, FALSE)) IN
         /\ OpsOK(e) /\ Still(e) /\ Guarded(e) /\ ~NoneLive(e)
         /\ CurrentLive(e) /\ CurrentFor(e, seconds)
         /\ Placed(e, StateOf[kind], attempt)
<1>. DEFINE x == ExitState(q)
<1>1. OpsOK(x) /\ Still(x) /\ NoneLive(x) /\ \A n \in DOMAIN x : x[n].cancelled
  BY ExitOps
<1>. HIDE DEF x
<1>2. Placed(x, StateOf[kind], attempt)
  BY <1>1 DEF Placed
<1>3. LET e == Outstanding(SetAsyncTimeout(x, kind, seconds, FALSE)) IN
         /\ OpsOK(e) /\ Still(e) /\ Guarded(e) /\ ~NoneLive(e)
         /\ CurrentLive(e) /\ CurrentFor(e, seconds)
         /\ Placed(e, StateOf[kind], attempt)
  BY <1>1, <1>2, SetOps
<1>. QED  BY <1>3 DEF x

\* A handler that was the first ends the wait for its operation.
LEMMA FirstOps ==
  ASSUME NEW q, OpsOK(q), NEW i \in DOMAIN q, q[i].handler = "running"
  PROVE  LET e == First(q, i) IN
         /\ OpsOK(e) /\ Still(e) /\ NoneLive(e) /\ Guarded(e)
         /\ \A n \in DOMAIN e : ~e[n].current
         /\ \A s, a : Placed(q, s, a) => Placed(e, s, a)
<1>. DEFINE d == [q EXCEPT ![i] = HandlerDone(@)]
            e == ClearAsyncTimeout(d)
<1>1. /\ HandlerDone(q[i]) \in Ops
      /\ HandlerDone(q[i]).handler = "done"
      /\ HandlerDone(q[i]).kind = q[i].kind /\ HandlerDone(q[i]).of = q[i].of
      /\ HandlerDone(q[i]).cancelled = q[i].cancelled
      /\ HandlerDone(q[i]).timer = q[i].timer /\ HandlerDone(q[i]).left = q[i].left
      /\ HandlerDone(q[i]).current = q[i].current
  BY DEF HandlerDone, OpsOK, Ops, Results
<1>2. /\ DOMAIN d = DOMAIN q /\ d \in [DOMAIN d -> Ops]
      /\ d[i] = HandlerDone(q[i])
      /\ \A n \in DOMAIN q \ {i} : d[n] = q[n]
  BY <1>1 DEF OpsOK
<1>3. /\ Live(q[i]) /\ q[i].current
      /\ \A n \in DOMAIN q : q[n].timer # "running"
  BY DEF OpsOK, HandlerOK, Live, OneHandler
<1>4. \A n \in DOMAIN q \ {i} : ~q[n].current /\ ~Live(q[n]) /\ q[n].handler # "running"
  BY <1>3 DEF OpsOK, HandlerOK, OneCurrent, Live
<1>. HIDE DEF d
<1>5. \A n \in DOMAIN q : /\ ~Live(d[n]) /\ d[n].handler # "running" /\ d[n].timer # "running"
                          /\ d[n].timer = q[n].timer /\ d[n].left = q[n].left
                          /\ d[n].kind = q[n].kind /\ d[n].of = q[n].of
                          /\ d[n].cancelled = q[n].cancelled
                          /\ d[n].current = q[n].current
  BY <1>1, <1>2, <1>3, <1>4 DEF Live
<1>6. DOMAIN e = DOMAIN d /\ e \in [DOMAIN e -> Ops]
  BY <1>2, ClearOps
<1>7. \A n \in DOMAIN d :
               /\ ~e[n].current
               /\ e[n].kind = d[n].kind /\ e[n].of = d[n].of
               /\ e[n].cancelled = d[n].cancelled
               /\ e[n].handler = d[n].handler
               /\ e[n].left = d[n].left
               /\ \/ e[n].timer = d[n].timer /\ (d[n].timer = "armed" => ~d[n].current)
                  \/ d[n].timer = "armed" /\ e[n].timer \in {"done", "aborted"}
  BY <1>2, ClearOps
<1>. HIDE DEF e
<1>8. \A n \in DOMAIN q : /\ ~Live(e[n]) /\ e[n].handler # "running" /\ e[n].timer # "running"
                          /\ HandlerOK(e[n])
  BY <1>2, <1>5, <1>7 DEF Live, HandlerOK
<1>9. \A n \in DOMAIN q : TimerOK(e[n])
  BY <1>2, <1>5, <1>7 DEF OpsOK, TimerOK
<1>10. OpsOK(e)
  BY <1>2, <1>6, <1>7, <1>8, <1>9 DEF OpsOK, OneCurrent, OneHandler
<1>11. Still(e) /\ NoneLive(e) /\ Guarded(e)
  BY <1>2, <1>6, <1>8 DEF Still, NoneLive, Guarded
<1>12. ASSUME NEW s, NEW a, Placed(q, s, a)  PROVE Placed(e, s, a)
  BY <1>2, <1>5, <1>6, <1>7, <1>12 DEF Placed
<1>. QED  BY <1>2, <1>6, <1>7, <1>10, <1>11, <1>12 DEF e, d, First


-----------------------------------------------------------------------------
(* The handlers of the operations and of the timer *)

\* The same operation is waited for, for the same time.
SameWait(e, q) ==
    /\ DOMAIN e \subseteq DOMAIN q
    /\ \A n \in DOMAIN e :
          /\ Live(e[n]) <=> Live(q[n])
          /\ e[n].current => q[n].current
          /\ e[n].left = q[n].left
          /\ e[n].of = q[n].of
          /\ ~e[n].cancelled => ~q[n].cancelled /\ e[n].kind = q[n].kind
    /\ \A n \in DOMAIN q : Live(q[n]) => n \in DOMAIN e

\* Operations that agree on what is waited for satisfy the same facts about it.
LEMMA SameWaitKeeps ==
  ASSUME NEW e, NEW q, SameWait(e, q), NEW s, NEW a, NEW seconds
  PROVE  /\ NoneLive(e) <=> NoneLive(q)
         /\ CurrentLive(q) => CurrentLive(e)
         /\ CurrentFor(q, seconds) => CurrentFor(e, seconds)
         /\ Placed(q, s, a) => Placed(e, s, a)
BY DEF SameWait, NoneLive, CurrentLive, CurrentFor, Placed

\* Dropping the operations that nothing is outstanding of keeps what is waited for.
LEMMA SameWaitOutstanding ==
  ASSUME NEW e, NEW q, SameWait(e, q), OpsOK(e)
  PROVE  SameWait(Outstanding(e), q)
<1>. DEFINE o == Outstanding(e)
<1>1. /\ DOMAIN o \subseteq DOMAIN e
      /\ \A n \in DOMAIN o : o[n] = e[n]
      /\ \A n \in DOMAIN e : Live(e[n]) => n \in DOMAIN o
  BY OutstandingOps DEF OpsOK
<1>. HIDE DEF o
<1>2. SameWait(o, q)
  BY <1>1 DEF SameWait
<1>. QED  BY <1>2 DEF o

\* With one thread a handler starts only when nothing else runs.
LEMMA OneThread ==
  ASSUME Threads = 1, OpsOK(ops)
  PROVE  /\ HandlerMayRun => Still(ops) /\ evq = <<>> /\ strand = <<>>
         /\ StrandMayRun => Still(ops) /\ evq = <<>>
<1>1. IsFiniteSet(Running)
  BY FS_Subset DEF Running, OpsOK
<1>2. Cardinality(Running) \in Nat /\ (Cardinality(Running) = 0 <=> Running = {})
  BY <1>1, FS_CardinalityType, FS_EmptySet
<1>3. Running = {} => \A n \in DOMAIN ops : ops[n].handler # "running"
  BY DEF Running
<1>4. ~StrandHeld => evq = <<>> /\ \A n \in DOMAIN ops : ops[n].timer # "running"
  BY DEF StrandHeld
<1>5. HandlerMayRun => Running = {} /\ ~StrandHeld /\ strand = <<>>
  BY <1>2 DEF HandlerMayRun
<1>6. StrandMayRun => Running = {} /\ ~StrandHeld
  BY <1>2 DEF StrandMayRun
<1>. QED  BY <1>3, <1>4, <1>5, <1>6 DEF Still

\* One record is replaced by one that is as good.
LEMMA ReplaceOps ==
  ASSUME NEW q, OpsOK(q), NEW i \in DOMAIN q, NEW o \in Ops,
         TimerOK(o), HandlerOK(o), Live(o) <=> Live(q[i]), o.current <=> q[i].current,
         o.left = q[i].left, o.cancelled \/ o.kind = q[i].kind, o.of = q[i].of,
         o.cancelled <=> q[i].cancelled,
         NEW e, e = [q EXCEPT ![i] = o], OneHandler(e)
  PROVE  OpsOK(e) /\ SameWait(e, q) /\ OpsOK(Outstanding(e)) /\ SameWait(Outstanding(e), q)
<1>1. /\ DOMAIN e = DOMAIN q /\ e \in [DOMAIN e -> Ops] /\ e[i] = o
      /\ \A n \in DOMAIN q \ {i} : e[n] = q[n]
  BY DEF OpsOK
<1>2. \A n \in DOMAIN q : TimerOK(e[n]) /\ HandlerOK(e[n])
  BY <1>1 DEF OpsOK
<1>3. OneCurrent(e)
  BY <1>1 DEF OpsOK, OneCurrent
<1>4. OpsOK(e)
  BY <1>1, <1>2, <1>3 DEF OpsOK
<1>5. SameWait(e, q)
  BY <1>1 DEF SameWait
<1>. QED  BY <1>4, <1>5, OutstandingOK, SameWaitOutstanding

\* o is the record q[i] but for its handler, timer and RacePreventer.
Alike(o, p) ==
    /\ o \in Ops
    /\ o.current <=> p.current
    /\ o.cancelled <=> p.cancelled
    /\ o.left = p.left /\ (o.cancelled \/ o.kind = p.kind) /\ o.of = p.of

\* HandlerRuns: the handler of the operation that is waited for goes on.
LEMMA HandlerRunsOps ==
  ASSUME NEW q, OpsOK(q), Still(q), Guarded(q), NEW i \in DOMAIN q,
         q[i].handler = "waiting", NEW o, Alike(o, q[i]), o.timer = q[i].timer,
         o.cancelled => o.handler = "done",
         ~o.cancelled => o.handler = "running" /\ (o.taken <=> q[i].taken) /\ ResultOK(o),
         NEW e, e = [q EXCEPT ![i] = o]
  PROVE  OpsOK(Outstanding(e)) /\ Guarded(Outstanding(e)) /\ SameWait(Outstanding(e), q)
<1>1. /\ q[i] \in Ops /\ TimerOK(q[i]) /\ HandlerOK(q[i])
      /\ q[i].timer # "running" /\ q[i].handler # "running"
  BY DEF OpsOK, Still
<1>2. DOMAIN e = DOMAIN q /\ e[i] = o /\ \A n \in DOMAIN q \ {i} : e[n] = q[n]
  BY DEF OpsOK
<1>3. Live(o) <=> Live(q[i])
  BY DEF Live, Alike
<1>4. ~q[i].cancelled => ~q[i].taken /\ q[i].timer \in {"armed", "fired", "running"}
  BY DEF Guarded, Live
<1>5. TimerOK(o) /\ HandlerOK(o)
  BY <1>1, <1>3, <1>4 DEF TimerOK, HandlerOK, Alike
<1>6. OneHandler(e)
  BY <1>1, <1>2 DEF OneHandler, Still
<1>7. OpsOK(e) /\ OpsOK(Outstanding(e)) /\ SameWait(Outstanding(e), q)
  BY <1>3, <1>5, <1>6, ReplaceOps DEF Alike
<1>8. Guarded(e)
  BY <1>2, <1>4 DEF Guarded, Alike, Live
<1>9. DOMAIN Outstanding(e) \subseteq DOMAIN e /\ \A n \in DOMAIN Outstanding(e) : Outstanding(e)[n] = e[n]
  BY <1>7, OutstandingOps DEF OpsOK
<1>10. Guarded(Outstanding(e))
  BY <1>8, <1>9 DEF Guarded
<1>. QED  BY <1>7, <1>10

\* TimeoutRuns: the handler of a timer reads the RacePreventer.
LEMMA TimeoutRunsOps ==
  ASSUME NEW q, OpsOK(q), Still(q), Guarded(q), NEW i \in DOMAIN q,
         q[i].timer \in {"fired", "aborted"},
         NEW o, Alike(o, q[i]), o.timer = "running", o.handler = q[i].handler,
         o.taken <=> q[i].taken, o.timer_first <=> ~o.taken,
         NEW e, e = [q EXCEPT ![i] = o]
  PROVE  OpsOK(e) /\ Guarded(e) /\ SameWait(e, q)
<1>1. /\ q[i] \in Ops /\ TimerOK(q[i]) /\ HandlerOK(q[i])
      /\ q[i].timer # "running" /\ q[i].handler # "running"
  BY DEF OpsOK, Still
<1>2. DOMAIN e = DOMAIN q /\ e[i] = o /\ \A n \in DOMAIN q \ {i} : e[n] = q[n]
  BY DEF OpsOK
<1>3. Live(o) <=> Live(q[i])
  BY DEF Live, Alike
<1>4. TimerOK(o) /\ HandlerOK(o)
  BY <1>1, <1>3 DEF TimerOK, HandlerOK, Alike
<1>5. OneHandler(e)
  BY <1>1, <1>2 DEF OneHandler, Still
<1>6. OpsOK(e) /\ SameWait(e, q)
  BY <1>3, <1>4, <1>5, ReplaceOps DEF Alike
<1>7. Guarded(e)
  BY <1>2, <1>3 DEF Guarded
<1>. QED  BY <1>6, <1>7

\* HandleAsyncTimeout: when it raises no error, the operation that is waited
\* for keeps its guard.
LEMMA TimeoutOps ==
  ASSUME NEW q, OpsOK(q), Guarded(q), NEW i \in DOMAIN q, q[i].timer = "running",
         NEW o, Alike(o, q[i]), o.timer = "done", o.handler = q[i].handler,
         NEW e, e = [q EXCEPT ![i] = o]
  PROVE  /\ OpsOK(Outstanding(e)) /\ Still(Outstanding(e)) /\ SameWait(Outstanding(e), q)
         /\ ~(q[i].timer_first /\ q[i].left = 0 /\ q[i].current) => Guarded(Outstanding(e))
<1>1. q[i] \in Ops /\ TimerOK(q[i]) /\ HandlerOK(q[i])
  BY DEF OpsOK
<1>2. DOMAIN e = DOMAIN q /\ e[i] = o /\ \A n \in DOMAIN q \ {i} : e[n] = q[n]
  BY DEF OpsOK
<1>3. Live(o) <=> Live(q[i])
  BY DEF Live, Alike
<1>4. \A n \in DOMAIN q : q[n].handler # "running" /\ (n # i => q[n].timer # "running")
  BY DEF OpsOK, OneHandler
<1>5. TimerOK(o) /\ HandlerOK(o)
  BY <1>1, <1>3, <1>4 DEF TimerOK, HandlerOK, Alike
<1>6. OneHandler(e) /\ Still(e)
  BY <1>2, <1>4 DEF OneHandler, Still
<1>7. OpsOK(e) /\ OpsOK(Outstanding(e)) /\ SameWait(Outstanding(e), q)
  BY <1>3, <1>5, <1>6, ReplaceOps DEF Alike
<1>8. DOMAIN Outstanding(e) \subseteq DOMAIN e /\ \A n \in DOMAIN Outstanding(e) : Outstanding(e)[n] = e[n]
  BY <1>7, OutstandingOps DEF OpsOK
<1>9. Still(Outstanding(e))
  BY <1>6, <1>8 DEF Still
<1>10. ASSUME ~(q[i].timer_first /\ q[i].left = 0 /\ q[i].current)
       PROVE  Guarded(Outstanding(e))
  <2>1. ~Live(q[i])
    BY <1>1, <1>10 DEF TimerOK, HandlerOK, Guarded
  <2>. QED  BY <1>2, <1>3, <1>8, <2>1 DEF Guarded
<1>. QED  BY <1>7, <1>9, <1>10

\* Tick: timers that are armed come nearer to their time or expire.
Ticked(q) ==
    [i \in DOMAIN q |->
        IF q[i].timer = "armed"
        THEN [q[i] EXCEPT !.left = @ - 1,
                          !.timer = IF q[i].left = 1 THEN "fired" ELSE @]
        ELSE q[i]]

\* A second that passes keeps the operations well formed and every one of them
\* that had a timer still has it.
LEMMA TickOps ==
  ASSUME NEW q, OpsOK(q)
  PROVE  LET e == Ticked(q) IN
         /\ OpsOK(e) /\ DOMAIN e = DOMAIN q
         /\ Guarded(q) => Guarded(e)
         /\ Still(q) => Still(e)
         /\ NoneLive(q) <=> NoneLive(e)
         /\ CurrentLive(q) => CurrentLive(e)
         /\ \A s, a : Placed(q, s, a) => Placed(e, s, a)
         /\ \A n \in DOMAIN q :
               /\ Live(e[n]) <=> Live(q[n])
               /\ e[n].current => q[n].current
               /\ e[n].left \in Nat /\ e[n].left >= q[n].left - 1
               /\ q[n].left = 0 => e[n].left = 0
<1>. DEFINE e == Ticked(q)
<1>1. DOMAIN e = DOMAIN q
  BY DEF Ticked
<1>2. ASSUME NEW n \in DOMAIN q
      PROVE  /\ e[n] \in Ops
             /\ e[n].current <=> q[n].current
             /\ e[n].cancelled <=> q[n].cancelled
             /\ e[n].taken <=> q[n].taken
             /\ e[n].timer_first <=> q[n].timer_first
             /\ e[n].kind = q[n].kind /\ e[n].of = q[n].of
             /\ e[n].handler = q[n].handler /\ e[n].result = q[n].result
             /\ \/ e[n].timer = q[n].timer /\ e[n].timer # "armed" /\ e[n].left = q[n].left
                \/ q[n].timer = "armed" /\ q[n].left > 1 /\ e[n].timer = "armed" /\ e[n].left = q[n].left - 1
                \/ q[n].timer = "armed" /\ q[n].left = 1 /\ e[n].timer = "fired" /\ e[n].left = 0
  <2>1. q[n] \in Ops /\ TimerOK(q[n])
    BY DEF OpsOK
  <2>2. q[n].left \in Nat /\ (q[n].timer = "armed" => q[n].left > 0)
    BY <2>1 DEF Ops, TimerOK
  <2>3. CASE q[n].timer # "armed"
    BY <2>1, <2>3 DEF Ticked
  <2>4. CASE q[n].timer = "armed" /\ q[n].left = 1
    <3>1. e[n] = [q[n] EXCEPT !.left = q[n].left - 1, !.timer = "fired"]
      BY <2>4 DEF Ticked
    <3>2. q[n].left - 1 = 0 /\ q[n].left - 1 \in Nat
      BY <2>4
    <3>. HIDE DEF e
    <3>3. e[n] \in Ops /\ e[n].left = q[n].left - 1 /\ e[n].timer = "fired"
      BY <2>1, <3>1, <3>2 DEF Ops
    <3>4. /\ e[n].current = q[n].current /\ e[n].cancelled = q[n].cancelled
          /\ e[n].taken = q[n].taken /\ e[n].timer_first = q[n].timer_first
          /\ e[n].kind = q[n].kind /\ e[n].of = q[n].of
          /\ e[n].handler = q[n].handler /\ e[n].result = q[n].result
      BY <2>1, <3>1 DEF Ops
    <3>. QED  BY <2>4, <3>2, <3>3, <3>4
  <2>5. CASE q[n].timer = "armed" /\ q[n].left # 1
    <3>1. e[n] = [q[n] EXCEPT !.left = q[n].left - 1, !.timer = "armed"]
      BY <2>1, <2>5 DEF Ops, Ticked
    <3>2. q[n].left > 1 /\ q[n].left - 1 \in Nat
      BY <2>2, <2>5
    <3>. QED  BY <2>1, <2>5, <3>1, <3>2 DEF Ops
  <2>. QED  BY <2>3, <2>4, <2>5
<1>3. e \in [DOMAIN e -> Ops]
  BY <1>2 DEF Ticked
<1>. HIDE DEF e
<1>4. \A n \in DOMAIN q : Live(e[n]) <=> Live(q[n])
  BY <1>2 DEF Live
<1>5. \A n \in DOMAIN q : q[n] \in Ops /\ TimerOK(q[n]) /\ HandlerOK(q[n]) /\ q[n].left \in Nat
  BY DEF OpsOK, Ops
<1>6. ASSUME NEW n \in DOMAIN q
      PROVE  TimerOK(e[n]) /\ HandlerOK(e[n])
  <2>1. TimerOK(e[n])
    BY <1>2, <1>5 DEF TimerOK
  <2>2. ResultOK(q[n]) => ResultOK(e[n])
    BY <1>2 DEF ResultOK
  <2>. QED  BY <1>2, <1>4, <1>5, <2>1, <2>2 DEF HandlerOK
<1>7. OneCurrent(e) /\ OneHandler(e)
  BY <1>1, <1>2 DEF OpsOK, OneCurrent, OneHandler
<1>8. OpsOK(e)
  BY <1>1, <1>3, <1>6, <1>7 DEF OpsOK
<1>9. (Guarded(q) => Guarded(e)) /\ (Still(q) => Still(e))
  BY <1>1, <1>2, <1>4 DEF Guarded, Still
<1>10. (NoneLive(q) <=> NoneLive(e)) /\ (CurrentLive(q) => CurrentLive(e))
  BY <1>1, <1>2, <1>4 DEF NoneLive, CurrentLive
<1>11. \A s, a : Placed(q, s, a) => Placed(e, s, a)
  BY <1>1, <1>2 DEF Placed
<1>12. ASSUME NEW n \in DOMAIN q
       PROVE  /\ e[n].current => q[n].current
              /\ e[n].left \in Nat /\ e[n].left >= q[n].left - 1
              /\ q[n].left = 0 => e[n].left = 0
  BY <1>2, <1>5
<1>. QED  BY <1>1, <1>4, <1>8, <1>9, <1>10, <1>11, <1>12 DEF e

-----------------------------------------------------------------------------
(* The machine *)

\* The states before the header is written, and those in which the wait is
\* as long as the request's timeout.
Before == {"Unstarted", "Initializing", "Resolve", "Connect", "ProxyConnect",
           "SSLHandshake"}
Late == {"SendHeader", "SendPost", "ReadHeaders", "ReadContent"}

\* Errors that are not timeouts, and the events that follow one.
PlainErrors == {e \in Events : e.ev = "Error" /\ e.what # "IoTimeout"}
DoomEvents ==
    {e \in Events : \/ e.ev = "Error"
                    \/ e.ev = "PostSent" /\ PipeSize = 0 /\ PipeThrows}

\* The events that take a state to the next one.
Steps(s, a) ==
    {e \in Events : /\ e.ev \in Rows[s] \ {"Error"} /\ e.what # "IoTimeout"
                    /\ s \in Waiting => e.of = a}

\* One event of the set S, and otherwise errors.
OneOf(q, S) ==
    \E k \in 1 .. Len(q) :
       q[k] \in S /\ \A j \in 1 .. Len(q) : j # k => q[j] \in PlainErrors

DelayLive == delay.waiting /\ delay.enabled /\ ~delay.cancelled

\* Neither an operation nor the delay timer is waited for.
Calm == NoneLive(ops) /\ CurrentLive(ops) /\ ~DelayLive

PipeWhole == pipe.read = PipeSize /\ pipe.left = 0

\* The event that was the answer is the only one, but for errors.
Unasked ==
    /\ state = "Unstarted" /\ evq = <<>> /\ ops = <<>>
    /\ \/ strand = <<>>
       \/ OneOf(strand, Steps(state, attempt)) /\ strand[1].ev # "Error"

\* The machine waits, and is going to be woken up.
Idle ==
    /\ state \in Waiting /\ evq = <<>>
    /\ CurrentLive(ops)
    /\ state \in Late => CurrentFor(ops, timeout - age)
    /\ state = "SendPost" /\ setup.post = "pipe" => pipe.left + pipe.read = PipeSize
    /\ \/ /\ strand \in Seq(PlainErrors)
          /\ ~NoneLive(ops) \/ DelayLive \/ strand # <<>>
       \/ /\ OneOf(strand, Steps(state, attempt))
          /\ Calm
          /\ state = "SendPost" /\ setup.post = "pipe" => PipeWhole

\* It handles the one event that takes it to the next state.
Going ==
    /\ evq # <<>> /\ Tail(evq) = <<>>
    /\ Head(evq) \in Steps(state, attempt)
    /\ strand \in Seq(PlainErrors)
    /\ state \in Waiting => Calm
    /\ state = "SendPost" /\ setup.post = "pipe" => PipeWhole
    /\ Head(evq).ev = "Redirect" => Head(evq).what \in Schemes

\* It handles the timeout of the operation that it waited for.
TimedOut ==
    /\ state \in Waiting
    /\ evq # <<>> /\ Tail(evq) = <<>>
    /\ Head(evq).ev = "Error" /\ Head(evq).what = "IoTimeout"
    /\ Head(evq).of = attempt
    /\ strand \in Seq(PlainErrors)
    /\ ~NoneLive(ops)
    /\ \A n \in DOMAIN ops : Live(ops[n]) => ops[n].left = 0
    /\ state \in Late => age >= timeout

\* It handles an error and is going to end.
Doomed ==
    /\ state \notin Ended \cup {"Unstarted"}
    /\ evq # <<>> /\ evq \in Seq(DoomEvents)
    /\ state # "Error" => Head(evq) \in PlainErrors
    /\ state = "Error" => evq[Len(evq)].ev = "Error"

PhaseOK == state \in Ended \/ Unasked \/ Idle \/ Going \/ TimedOut \/ Doomed

\* The operations, and the delay timer.
WaitOK ==
    /\ OpsOK(ops)
    /\ Placed(ops, state, attempt)
    /\ evq = <<>> => Guarded(ops)
    /\ evq # <<>> => Still(ops)
    /\ DelayLive => state \in {"SendPost", "ReadContent"} /\ NoneLive(ops)

\* Under Deny no redirect was followed.
NoHop == setup.policy = "Deny" => hop = 0

\* The socket and the scheme it is made for.
SchemeOK ==
    /\ \/ state \in Waiting \cup {"ParseHeaders"}
       \/ state = "Initializing" /\ Head(evq).ev # "Error"
       => scheme \in {"http", "https"} /\ (is_ssl <=> scheme = "https") /\ socket
    /\ NoHop

\* The header of this hop was not written.
Clean ==
    \/ state \in Before
    \/ evq # <<>> /\ Head(evq).ev \in {"Redirected", "Restart"} /\ state \notin Ended

SentOK ==
    /\ sent <= 1
    /\ Clean => sent = 0

PipeOK ==
    /\ state = "SendPost" => setup.post # "none"
    /\ setup.post = "pipe"
          /\ state \in {"ReadHeaders", "ParseHeaders", "ReadContent", "Complete"}
          => PipeWhole
    /\ Clean \/ state = "SendHeader" \/ setup.post # "pipe" => pipe.left \in {0, PipeSize}

ToldOK ==
    /\ state \notin Ended => told.errors = 0 /\ told.completes = 0
    /\ Clean \/ state \in {"SendHeader", "SendPost", "ReadHeaders"} => told.headers = 0
    /\ state = "ParseHeaders" /\ Head(evq).ev = "HeadersParsed" => told.headers = 1
    /\ state = "ParseHeaders" /\ Head(evq).ev = "Redirect" => told.headers = 0
    /\ state = "ReadContent" => told.headers = 1

FaultsOK == PipeSize # 0 \/ ~PipeThrows => faults = {}

\* The inductive invariant.
IInv ==
    /\ TypeOK /\ WaitOK /\ PhaseOK /\ SchemeOK /\ SentOK /\ PipeOK /\ ToldOK
    /\ FaultsOK


-----------------------------------------------------------------------------
(* Sequences of events *)

\* A sequence of one event.
LEMMA OneEvent ==
  ASSUME NEW S, NEW e \in S
  PROVE  /\ <<e>> \in Seq(S) /\ <<e>> # <<>> /\ Head(<<e>>) = e /\ Tail(<<e>>) = <<>>
         /\ Len(<<e>>) = 1 /\ <<e>>[1] = e
         /\ Append(<<>>, e) = <<e>> /\ <<>> \o <<e>> = <<e>>
OBVIOUS

\* A queue of two events, whose head is the first.
LEMMA TwoEvents ==
  ASSUME NEW S, NEW e \in S, NEW f \in S
  PROVE  <<e>> \o <<f>> \in Seq(S) /\ <<e>> \o <<f>> # <<>> /\ Head(<<e>> \o <<f>>) = e
OBVIOUS

\* An answer is appended to errors.
LEMMA AppendAnswer ==
  ASSUME NEW q \in Seq(PlainErrors), NEW S, NEW e \in S
  PROVE  OneOf(Append(q, e), S)
<1>1. Len(Append(q, e)) = Len(q) + 1 /\ Len(q) \in Nat
  OBVIOUS
<1>2. Append(q, e)[Len(q) + 1] = e
  OBVIOUS
<1>3. \A j \in 1 .. Len(Append(q, e)) : j # Len(q) + 1 => Append(q, e)[j] \in PlainErrors
  <2>. TAKE j \in 1 .. Len(Append(q, e))
  <2>. HAVE j # Len(q) + 1
  <2>1. j \in 1 .. Len(q)
    BY <1>1
  <2>2. Append(q, e)[j] = q[j]
    BY <2>1
  <2>. QED  BY <2>1, <2>2, ElementOfSeq
<1>. QED  BY <1>1, <1>2, <1>3 DEF OneOf

\* An error is appended behind an answer.
LEMMA AppendError ==
  ASSUME NEW T, NEW q \in Seq(T), NEW S, OneOf(q, S), NEW e \in PlainErrors
  PROVE  OneOf(Append(q, e), S) /\ Append(q, e)[1] = q[1]
<1>1. Len(Append(q, e)) = Len(q) + 1 /\ Len(q) \in Nat
  OBVIOUS
<1>2. PICK k \in 1 .. Len(q) :
         q[k] \in S /\ \A j \in 1 .. Len(q) : j # k => q[j] \in PlainErrors
  BY DEF OneOf
<1>3. Append(q, e)[Len(q) + 1] = e /\ \A j \in 1 .. Len(q) : Append(q, e)[j] = q[j]
  OBVIOUS
<1>4. \A j \in 1 .. Len(Append(q, e)) : j \in 1 .. Len(q) \/ j = Len(q) + 1
  BY <1>1
<1>5. k \in 1 .. Len(Append(q, e)) /\ 1 \in 1 .. Len(q)
  BY <1>1, <1>2
<1>. QED  BY <1>2, <1>3, <1>4, <1>5 DEF OneOf

\* The first of the events is the answer, or an error before it.
LEMMA TakeFirst ==
  ASSUME NEW T, NEW q \in Seq(T), NEW S, OneOf(q, S)
  PROVE  /\ q # <<>>
         /\ \/ Head(q) \in S /\ Tail(q) \in Seq(PlainErrors)
            \/ Head(q) \in PlainErrors
<1>1. PICK k \in 1 .. Len(q) :
         q[k] \in S /\ \A j \in 1 .. Len(q) : j # k => q[j] \in PlainErrors
  BY DEF OneOf
<1>2. q # <<>> /\ Head(q) = q[1] /\ Len(q) \in Nat /\ 1 \in 1 .. Len(q)
  BY <1>1
<1>3. CASE k = 1
  <2>1. Len(Tail(q)) = Len(q) - 1 /\ Len(Tail(q)) \in Nat
        /\ \A j \in 1 .. Len(Tail(q)) : Tail(q)[j] = q[j + 1]
    BY <1>2, HeadTailProperties
  <2>2. \A j \in 1 .. Len(Tail(q)) : Tail(q)[j] \in PlainErrors
    BY <1>1, <1>2, <1>3, <2>1
  <2>3. Tail(q) \in Seq(T)
    BY <1>2
  <2>4. Tail(q) \in Seq(PlainErrors)
    <3>1. Tail(q) \in [1 .. Len(Tail(q)) -> T]
      BY <2>3, LenProperties
    <3>2. Tail(q) \in [1 .. Len(Tail(q)) -> PlainErrors]
      BY <2>2, <3>1
    <3>3. Tail(q) \in UNION {[1 .. n -> PlainErrors] : n \in Nat}
      BY <2>1, <3>2
    <3>. QED  BY <3>3, SeqDef
  <2>. QED  BY <1>1, <1>2, <1>3, <2>4
<1>4. CASE k # 1
  BY <1>1, <1>2, <1>4
<1>. QED  BY <1>3, <1>4

-----------------------------------------------------------------------------
(* Which phase the machine is in *)

\* The rows of the transition table.
LEMMA RowsOf ==
  /\ Rows["Unstarted"] = {"Start"}
  /\ Rows["Initializing"] = {"Initialized", "Error"}
  /\ Rows["Resolve"] = {"Resolved", "Error"}
  /\ Rows["Connect"] = {"Connected", "Error"}
  /\ Rows["ProxyConnect"] = {"Connected", "Error"}
  /\ Rows["SSLHandshake"] = {"Handshake", "Error"}
  /\ Rows["SendHeader"] = {"HeadersWritten", "Error"}
  /\ Rows["SendPost"] = {"PostSent", "Error"}
  /\ Rows["ReadHeaders"] = {"HeadersRead", "Error"}
  /\ Rows["ParseHeaders"] = {"HeadersParsed", "Redirect", "Error"}
  /\ Rows["Redirect"] = {"Redirected", "Error"}
  /\ Rows["ReadContent"] = {"ContentRead", "Error"}
  /\ Rows["Error"] = {"Restart", "Error"}
BY DEF Rows, States, Waiting, Ended

\* Outside the terminate states an event that is no error takes the machine
\* to the next state.
LEMMA IsGoing ==
  ASSUME IInv, evq # <<>>, state \notin Ended, Head(evq).ev # "Error",
         state = "Error" => Head(evq).ev # "PostSent"
  PROVE  Going
<1>1. ~Unasked /\ ~Idle /\ ~TimedOut
  BY DEF Unasked, Idle, TimedOut
<1>2. ~Doomed
  <2>. SUFFICES ASSUME Doomed  PROVE FALSE
    OBVIOUS
  <2>1. Head(evq) \in DoomEvents
    BY HeadTailProperties DEF Doomed
  <2>. QED  BY <2>1 DEF Doomed, DoomEvents, PlainErrors
<1>. QED  BY <1>1, <1>2 DEF IInv, PhaseOK

\* An error is a timeout of what is waited for, or the end.
LEMMA IsError ==
  ASSUME IInv, evq # <<>>, state \notin Ended, Head(evq).ev = "Error"
  PROVE  TimedOut \/ Doomed
BY DEF IInv, PhaseOK, Unasked, Idle, Going, Steps

\* The timeouts are positive.
LEMMA Times ==
  ASSUME TypeOK
  PROVE  /\ StageTimeout \in Nat \ {0} /\ timeout \in Nat \ {0}
         /\ attempt \in Nat /\ age \in Nat /\ PipeSize \in Nat /\ PipeThrows \in BOOLEAN
BY HttpRequestAssumption DEF TypeOK

-----------------------------------------------------------------------------
(* The rows that start an operation *)

\* The entry of a state that starts its operation and arms the timer
\* (SetAsyncTimeout and the async call that it guards).
LEMMA StartInStep ==
  ASSUME IInv, Going, NEW to \in Waiting, NEW kind \in Kinds,
         NEW seconds \in Nat \ {0}, to = StateOf[kind],
         StartIn(to, kind, seconds), Handled, socket,
         UNCHANGED <<strand, attempt, timeout, age, setup, pipe>>,
         to \in Late => seconds = timeout,
         to = "SendPost" => setup.post # "pipe"
  PROVE  /\ WaitOK' /\ PhaseOK' /\ faults' = faults /\ evq' = <<>>
         /\ delay' \in [waiting: BOOLEAN, cancelled: BOOLEAN, enabled: BOOLEAN]
<1>1. evq' = <<>> /\ state' = to /\ faults' = faults
  BY DEF Going, Handled, StartIn, UseSocket
<1>2. TypeOK /\ OpsOK(ops) /\ Still(ops) /\ attempt \in Nat /\ age \in Nat /\ timeout \in Nat
  BY Times DEF IInv, WaitOK, Going
<1>3. /\ OpsOK(ops') /\ Still(ops') /\ Guarded(ops') /\ ~NoneLive(ops')
      /\ CurrentLive(ops') /\ CurrentFor(ops', seconds)
      /\ Placed(ops', to, attempt)
  BY <1>2, StartOps DEF StartIn
<1>4. /\ delay' \in [waiting: BOOLEAN, cancelled: BOOLEAN, enabled: BOOLEAN]
      /\ delay'.cancelled
  BY <1>2 DEF TypeOK, StartIn
<1>5. ~DelayLive'
  BY <1>4 DEF DelayLive
<1>6. WaitOK'
  BY <1>1, <1>3, <1>5 DEF WaitOK
<1>7. to \in Late => CurrentFor(ops', timeout - age)
  <2>1. \A n \in DOMAIN ops' : ops'[n].left \in Nat
    BY <1>3 DEF OpsOK, Ops
  <2>. QED  BY <1>2, <1>3, <2>1 DEF CurrentFor
<1>8. strand \in Seq(PlainErrors)
  BY DEF Going
<1>9. Idle'
  BY <1>1, <1>3, <1>7, <1>8 DEF Idle
<1>. QED  BY <1>1, <1>4, <1>6, <1>9 DEF PhaseOK

\* What the rows before the header leave as it is.
LEMMA BeforeStep ==
  ASSUME IInv, Going, state \in {"Initializing", "Resolve", "Connect", "ProxyConnect"},
         NEW to \in {"Resolve", "Connect", "ProxyConnect", "SSLHandshake"},
         NEW kind \in Kinds, to = StateOf[kind],
         StartIn(to, kind, StageTimeout), Handled,
         UNCHANGED <<requestVars, clockVars, socket, is_ssl, pipe, told, sent>>
  PROVE  IInv'
<1>1. /\ StageTimeout \in Nat \ {0} /\ to \in Waiting /\ to \notin Late
      /\ state' = to
  BY Times DEF IInv, Waiting, Late, StartIn
<1>2. scheme \in {"http", "https"} /\ (is_ssl <=> scheme = "https") /\ socket
  BY DEF IInv, SchemeOK, Going, Steps, Waiting
<1>3. /\ WaitOK' /\ PhaseOK' /\ faults' = faults /\ evq' = <<>>
      /\ delay' \in [waiting: BOOLEAN, cancelled: BOOLEAN, enabled: BOOLEAN]
  BY <1>1, <1>2, StartInStep DEF requestVars, clockVars, Late
<1>4. Clean /\ Clean'
  BY <1>1 DEF Clean, Before
<1>5. TypeOK'
  <2>1. IsFiniteSet(DOMAIN ops') /\ ops' \in [DOMAIN ops' -> Ops]
    BY <1>3 DEF WaitOK, OpsOK
  <2>2. evq' \in Seq(Events) /\ state' \in States
    BY <1>1, <1>3 DEF States
  <2>. QED  BY <1>3, <2>1, <2>2 DEF IInv, TypeOK, requestVars, clockVars
<1>6. SchemeOK'
  BY <1>2 DEF IInv, SchemeOK, NoHop, requestVars
<1>7. SentOK' /\ FaultsOK'
  BY <1>3, <1>4 DEF IInv, SentOK, FaultsOK, requestVars
<1>8. PipeOK'
  BY <1>1, <1>4 DEF IInv, PipeOK, PipeWhole, requestVars
<1>9. ToldOK'
  BY <1>1, <1>4 DEF IInv, ToldOK, Ended, Waiting
<1>. QED  BY <1>3, <1>5, <1>6, <1>7, <1>8, <1>9 DEF IInv

\* The entry of Resolve keeps the invariant.
LEMMA EnterResolveStep ==
  ASSUME IInv, EnterResolve
  PROVE  IInv'
<1>1. Going
  BY IsGoing DEF EnterResolve, Handles, Ended
<1>2. "resolve" \in Kinds /\ StateOf["resolve"] = "Resolve"
  BY DEF Kinds, StateOf
<1>. QED  BY <1>1, <1>2, BeforeStep DEF EnterResolve, Handles

\* The entry of Connect keeps the invariant.
LEMMA EnterConnectStep ==
  ASSUME IInv, EnterConnect
  PROVE  IInv'
<1>1. Going
  BY IsGoing DEF EnterConnect, Handles, Ended
<1>2. "connect" \in Kinds /\ StateOf["connect"] = "Connect"
  BY DEF Kinds, StateOf
<1>. QED  BY <1>1, <1>2, BeforeStep DEF EnterConnect, Handles

\* The entry of ProxyConnect keeps the invariant.
LEMMA EnterProxyConnectStep ==
  ASSUME IInv, EnterProxyConnect
  PROVE  IInv'
<1>1. Going
  BY IsGoing DEF EnterProxyConnect, Handles, Ended
<1>2. "proxy_write" \in Kinds /\ StateOf["proxy_write"] = "ProxyConnect"
  BY DEF Kinds, StateOf
<1>. QED  BY <1>1, <1>2, BeforeStep DEF EnterProxyConnect, Handles

\* The entry of SSLHandshake keeps the invariant.
LEMMA EnterSSLHandshakeStep ==
  ASSUME IInv, EnterSSLHandshake
  PROVE  IInv'
<1>1. Going
  BY IsGoing DEF EnterSSLHandshake, Handles, Ended
<1>2. "handshake" \in Kinds /\ StateOf["handshake"] = "SSLHandshake"
  BY DEF Kinds, StateOf
<1>. QED  BY <1>1, <1>2, BeforeStep DEF EnterSSLHandshake, Handles

\* SendHeader: the header goes out for the first time on this hop.
LEMMA EnterSendHeaderStep ==
  ASSUME IInv, EnterSendHeader
  PROVE  IInv'
<1>1. /\ Going /\ state \in {"Connect", "ProxyConnect", "SSLHandshake"}
      /\ StartIn("SendHeader", "header", timeout) /\ Handled
      /\ sent' = sent + 1
      /\ UNCHANGED <<requestVars, clockVars, socket, is_ssl, pipe, told>>
  BY IsGoing DEF EnterSendHeader, Handles, Ended
<1>2. "header" \in Kinds /\ StateOf["header"] = "SendHeader"
      /\ "SendHeader" \in Waiting \cap Late /\ timeout \in Nat \ {0} /\ state' = "SendHeader"
  BY <1>1, Times DEF IInv, Kinds, StateOf, Waiting, Late, StartIn
<1>3. scheme \in {"http", "https"} /\ (is_ssl <=> scheme = "https") /\ socket
  BY <1>1 DEF IInv, SchemeOK, Waiting
<1>4. /\ WaitOK' /\ PhaseOK' /\ faults' = faults /\ evq' = <<>>
      /\ delay' \in [waiting: BOOLEAN, cancelled: BOOLEAN, enabled: BOOLEAN]
  BY <1>1, <1>2, <1>3, StartInStep DEF requestVars, clockVars
<1>5. Clean /\ ~Clean'
  BY <1>1, <1>2, <1>4 DEF Clean, Before
<1>6. sent \in Nat /\ sent = 0
  BY <1>5 DEF IInv, TypeOK, SentOK
<1>7. SentOK' /\ sent' \in Nat
  BY <1>1, <1>5, <1>6 DEF SentOK
<1>8. TypeOK'
  <2>1. IsFiniteSet(DOMAIN ops') /\ ops' \in [DOMAIN ops' -> Ops]
    BY <1>4 DEF WaitOK, OpsOK
  <2>2. evq' \in Seq(Events) /\ state' \in States
    BY <1>2, <1>4 DEF States
  <2>. QED  BY <1>1, <1>4, <1>7, <2>1, <2>2 DEF IInv, TypeOK, requestVars, clockVars
<1>9. SchemeOK' /\ FaultsOK'
  BY <1>1, <1>3, <1>4 DEF IInv, SchemeOK, NoHop, FaultsOK, requestVars
<1>10. PipeOK' /\ ToldOK'
  BY <1>1, <1>2, <1>5 DEF IInv, PipeOK, PipeWhole, ToldOK, requestVars, Ended
<1>. QED  BY <1>4, <1>7, <1>8, <1>9, <1>10 DEF IInv

\* The rows that start an operation after the header was written.
LEMMA LateStep ==
  ASSUME IInv, Going, state \in {"SendHeader", "SendPost", "ParseHeaders"},
         NEW to \in {"SendPost", "ReadHeaders", "ReadContent"},
         NEW kind \in Kinds, to = StateOf[kind], to = "SendPost" => setup.post # "pipe",
         StartIn(to, kind, timeout), Handled,
         UNCHANGED <<requestVars, clockVars, socket, is_ssl, pipe, told, sent>>,
         PipeOK', ToldOK'
  PROVE  IInv'
<1>1. to \in Waiting \cap Late /\ timeout \in Nat \ {0} /\ state' = to
  BY Times DEF IInv, Waiting, Late, StartIn
<1>2. scheme \in {"http", "https"} /\ (is_ssl <=> scheme = "https") /\ socket
  BY DEF IInv, SchemeOK, Waiting
<1>3. /\ WaitOK' /\ PhaseOK' /\ faults' = faults /\ evq' = <<>>
      /\ delay' \in [waiting: BOOLEAN, cancelled: BOOLEAN, enabled: BOOLEAN]
  BY <1>1, <1>2, StartInStep DEF requestVars, clockVars
<1>4. ~Clean'
  BY <1>1, <1>3 DEF Clean, Before
<1>5. TypeOK'
  <2>1. IsFiniteSet(DOMAIN ops') /\ ops' \in [DOMAIN ops' -> Ops]
    BY <1>3 DEF WaitOK, OpsOK
  <2>2. evq' \in Seq(Events) /\ state' \in States
    BY <1>1, <1>3 DEF States
  <2>. QED  BY <1>3, <2>1, <2>2 DEF IInv, TypeOK, requestVars, clockVars
<1>6. SchemeOK'
  BY <1>2 DEF IInv, SchemeOK, NoHop, requestVars
<1>7. SentOK' /\ FaultsOK'
  BY <1>3, <1>4 DEF IInv, SentOK, FaultsOK, requestVars
<1>. QED  BY <1>3, <1>5, <1>6, <1>7 DEF IInv

\* The entry of SendPost with a buffer keeps the invariant.
LEMMA EnterSendPostBufferStep ==
  ASSUME IInv, EnterSendPostBuffer
  PROVE  IInv'
<1>1. /\ Going /\ state = "SendHeader" /\ setup.post = "buffer"
      /\ StartIn("SendPost", "post", timeout) /\ Handled
      /\ UNCHANGED <<requestVars, clockVars, socket, is_ssl, pipe, told, sent>>
  BY IsGoing DEF EnterSendPostBuffer, Handles, Ended
<1>2. "post" \in Kinds /\ StateOf["post"] = "SendPost" /\ state' = "SendPost" /\ evq' = <<>>
  BY <1>1 DEF Kinds, StateOf, StartIn, Going, Handled
<1>3. PipeOK' /\ ToldOK'
  BY <1>1, <1>2 DEF IInv, PipeOK, PipeWhole, ToldOK, Clean, Before, Ended, requestVars
<1>. QED  BY <1>1, <1>2, <1>3, LateStep

\* The answer is waited for when all of the POST data is written.
LEMMA EnterReadHeadersStep ==
  ASSUME IInv, EnterReadHeaders
  PROVE  IInv'
<1>1. /\ Going
      /\ \/ state = "SendHeader" /\ setup.post = "none"
         \/ state = "SendPost"
      /\ StartIn("ReadHeaders", "read_headers", timeout) /\ Handled
      /\ UNCHANGED <<requestVars, clockVars, socket, is_ssl, pipe, told, sent>>
  BY IsGoing DEF EnterReadHeaders, Handles, Ended
<1>2. /\ "read_headers" \in Kinds /\ StateOf["read_headers"] = "ReadHeaders"
      /\ state' = "ReadHeaders" /\ evq' = <<>>
  BY <1>1 DEF Kinds, StateOf, StartIn, Going, Handled
<1>3. setup.post = "pipe" => PipeWhole
  BY <1>1 DEF Going
<1>4. PipeOK' /\ ToldOK'
  BY <1>1, <1>2, <1>3 DEF IInv, PipeOK, PipeWhole, ToldOK, Clean, Before, Ended, requestVars
<1>. QED  BY <1>1, <1>2, <1>4, LateStep

-----------------------------------------------------------------------------
(* The rows that raise an event *)

\* The event that a callback raises is the only one in the queue.
LEMMA RaiseStep ==
  ASSUME Going, NEW e \in Events, Raise(e)
  PROVE  /\ evq' = <<e>> /\ evq' # <<>> /\ Head(evq') = e /\ Tail(evq') = <<>>
         /\ evq' \in Seq(Events)
<1>1. evq' = <<e>>
  <2>1. evq' = Append(<<>>, e)
    BY DEF Going, Raise
  <2>. QED  BY <2>1, OneEvent
<1>. QED  BY <1>1, OneEvent

\* The names and contents that the handlers raise are events.
LEMMA EventType ==
  ASSUME TypeOK,
         NEW name \in {"Start", "Restart", "Initialized", "Redirected", "PostSent",
                       "HeadersParsed", "Redirect", "Error"},
         NEW what \in Results \cup {"none"}
  PROVE  /\ Event(name, what) \in Events
         /\ Event(name, what).ev = name /\ Event(name, what).what = what
         /\ Event(name, what).of = attempt
BY DEF Event, Events, TypeOK

\* No result is a timeout.
LEMMA NoTimeoutResult == "IoTimeout" \notin Results \cup {"none"}
BY DEF Results, Schemes

\* An Error event that carries nothing is a plain error.
LEMMA ErrorIsPlain ==
  ASSUME TypeOK
  PROVE  ErrorEvent("none") \in PlainErrors
<1>1. /\ Event("Error", "none") \in Events /\ Event("Error", "none").ev = "Error"
      /\ Event("Error", "none").what = "none"
  BY EventType
<1>. QED  BY <1>1 DEF ErrorEvent, PlainErrors

\* An error was raised.
LEMMA DoomStep ==
  ASSUME NEW e \in PlainErrors, evq' = <<e>>, state' \notin Ended \cup {"Unstarted"}
  PROVE  Doomed' /\ evq' # <<>> /\ Head(evq') = e
<1>1. e \in DoomEvents /\ e.ev = "Error"
  BY DEF PlainErrors, DoomEvents
<1>2. /\ evq' \in Seq(DoomEvents) /\ evq' # <<>> /\ Head(evq') = e
      /\ evq'[Len(evq')] = e
  BY <1>1, OneEvent
<1>. QED  BY <1>1, <1>2 DEF Doomed

\* Each kind of operation belongs to a state that waits.
LEMMA StateOfWaits ==
  \A kind \in Kinds : StateOf[kind] \in Waiting
BY DEF Kinds, StateOf, Waiting

\* Outside the states that wait every operation is cancelled.
LEMMA AllCancelled ==
  ASSUME NEW q, OpsOK(q), NEW s, NEW a, Placed(q, s, a), s \notin Waiting
  PROVE  NoneLive(q) /\ Guarded(q) /\ \A t, b : Placed(q, t, b)
<1>1. \A n \in DOMAIN q : q[n].cancelled
  <2>. TAKE n \in DOMAIN q
  <2>1. q[n].kind \in Kinds
    BY DEF OpsOK, Ops
  <2>. QED  BY <2>1, StateOfWaits DEF Placed
<1>2. NoneLive(q)
  BY <1>1 DEF NoneLive, Live
<1>. QED  BY <1>1, <1>2 DEF NoneLive, Guarded, Placed

\* A record or sequence of events names finitely many attempts.
LEMMA FiniteImage ==
  ASSUME NEW q, IsFiniteSet(DOMAIN q)
  PROVE  IsFiniteSet({q[i].of : i \in DOMAIN q})
<1>. DEFINE T == {q[i].of : i \in DOMAIN q}
            f == [i \in DOMAIN q |-> q[i].of]
<1>1. f \in Surjection(DOMAIN q, T)
  BY DEF Surjection
<1>. QED  BY <1>1, FS_Surjection

\* Finitely many numbers of attempts are in use.
LEMMA AttemptsFinite ==
  ASSUME TypeOK
  PROVE  IsFiniteSet(Attempts)
<1>1. IsFiniteSet({ops[i].of : i \in DOMAIN ops})
  BY FiniteImage DEF TypeOK
<1>2. IsFiniteSet({strand[i].of : i \in DOMAIN strand})
  <2>. strand \in Seq(Events)
    BY DEF TypeOK
  <2>1. Len(strand) \in Nat /\ DOMAIN strand = 1 .. Len(strand)
    OBVIOUS
  <2>2. IsFiniteSet(DOMAIN strand)
    BY <2>1, FS_Interval
  <2>. QED  BY <2>2, FiniteImage
<1>. QED  BY <1>1, <1>2, FS_Union DEF Attempts

\* EnterInitializing: an URL that parses, or an error.
LEMMA EnterInitializingStep ==
  ASSUME IInv, EnterInitializing
  PROVE  IInv'
<1>. DEFINE e == IF scheme \in {"http", "https"} THEN Event("Initialized", "none")
                 ELSE ErrorEvent("none")
<1>1. /\ Going /\ state \in {"Unstarted", "Error", "Redirect"}
      /\ state = "Unstarted" \/ Head(evq).ev \in {"Restart", "Redirected"}
      /\ state' = "Initializing" /\ attempt' = FreeNumber(Attempts)
      /\ socket' = (scheme \in {"http", "https"})
      /\ is_ssl' = CASE scheme = "http" -> FALSE
                     [] scheme = "https" -> TRUE
                     [] OTHER -> is_ssl
      /\ Raise(e)
      /\ UNCHANGED <<setup, timeout, strand, ops, delay, scheme, hop, age, pipe,
                      cancels, told, sent, faults>>
  BY IsGoing DEF EnterInitializing, Handles, Ended
<1>2. TypeOK
  BY DEF IInv
<1>3. /\ e \in Events /\ e.what # "IoTimeout"
      /\ e.ev = IF scheme \in {"http", "https"} THEN "Initialized" ELSE "Error"
  <2>1. "none" \in Results \cup {"none"} /\ "none" # "IoTimeout"
    OBVIOUS
  <2>. QED  BY <1>2, <2>1, EventType DEF ErrorEvent
<1>. HIDE DEF e
<1>4. /\ evq' = <<e>> /\ evq' # <<>> /\ Head(evq') = e /\ Tail(evq') = <<>>
      /\ evq' \in Seq(Events)
  BY <1>1, <1>3, RaiseStep
<1>5. Still(ops) /\ OpsOK(ops) /\ Placed(ops, state, attempt) /\ ~DelayLive
  BY <1>1 DEF IInv, WaitOK, Going
<1>6. state \notin Waiting /\ state' \notin Waiting /\ state' \notin Ended
  BY <1>1 DEF Waiting, Ended
<1>7. WaitOK'
  <2>1. Placed(ops, state', attempt')
    BY <1>5, <1>6, AllCancelled
  <2>2. ~DelayLive'
    BY <1>1, <1>5 DEF DelayLive
  <2>. QED  BY <1>1, <1>4, <1>5, <2>1, <2>2 DEF WaitOK
<1>8. strand \in Seq(PlainErrors)
  BY <1>1 DEF Going
<1>9. PhaseOK'
  <2>1. CASE scheme \in {"http", "https"}
    <3>1. e \in Steps("Initializing", attempt')
      BY <1>3, <2>1, RowsOf DEF Steps, Waiting
    <3>2. Going'
      BY <1>1, <1>3, <1>4, <1>6, <1>8, <2>1, <3>1 DEF Going
    <3>. QED  BY <3>2 DEF PhaseOK
  <2>2. CASE scheme \notin {"http", "https"}
    <3>1. e \in PlainErrors
      BY <1>3, <2>2 DEF PlainErrors
    <3>. QED  BY <1>1, <1>4, <1>6, <3>1, DoomStep DEF PhaseOK
  <2>. QED  BY <2>1, <2>2
<1>10. TypeOK'
  <2>1. socket' \in BOOLEAN
    BY <1>1
  <2>2. is_ssl' \in BOOLEAN
    BY <1>1, <1>2 DEF TypeOK
  <2>3. attempt' \in Nat /\ state' \in States
    <3>1. attempt' = FreeNumber(Attempts) /\ state' = "Initializing"
      BY DEF EnterInitializing
    <3>2. IsFiniteSet(Attempts)
      BY <1>2, AttemptsFinite
    <3>. QED  BY <3>1, <3>2, NumberIsFree DEF States
  <2>. QED  BY <1>1, <1>2, <1>4, <2>1, <2>2, <2>3 DEF TypeOK
<1>11. SchemeOK'
  <2>1. is_ssl' = (scheme = "https") \/ scheme \notin {"http", "https"}
    BY <1>1
  <2>. QED  BY <1>1, <1>3, <1>4, <1>6, <2>1 DEF IInv, SchemeOK, NoHop
<1>12. Clean /\ Clean'
  BY <1>1, <1>4 DEF Clean, Before, Ended, Going
<1>13. SentOK' /\ FaultsOK'
  BY <1>1, <1>12 DEF IInv, SentOK, FaultsOK
<1>14. PipeOK' /\ ToldOK'
  BY <1>1, <1>6, <1>12 DEF IInv, PipeOK, PipeWhole, ToldOK, Ended
<1>. QED  BY <1>7, <1>9, <1>10, <1>11, <1>13, <1>14 DEF IInv

\* What a call of the callback changes.
LEMMA ToldType ==
  ASSUME TypeOK
  PROVE  LET T == [redirects: {0, 1}, headers: Nat, content: {0, 1}, errors: Nat, completes: Nat]
         IN
         /\ [told EXCEPT !.redirects = 1 - @] \in T
         /\ [told EXCEPT !.redirects = 1 - @].headers = told.headers
         /\ [told EXCEPT !.redirects = 1 - @].errors = told.errors
         /\ [told EXCEPT !.redirects = 1 - @].completes = told.completes
         /\ [told EXCEPT !.errors = @ + 1] \in T
         /\ [told EXCEPT !.completes = @ + 1] \in T
         /\ [told EXCEPT !.headers = @ + 1] \in T
         /\ [told EXCEPT !.headers = @ + 1].headers = told.headers + 1
         /\ [told EXCEPT !.headers = @ + 1].errors = told.errors
         /\ [told EXCEPT !.headers = @ + 1].completes = told.completes
<1>1. told \in [redirects: {0, 1}, headers: Nat, content: {0, 1}, errors: Nat, completes: Nat]
  BY DEF TypeOK
<1>. QED  BY <1>1

\* EnterParseHeaders: the header of a response or of a redirect, or an error.
LEMMA EnterParseHeadersStep ==
  ASSUME IInv, EnterParseHeaders
  PROVE  IInv'
<1>. DEFINE what == Head(evq).what
            e == IF what \in {"no_location", "invalid"} THEN ErrorEvent("none")
                 ELSE IF what \in Schemes THEN Event("Redirect", what)
                 ELSE Event("HeadersParsed", "none")
            r == IF e.ev = "Redirect" THEN 1 ELSE 0
            h == IF e.ev = "HeadersParsed" THEN 1 ELSE 0
<1>1. /\ Going /\ state = "ReadHeaders"
      /\ state' = "ParseHeaders"
      /\ ops' = Outstanding(ExitState(ops))
      /\ UNCHANGED <<requestVars, clockVars, delay, socket, is_ssl, pipe, 
                     sent, faults>>
  BY IsGoing DEF EnterParseHeaders, Handles, Ended
<1>2. TypeOK /\ told.headers = 0 /\ told.errors = 0 /\ told.completes = 0
  BY <1>1 DEF IInv, ToldOK, Ended
<1>3. what \in Results \cup {"none"}
  BY <1>1 DEF Going, Steps, Events
<1>4. /\ e \in Events /\ e.what # "IoTimeout" /\ e.ev \in {"Error", "Redirect", "HeadersParsed"}
      /\ e.ev = "Redirect" => e.what \in Schemes
  <2>1. "none" \in Results \cup {"none"} /\ what # "IoTimeout"
    BY <1>3, NoTimeoutResult
  <2>. QED  BY <1>2, <1>3, <2>1, EventType DEF ErrorEvent
<1>5. /\ Raise(e)
      /\ told' \in [redirects: {0, 1}, headers: Nat, content: {0, 1}, errors: Nat, completes: Nat]
      /\ told'.headers = h /\ told'.errors = 0 /\ told'.completes = 0
  <2>1. CASE what \in {"no_location", "invalid"}
    <3>1. Raise(ErrorEvent("none")) /\ told' = told
      BY <2>1 DEF EnterParseHeaders, Schemes
    <3>2. e.ev = "Error"
      BY <2>1, <1>2, EventType DEF ErrorEvent
    <3>. QED  BY <1>2, <2>1, <3>1, <3>2 DEF TypeOK
  <2>2. CASE what \in Schemes \ {"invalid"}
    <3>1. Raise(Event("Redirect", what)) /\ told' = [told EXCEPT !.redirects = 1 - @]
      BY <2>2 DEF EnterParseHeaders, Schemes
    <3>2. e = Event("Redirect", what)
      BY <2>2 DEF Schemes
    <3>3. e.ev = "Redirect"
      BY <1>2, <1>3, <3>2, EventType
    <3>4. told' = [told EXCEPT !.redirects = 1 - @]
      BY <3>1
    <3>5. /\ told' \in [redirects: {0, 1}, headers: Nat, content: {0, 1}, errors: Nat, completes: Nat]
          /\ told'.headers = 0 /\ told'.errors = 0 /\ told'.completes = 0
      BY <1>2, <3>4, ToldType
    <3>. QED  BY <3>1, <3>2, <3>3, <3>5
  <2>3. CASE what \notin Schemes \cup {"no_location"}
    <3>1. Raise(Event("HeadersParsed", "none")) /\ told' = [told EXCEPT !.headers = @ + 1]
      BY <2>3 DEF EnterParseHeaders, Schemes
    <3>2. e = Event("HeadersParsed", "none")
      BY <2>3 DEF Schemes
    <3>3. e.ev = "HeadersParsed"
      BY <1>2, <3>2, EventType
    <3>4. told' = [told EXCEPT !.headers = @ + 1]
      BY <3>1
    <3>5. /\ told' \in [redirects: {0, 1}, headers: Nat, content: {0, 1}, errors: Nat, completes: Nat]
          /\ told'.headers = 1 /\ told'.errors = 0 /\ told'.completes = 0
      BY <1>2, <3>4, ToldType
    <3>. QED  BY <3>1, <3>2, <3>3, <3>5
  <2>. QED  BY <2>1, <2>2, <2>3 DEF Schemes
<1>. HIDE DEF e
<1>6. /\ evq' = <<e>> /\ evq' # <<>> /\ Head(evq') = e /\ Tail(evq') = <<>>
      /\ evq' \in Seq(Events)
  BY <1>1, <1>4, <1>5, RaiseStep
<1>7. Still(ops) /\ OpsOK(ops) /\ ~DelayLive
  BY <1>1 DEF IInv, WaitOK, Going
<1>8. OpsOK(ops') /\ Still(ops') /\ Placed(ops', state', attempt')
  BY <1>1, <1>7, LeaveOps
<1>9. WaitOK'
  BY <1>1, <1>6, <1>7, <1>8 DEF WaitOK, DelayLive
<1>10. PhaseOK'
  <2>1. CASE e.ev = "Error"
    <3>1. e \in PlainErrors
      BY <1>4, <2>1 DEF PlainErrors
    <3>. QED  BY <1>1, <1>6, <3>1, DoomStep DEF PhaseOK, Ended
  <2>2. CASE e.ev # "Error"
    <3>1. e \in Steps("ParseHeaders", attempt')
      BY <1>4, <2>2, RowsOf DEF Steps, Waiting
    <3>2. strand' \in Seq(PlainErrors)
      BY <1>1 DEF Going, clockVars
    <3>3. Going'
      BY <1>1, <1>4, <1>6, <3>1, <3>2 DEF Going, Waiting
    <3>. QED  BY <3>3 DEF PhaseOK
  <2>. QED  BY <2>1, <2>2
<1>11. TypeOK'
  <2>1. IsFiniteSet(DOMAIN ops') /\ ops' \in [DOMAIN ops' -> Ops]
    BY <1>8 DEF OpsOK
  <2>2. state' \in States
    BY <1>1 DEF States
  <2>. QED  BY <1>1, <1>2, <1>5, <1>6, <2>1, <2>2 DEF TypeOK, requestVars, clockVars
<1>12. SchemeOK'
  BY <1>1 DEF IInv, SchemeOK, NoHop, Waiting, requestVars
<1>13. ~Clean'
  BY <1>1, <1>4, <1>6 DEF Clean, Before
<1>14. SentOK' /\ FaultsOK'
  BY <1>1, <1>13 DEF IInv, SentOK, FaultsOK, requestVars
<1>15. PipeOK' /\ ToldOK'
  BY <1>1, <1>5, <1>6, <1>13 DEF IInv, PipeOK, PipeWhole, ToldOK, Ended, requestVars
<1>. QED  BY <1>9, <1>10, <1>11, <1>12, <1>14, <1>15 DEF IInv

\* EnterRedirect: the policy forbids it, or a new URL is asked.
LEMMA EnterRedirectStep ==
  ASSUME IInv, EnterRedirect
  PROVE  IInv'
<1>. DEFINE target == Head(evq).what
            denied == \/ setup.policy = "Deny"
                      \/ setup.policy = "DenyDowngrade" /\ is_ssl /\ target = "http"
            e == IF denied THEN ErrorEvent("none") ELSE Event("Redirected", "none")
<1>1. /\ Going /\ state = "ParseHeaders" /\ Head(evq).ev = "Redirect"
      /\ state' = "Redirect"
      /\ UNCHANGED <<setup, timeout, cancels, attempt, clockVars, ops, delay,
                     is_ssl, pipe, told, faults>>
  BY IsGoing DEF EnterRedirect, Handles, Ended
<1>2. IF denied
      THEN /\ Raise(e)
           /\ scheme' = scheme /\ hop' = hop /\ sent' = sent /\ socket' = socket
      ELSE /\ Raise(e)
           /\ scheme' = target /\ hop' = 1 /\ sent' = 0 /\ socket' = FALSE
  BY DEF EnterRedirect
<1>3. TypeOK /\ target \in Schemes
  BY <1>1 DEF IInv, Going
<1>4. /\ e \in Events /\ e.what # "IoTimeout"
      /\ e.ev = IF denied THEN "Error" ELSE "Redirected"
  <2>1. "none" \in Results \cup {"none"} /\ "none" # "IoTimeout"
    OBVIOUS
  <2>. QED  BY <1>3, <2>1, EventType DEF ErrorEvent
<1>. HIDE DEF e
<1>5. /\ evq' = <<e>> /\ evq' # <<>> /\ Head(evq') = e /\ Tail(evq') = <<>>
      /\ evq' \in Seq(Events)
  BY <1>1, <1>2, <1>4, RaiseStep
<1>6. Still(ops) /\ OpsOK(ops) /\ Placed(ops, state, attempt) /\ ~DelayLive
  BY <1>1 DEF IInv, WaitOK, Going
<1>7. state \notin Waiting /\ state' \notin Waiting /\ state' \notin Ended /\ state' \in States
  BY <1>1 DEF Waiting, Ended, States
<1>8. WaitOK'
  <2>1. Placed(ops, state', attempt')
    BY <1>6, <1>7, AllCancelled
  <2>2. ~DelayLive'
    BY <1>1, <1>6 DEF DelayLive
  <2>. QED  BY <1>1, <1>5, <1>6, <2>1, <2>2 DEF WaitOK
<1>9. strand' \in Seq(PlainErrors)
  BY <1>1 DEF Going, clockVars
<1>10. PhaseOK'
  <2>1. CASE ~denied
    <3>1. e.ev = "Redirected"
      BY <1>4, <2>1
    <3>2. e \in Steps("Redirect", attempt')
      BY <1>4, <3>1, RowsOf DEF Steps, Waiting
    <3>3. Going'
      BY <1>1, <1>5, <1>7, <1>9, <3>1, <3>2 DEF Going
    <3>. QED  BY <3>3 DEF PhaseOK
  <2>2. CASE denied
    <3>1. e \in PlainErrors
      BY <1>4, <2>2 DEF PlainErrors
    <3>. QED  BY <1>1, <1>5, <1>7, <3>1, DoomStep DEF PhaseOK
  <2>. QED  BY <2>1, <2>2
<1>11. scheme \in {"http", "https"} /\ (is_ssl <=> scheme = "https")
  BY <1>1 DEF IInv, SchemeOK
<1>12. scheme \in Schemes /\ hop \in {0, 1} /\ sent \in Nat /\ socket \in BOOLEAN
  BY <1>3 DEF TypeOK
<1>13. TypeOK'
  <2>1. scheme' \in Schemes /\ hop' \in {0, 1} /\ sent' \in Nat
    BY <1>2, <1>3, <1>12
  <2>2. socket' \in BOOLEAN
    BY <1>2, <1>12
  <2>. QED  BY <1>1, <1>3, <1>5, <1>7, <2>1, <2>2 DEF TypeOK, clockVars
<1>14. SchemeOK'
  <2>1. NoHop
    BY DEF IInv, SchemeOK
  <2>2. NoHop'
    BY <1>1, <1>2, <1>11, <2>1 DEF NoHop
  <2>. QED  BY <1>1, <1>7, <2>2 DEF SchemeOK
<1>15. Clean' => ~denied
  BY <1>1, <1>4, <1>5 DEF Clean, Before
<1>16. SentOK'
  <2>1. SentOK
    BY DEF IInv
  <2>. QED  BY <1>2, <1>15, <2>1 DEF SentOK
<1>17. setup.post = "pipe" => PipeWhole
  BY <1>1 DEF IInv, PipeOK
<1>18. PipeOK' /\ ToldOK' /\ FaultsOK'
  BY <1>1, <1>7, <1>17 DEF IInv, PipeOK, PipeWhole, ToldOK, FaultsOK, Ended
<1>. QED  BY <1>8, <1>10, <1>13, <1>14, <1>16, <1>18 DEF IInv

\* EnterReadContent: a first read, or an encoding that is not supported.
LEMMA EnterReadContentStep ==
  ASSUME IInv, EnterReadContent
  PROVE  IInv'
<1>1. /\ Going /\ state = "ParseHeaders" /\ Head(evq).ev = "HeadersParsed"
      /\ state' = "ReadContent"
      /\ UNCHANGED <<requestVars, clockVars, socket, is_ssl, pipe, told, sent>>
  BY IsGoing DEF EnterReadContent, Handles, Ended, StartIn
<1>2. evq' # <<>> => Head(evq').ev = "Error"
  <2>1. CASE Handled
    BY <1>1, <2>1 DEF Handled, Going
  <2>2. CASE Raise(ErrorEvent("none"))
    BY <1>1, <2>2, RaiseStep, ErrorIsPlain DEF IInv, PlainErrors
  <2>. QED  BY <2>1, <2>2 DEF EnterReadContent
<1>3. ~Clean'
  BY <1>1, <1>2 DEF Clean, Before
<1>4. PipeOK' /\ ToldOK'
  BY <1>1, <1>3 DEF IInv, PipeOK, PipeWhole, ToldOK, Ended, requestVars
<1>5. CASE StartIn("ReadContent", "read_content", timeout) /\ Handled
  <2>1. "read_content" \in Kinds /\ StateOf["read_content"] = "ReadContent"
    BY DEF Kinds, StateOf
  <2>. QED  BY <1>1, <1>4, <1>5, <2>1, LateStep
<1>6. CASE Raise(ErrorEvent("none")) /\ UNCHANGED <<ops, delay, faults>>
  <2>1. TypeOK /\ ErrorEvent("none") \in PlainErrors /\ ErrorEvent("none") \in Events
    BY ErrorIsPlain DEF IInv, PlainErrors
  <2>2. evq' = <<ErrorEvent("none")>> /\ evq' # <<>> /\ evq' \in Seq(Events)
    BY <1>1, <1>6, <2>1, RaiseStep
  <2>3. PhaseOK'
    BY <1>1, <2>1, <2>2, DoomStep DEF PhaseOK, Ended
  <2>4. Still(ops) /\ OpsOK(ops) /\ Placed(ops, state, attempt) /\ ~DelayLive
    BY <1>1 DEF IInv, WaitOK, Going
  <2>5. Placed(ops, state', attempt')
    BY <1>1, <2>4, AllCancelled DEF Waiting
  <2>6. WaitOK'
    BY <1>6, <2>2, <2>4, <2>5 DEF WaitOK, DelayLive
  <2>7. TypeOK'
    <3>1. state' \in States
      BY <1>1 DEF States, Waiting
    <3>. QED  BY <1>1, <1>6, <2>1, <2>2, <3>1 DEF TypeOK, requestVars, clockVars
  <2>8. SchemeOK'
    BY <1>1 DEF IInv, SchemeOK, NoHop, requestVars
  <2>9. SentOK' /\ FaultsOK'
    BY <1>1, <1>3, <1>6 DEF IInv, SentOK, FaultsOK, requestVars
  <2>. QED  BY <1>4, <2>3, <2>6, <2>7, <2>8, <2>9 DEF IInv
<1>. QED  BY <1>5, <1>6 DEF EnterReadContent

\* EnterSendPostPipe: a first chunk after a delay, or what ends the pipe.
LEMMA EnterSendPostPipeStep ==
  ASSUME IInv, EnterSendPostPipe
  PROVE  IInv'
<1>1. /\ Going /\ state = "SendHeader" /\ setup.post = "pipe"
      /\ state' = "SendPost"
      /\ ops' = Outstanding(ExitState(ops))
      /\ UNCHANGED <<requestVars, clockVars, socket, is_ssl, told, sent, faults>>
  BY IsGoing DEF EnterSendPostPipe, Handles, Ended
<1>2. TypeOK /\ PipeSize \in Nat /\ PipeThrows \in BOOLEAN
  BY Times DEF IInv
<1>3. pipe \in [left: 0 .. PipeSize, read: 0 .. PipeSize] /\ pipe.left \in {0, PipeSize}
  BY <1>1, <1>2 DEF IInv, PipeOK, TypeOK
<1>4. Still(ops) /\ OpsOK(ops) /\ strand' \in Seq(PlainErrors) /\ Tail(evq) = <<>>
  BY <1>1 DEF IInv, WaitOK, Going, clockVars
<1>5. OpsOK(ops') /\ Still(ops') /\ NoneLive(ops') /\ Guarded(ops') /\ Placed(ops', state', attempt')
  BY <1>1, <1>4, LeaveOps
<1>6. delay \in [waiting: BOOLEAN, cancelled: BOOLEAN, enabled: BOOLEAN]
  BY <1>2 DEF TypeOK
<1>7. /\ \A n \in DOMAIN ops' : ~ops'[n].current
      /\ CurrentLive(ops') /\ CurrentFor(ops', timeout' - age')
  <2>1. \A n \in DOMAIN ops : ~ops[n].current
    BY <1>1 DEF Going, Calm, NoneLive, CurrentLive, Waiting
  <2>2. ops \in [DOMAIN ops -> Ops]
    BY <1>4 DEF OpsOK
  <2>3. LET x == ExitState(ops) IN
        DOMAIN x = DOMAIN ops /\ x \in [DOMAIN x -> Ops] /\ \A n \in DOMAIN ops : ~x[n].current
    <3>. DEFINE x == ExitState(ops)
    <3>1. DOMAIN x = DOMAIN ops
      BY DEF ExitState
    <3>2. ASSUME NEW n \in DOMAIN ops  PROVE x[n] \in Ops /\ ~x[n].current
      BY <2>1, <2>2 DEF ExitState, KindLeft, Ops, Kinds
    <3>3. x \in [DOMAIN x -> Ops]
      BY <3>1, <3>2 DEF ExitState
    <3>. QED  BY <3>1, <3>2, <3>3
  <2>4. \A n \in DOMAIN ops' : ~ops'[n].current
    BY <1>1, <2>3, OutstandingOps
  <2>. QED  BY <2>4 DEF CurrentLive, CurrentFor
<1>8. PICK answer \in PipeAnswers :
          IF answer = "chunk"
          THEN /\ pipe' = [left |-> pipe.left - 1, read |-> 1]
               /\ SetTransactionDelayTimer(FALSE)
               /\ Handled
          ELSE /\ pipe' = [pipe EXCEPT !.read = 0]
               /\ evq' = Tail(evq) \o PipeEvents(answer, 0)
               /\ delay' = [delay EXCEPT !.cancelled = TRUE]
  BY DEF EnterSendPostPipe
<1>9. setup' = setup /\ attempt' = attempt /\ scheme' = scheme
  BY <1>1 DEF requestVars
<1>10. (evq' # <<>> => Head(evq').ev \in {"Error", "PostSent"})
       => SchemeOK' /\ SentOK' /\ FaultsOK' /\ ToldOK' /\ PipeOK'
  <2>. HAVE evq' # <<>> => Head(evq').ev \in {"Error", "PostSent"}
  <2>1. ~Clean'
    BY <1>1 DEF Clean, Before
  <2>2. SchemeOK'
    BY <1>1 DEF IInv, SchemeOK, NoHop, Waiting, requestVars
  <2>3. SentOK' /\ FaultsOK'
    BY <1>1, <2>1 DEF IInv, SentOK, FaultsOK, requestVars
  <2>4. ToldOK'
    BY <1>1, <2>1 DEF IInv, ToldOK, Ended
  <2>5. PipeOK'
    BY <1>1, <1>9, <2>1 DEF PipeOK
  <2>. QED  BY <2>2, <2>3, <2>4, <2>5
<1>11. ASSUME evq' \in Seq(Events), WaitOK',
              delay' \in [waiting: BOOLEAN, cancelled: BOOLEAN, enabled: BOOLEAN],
              pipe' \in [left: 0 .. PipeSize, read: 0 .. PipeSize]
       PROVE  TypeOK'
  <2>1. IsFiniteSet(DOMAIN ops') /\ ops' \in [DOMAIN ops' -> Ops]
    BY <1>5 DEF OpsOK
  <2>2. state' \in States
    BY <1>1 DEF States, Waiting
  <2>. QED  BY <1>1, <1>2, <1>11, <2>1, <2>2 DEF TypeOK, requestVars, clockVars
<1>12. CASE answer = "chunk"
  <2>1. /\ pipe' = [left |-> pipe.left - 1, read |-> 1] /\ evq' = <<>>
        /\ delay' = [waiting |-> TRUE, cancelled |-> FALSE, enabled |-> TRUE]
    BY <1>4, <1>8, <1>12 DEF SetTransactionDelayTimer, Handled
  <2>2. pipe.left > 0
    BY <1>12 DEF PipeAnswers
  <2>3. /\ pipe' \in [left: 0 .. PipeSize, read: 0 .. PipeSize]
        /\ pipe'.left + pipe'.read = PipeSize
    BY <1>2, <1>3, <2>1, <2>2
  <2>4. DelayLive' /\ delay' \in [waiting: BOOLEAN, cancelled: BOOLEAN, enabled: BOOLEAN]
    BY <2>1 DEF DelayLive
  <2>5. WaitOK'
    BY <1>1, <1>5, <2>1 DEF WaitOK
  <2>6. Idle'
    BY <1>1, <1>4, <1>7, <2>1, <2>3, <2>4 DEF Idle, Waiting
  <2>7. evq' \in Seq(Events)
    BY <2>1
  <2>8. TypeOK'
    BY <1>11, <2>3, <2>4, <2>5, <2>7
  <2>. QED  BY <1>10, <2>1, <2>5, <2>6, <2>8 DEF IInv, PhaseOK
<1>13. CASE answer # "chunk"
  <2>1. /\ pipe' = [pipe EXCEPT !.read = 0] /\ evq' = PipeEvents(answer, 0)
        /\ delay' = [delay EXCEPT !.cancelled = TRUE]
    <3>1. PipeEvents(answer, 0) \in Seq(Events)
      BY <1>2, EventType DEF PipeEvents, ErrorEvent
    <3>2. <<>> \o PipeEvents(answer, 0) = PipeEvents(answer, 0)
      BY <3>1, ConcatEmptySeq
    <3>. QED  BY <1>4, <1>8, <1>13, <3>2
  <2>2. pipe' \in [left: 0 .. PipeSize, read: 0 .. PipeSize]
        /\ pipe'.left = pipe.left /\ pipe'.read = 0
    BY <1>2, <1>3, <2>1
  <2>3. ~DelayLive' /\ delay' \in [waiting: BOOLEAN, cancelled: BOOLEAN, enabled: BOOLEAN]
    BY <1>6, <2>1 DEF DelayLive
  <2>. DEFINE err == ErrorEvent("none")
              ps == Event("PostSent", "none")
  <2>4. /\ err \in PlainErrors /\ err.ev = "Error" /\ err \in Events
        /\ ps \in Events /\ ps.ev = "PostSent" /\ ps.what = "none" /\ ps.of = attempt
    BY <1>2, ErrorIsPlain, EventType DEF PlainErrors
  <2>5. /\ answer = "throw" => PipeThrows
        /\ evq' = (IF answer = "throw" THEN <<err>> ELSE <<>>)
                  \o (IF PipeSize # 0 THEN <<err>> ELSE <<ps>>)
    BY <1>13, <2>1 DEF PipeAnswers, PipeEvents
  <2>. HIDE DEF err, ps
  <2>6. CASE answer # "throw" /\ PipeSize = 0
    <3>1. evq' = <<ps>> /\ evq' # <<>> /\ Head(evq') = ps /\ Tail(evq') = <<>> /\ evq' \in Seq(Events)
      BY <2>4, <2>5, <2>6
    <3>2. ps \in Steps("SendPost", attempt')
      BY <1>9, <2>4, RowsOf DEF Steps
    <3>3. PipeWhole'
      BY <1>3, <2>2, <2>6 DEF PipeWhole
    <3>4. Calm'
      BY <1>5, <1>7, <2>3 DEF Calm
    <3>5. Going'
      BY <1>1, <1>4, <2>4, <3>1, <3>2, <3>3, <3>4 DEF Going
    <3>6. WaitOK'
      BY <1>5, <2>3, <3>1 DEF WaitOK
    <3>7. TypeOK'
      BY <1>11, <2>2, <2>3, <3>1, <3>6
    <3>. QED  BY <1>10, <2>4, <3>1, <3>5, <3>6, <3>7 DEF IInv, PhaseOK
  <2>7. CASE ~(answer # "throw" /\ PipeSize = 0)
    <3>1. err \in DoomEvents /\ (answer = "throw" /\ PipeSize = 0 => ps \in DoomEvents)
      BY <2>4, <2>5 DEF DoomEvents, PlainErrors
    <3>2. evq' \in Seq(DoomEvents) /\ evq' \in Seq(Events) /\ evq' # <<>> /\ Head(evq') = err
      <4>1. CASE answer # "throw"
        <5>1. evq' = <<err>>
          BY <2>4, <2>5, <2>7, <4>1
        <5>. QED  BY <2>4, <3>1, <5>1
      <4>2. CASE answer = "throw" /\ PipeSize # 0
        <5>1. evq' = <<err>> \o <<err>>
          BY <2>5, <4>2
        <5>. QED  BY <2>4, <3>1, <5>1, TwoEvents
      <4>3. CASE answer = "throw" /\ PipeSize = 0
        <5>1. evq' = <<err>> \o <<ps>>
          BY <2>5, <4>3
        <5>. QED  BY <2>4, <3>1, <4>3, <5>1, TwoEvents
      <4>. QED  BY <4>1, <4>2, <4>3
    <3>3. Doomed'
      BY <1>1, <2>4, <3>2 DEF Doomed, Ended
    <3>4. WaitOK'
      BY <1>5, <2>3, <3>2 DEF WaitOK
    <3>5. TypeOK'
      BY <1>11, <2>2, <2>3, <3>2, <3>4
    <3>. QED  BY <1>10, <2>4, <3>2, <3>3, <3>4, <3>5 DEF IInv, PhaseOK
  <2>. QED  BY <2>6, <2>7
<1>. QED  BY <1>12, <1>13

\* EnterComplete.
LEMMA EnterCompleteStep ==
  ASSUME IInv, EnterComplete
  PROVE  IInv'
<1>1. /\ Going /\ state = "ReadContent"
      /\ state' = "Complete"
      /\ ops' = Outstanding(ExitState(ops))
      /\ delay' = [delay EXCEPT !.cancelled = TRUE]
      /\ socket' = FALSE
      /\ told' = [told EXCEPT !.completes = @ + 1]
      /\ Handled
      /\ UNCHANGED <<requestVars, clockVars, is_ssl, pipe,  sent, faults>>
  BY IsGoing DEF EnterComplete, Handles, Ended
<1>2. TypeOK /\ evq' = <<>>
  BY <1>1 DEF IInv, Going, Handled
<1>3. Still(ops) /\ OpsOK(ops)
  BY <1>1 DEF IInv, WaitOK, Going
<1>4. OpsOK(ops') /\ Still(ops') /\ NoneLive(ops') /\ Guarded(ops') /\ Placed(ops', state', attempt')
  BY <1>1, <1>3, LeaveOps
<1>5. delay' \in [waiting: BOOLEAN, cancelled: BOOLEAN, enabled: BOOLEAN] /\ ~DelayLive'
  BY <1>1, <1>2 DEF TypeOK, DelayLive
<1>6. told' \in [redirects: {0, 1}, headers: Nat, content: {0, 1}, errors: Nat, completes: Nat]
  <2>1. told' = [told EXCEPT !.completes = @ + 1]
    BY <1>1
  <2>. QED  BY <1>2, <2>1, ToldType
<1>7. WaitOK'
  BY <1>2, <1>4, <1>5 DEF WaitOK
<1>8. TypeOK'
  <2>1. IsFiniteSet(DOMAIN ops') /\ ops' \in [DOMAIN ops' -> Ops]
    BY <1>4 DEF OpsOK
  <2>2. state' \in States /\ socket' \in BOOLEAN /\ evq' \in Seq(Events)
    <3>1. state' = "Complete" /\ socket' = FALSE
      BY <1>1
    <3>2. state' \in States
      BY <3>1 DEF States, Ended
    <3>3. socket' \in BOOLEAN
      BY <3>1
    <3>. QED  BY <1>2, <3>2, <3>3
  <2>3. UNCHANGED <<requestVars, clockVars, is_ssl, pipe,  sent, faults>>
    BY <1>1
  <2>. QED  BY <1>2, <1>5, <1>6, <2>1, <2>2, <2>3 DEF TypeOK, requestVars, clockVars
<1>9. state' \in Ended /\ ~Clean' /\ PhaseOK'
  BY <1>1, <1>2 DEF Ended, Clean, Before, PhaseOK
<1>10. SchemeOK' /\ SentOK' /\ FaultsOK'
  BY <1>1, <1>9 DEF IInv, SchemeOK, NoHop, SentOK, FaultsOK, Waiting, requestVars
<1>11. PipeOK'
  BY <1>1, <1>9 DEF IInv, PipeOK, PipeWhole, requestVars
<1>12. ToldOK'
  BY <1>1, <1>9 DEF ToldOK
<1>. QED  BY <1>7, <1>8, <1>9, <1>10, <1>11, <1>12 DEF IInv

-----------------------------------------------------------------------------
(* Errors *)

\* A sequence of events whose first one is put at the end.
LEMMA LastEvent ==
  ASSUME NEW S, NEW q \in Seq(S), NEW e \in S
  PROVE  /\ Append(q, e) \in Seq(S) /\ Append(q, e) # <<>>
         /\ Append(q, e)[Len(Append(q, e))] = e
<1>1. Len(q) \in Nat /\ Len(Append(q, e)) = Len(q) + 1
  OBVIOUS
<1>2. Append(q, e)[Len(q) + 1] = e
  OBVIOUS
<1>. QED  BY <1>1, <1>2

\* EnterError: a young request starts again, any other is going to end.
LEMMA EnterErrorStep ==
  ASSUME IInv, EnterError
  PROVE  IInv'
<1>. DEFINE again == Head(evq).what = "IoTimeout" /\ age < timeout
            e == IF again THEN Event("Restart", "none") ELSE Head(evq)
<1>1. /\ state \in Waiting \cup {"Initializing", "ParseHeaders", "Redirect"}
      /\ evq # <<>> /\ Head(evq).ev = "Error"
      /\ state' = "Error"
      /\ ops' = Outstanding(ExitState(ops))
      /\ delay' = [delay EXCEPT !.cancelled = TRUE]
      /\ UNCHANGED <<requestVars, clockVars, is_ssl, pipe, told, sent, faults>>
  BY DEF EnterError, Handles
<1>2. evq' = Append(Tail(evq), e) /\ socket' = FALSE
  BY DEF EnterError, Raise
<1>3. TypeOK /\ evq \in Seq(Events) /\ Head(evq) \in Events /\ Tail(evq) \in Seq(Events)
  <2>1. TypeOK /\ evq \in Seq(Events)
    BY DEF IInv, TypeOK
  <2>. QED  BY <1>1, <2>1, HeadTailProperties
<1>4. state \notin Ended /\ state \notin {"Unstarted", "Error"} /\ state' \notin Waiting /\ state' \notin Ended
  BY <1>1 DEF Ended, Waiting
<1>5. TimedOut \/ Doomed
  BY <1>1, <1>4, IsError
<1>6. /\ Event("Restart", "none") \in Events /\ Event("Restart", "none").ev = "Restart"
      /\ Event("Restart", "none").what = "none"
  BY <1>3, EventType
<1>7. e \in Events /\ (again => e.ev = "Restart" /\ e.what = "none") /\ (~again => e = Head(evq))
  BY <1>3, <1>6
<1>. HIDE DEF e
<1>8. evq' \in Seq(Events) /\ evq' # <<>>
  BY <1>2, <1>3, <1>7, LastEvent
<1>9. Still(ops) /\ OpsOK(ops)
  BY <1>1 DEF IInv, WaitOK
<1>10. OpsOK(ops') /\ Still(ops') /\ NoneLive(ops') /\ Guarded(ops') /\ Placed(ops', state', attempt')
  BY <1>1, <1>9, LeaveOps
<1>11. delay' \in [waiting: BOOLEAN, cancelled: BOOLEAN, enabled: BOOLEAN] /\ ~DelayLive'
  BY <1>1, <1>3 DEF TypeOK, DelayLive
<1>12. WaitOK'
  BY <1>8, <1>10, <1>11 DEF WaitOK
<1>13. TypeOK'
  <2>1. IsFiniteSet(DOMAIN ops') /\ ops' \in [DOMAIN ops' -> Ops]
    BY <1>10 DEF OpsOK
  <2>2. state' \in States
    BY <1>1 DEF States
  <2>3. socket' \in BOOLEAN
    BY <1>2
  <2>4. UNCHANGED <<requestVars, clockVars, is_ssl, pipe, told, sent, faults>>
    BY <1>1
  <2>. QED  BY <1>3, <1>8, <1>11, <2>1, <2>2, <2>3, <2>4 DEF TypeOK, requestVars, clockVars
<1>14. CASE TimedOut /\ again
  <2>1. state \in Before /\ strand' \in Seq(PlainErrors) /\ age \in Nat /\ timeout \in Nat
    BY <1>1, <1>3, <1>14, Times DEF TimedOut, Late, Before, Waiting, clockVars
  <2>2. evq' = <<e>> /\ Head(evq') = e /\ Tail(evq') = <<>>
    <3>1. evq' = Append(<<>>, e)
      BY <1>2, <1>14 DEF TimedOut
    <3>. QED  BY <1>7, <3>1, OneEvent
  <2>3. e \in Steps("Error", attempt')
    BY <1>7, <1>14, RowsOf DEF Steps, Waiting
  <2>4. Going'
    BY <1>1, <1>4, <1>7, <1>8, <1>14, <2>1, <2>2, <2>3 DEF Going
  <2>5. Clean
    BY <2>1 DEF Clean
  <2>6. SchemeOK' /\ SentOK' /\ FaultsOK'
    BY <1>1, <1>4, <2>5 DEF IInv, SchemeOK, NoHop, SentOK, FaultsOK, requestVars
  <2>7. PipeOK' /\ ToldOK'
    BY <1>1, <1>4, <2>5 DEF IInv, PipeOK, PipeWhole, ToldOK, requestVars
  <2>. QED  BY <1>12, <1>13, <2>4, <2>6, <2>7 DEF IInv, PhaseOK
<1>15. CASE ~(TimedOut /\ again)
  <2>1. ~again /\ e = Head(evq)
    BY <1>1, <1>4, <1>5, <1>7, <1>15 DEF Doomed, PlainErrors
  <2>2. evq' \in Seq(DoomEvents) /\ evq'[Len(evq')] = Head(evq)
    <3>1. Head(evq) \in DoomEvents
      BY <1>1, <1>3 DEF DoomEvents
    <3>2. Tail(evq) \in Seq(DoomEvents)
      <4>1. CASE TimedOut
        BY <4>1, EmptySeq DEF TimedOut
      <4>2. CASE Doomed
        BY <1>1, <4>2, HeadTailProperties DEF Doomed
      <4>. QED  BY <1>5, <4>1, <4>2
    <3>. QED  BY <1>2, <2>1, <3>1, <3>2, LastEvent
  <2>3. Doomed'
    BY <1>1, <1>4, <1>8, <2>2 DEF Doomed
  <2>4. Head(evq') \in DoomEvents
    BY <1>8, <2>2, HeadTailProperties
  <2>5. ~Clean'
    BY <1>1, <2>4 DEF Clean, Before, DoomEvents
  <2>6. SchemeOK' /\ SentOK' /\ FaultsOK'
    BY <1>1, <1>4, <2>5 DEF IInv, SchemeOK, NoHop, SentOK, FaultsOK, requestVars
  <2>7. PipeOK' /\ ToldOK'
    BY <1>1, <1>4, <2>5 DEF IInv, PipeOK, PipeWhole, ToldOK, requestVars
  <2>. QED  BY <1>12, <1>13, <2>3, <2>6, <2>7 DEF IInv, PhaseOK
<1>. QED  BY <1>14, <1>15

\* EnterFinalError.
LEMMA EnterFinalErrorStep ==
  ASSUME IInv, EnterFinalError
  PROVE  IInv'
<1>1. /\ state = "Error" /\ state' = "FinalError" /\ evq # <<>>
      /\ told' = [told EXCEPT !.errors = @ + 1]
      /\ evq' = Tail(evq)
      /\ UNCHANGED <<requestVars, clockVars, ops, is_ssl, pipe,  sent, faults>>
  BY DEF EnterFinalError, Handles, Handled
<1>2. TypeOK /\ evq \in Seq(Events) /\ evq' \in Seq(Events)
  <2>1. TypeOK /\ evq \in Seq(Events)
    BY DEF IInv, TypeOK
  <2>. QED  BY <1>1, <2>1, HeadTailProperties
<1>3. /\ OpsOK(ops) /\ Still(ops) /\ Placed(ops, state, attempt)
      /\ ~DelayLive
  BY <1>1 DEF IInv, WaitOK
<1>4. state \notin Waiting /\ state' \notin Waiting /\ state' \in Ended /\ state' \in States
  BY <1>1 DEF Waiting, Ended, States
<1>5. Guarded(ops) /\ Placed(ops, state', attempt')
  BY <1>3, <1>4, AllCancelled
<1>6. delay' \in [waiting: BOOLEAN, cancelled: BOOLEAN, enabled: BOOLEAN] /\ ~DelayLive'
  <2>1. delay \in [waiting: BOOLEAN, cancelled: BOOLEAN, enabled: BOOLEAN]
    BY <1>2 DEF TypeOK
  <2>2. CASE delay' = delay
    BY <1>3, <2>1, <2>2 DEF DelayLive
  <2>3. ASSUME NEW expired \in BOOLEAN,
               delay' = [delay EXCEPT !.waiting = @ /\ expired, !.enabled = FALSE]
        PROVE  delay' \in [waiting: BOOLEAN, cancelled: BOOLEAN, enabled: BOOLEAN] /\ ~DelayLive'
    BY <2>1, <2>3 DEF DelayLive
  <2>. QED  BY <2>2, <2>3 DEF EnterFinalError
<1>7. WaitOK'
  BY <1>1, <1>3, <1>5, <1>6 DEF WaitOK
<1>8. TypeOK'
  <2>1. told' \in [redirects: {0, 1}, headers: Nat, content: {0, 1}, errors: Nat, completes: Nat]
    <3>1. told' = [told EXCEPT !.errors = @ + 1]
      BY <1>1
    <3>. QED  BY <1>2, <3>1, ToldType
  <2>2. socket' \in BOOLEAN
    <3>1. socket' = FALSE
      BY DEF EnterFinalError
    <3>. QED  BY <3>1
  <2>3. UNCHANGED <<requestVars, clockVars, ops, is_ssl, pipe,  sent, faults>>
    BY <1>1
  <2>. QED  BY <1>2, <1>4, <1>6, <2>1, <2>2, <2>3 DEF TypeOK, requestVars, clockVars
<1>9. ~Clean' /\ PhaseOK'
  BY <1>1, <1>4 DEF Clean, Before, PhaseOK
<1>10. SchemeOK' /\ SentOK' /\ FaultsOK'
  BY <1>1, <1>4, <1>9 DEF IInv, SchemeOK, NoHop, SentOK, FaultsOK, requestVars
<1>11. PipeOK'
  BY <1>1, <1>9 DEF IInv, PipeOK, PipeWhole, requestVars
<1>12. ToldOK'
  BY <1>1, <1>4, <1>9 DEF ToldOK
<1>. QED  BY <1>7, <1>8, <1>9, <1>10, <1>11, <1>12 DEF IInv

\* NoTransition: in a terminate state, or what is left of a pipe that threw.
LEMMA NoTransitionStep ==
  ASSUME IInv, NoTransition
  PROVE  IInv'
<1>1. /\ evq # <<>> /\ Head(evq).ev \notin Rows[state] /\ evq' = Tail(evq)
      /\ faults' = IF state \in Ended THEN faults
                   ELSE faults \cup {"improper transition"}
      /\ UNCHANGED <<requestVars, clockVars, state, ops, delay, socket, is_ssl,
                     pipe, told, sent>>
  BY DEF NoTransition, Handled
<1>2. TypeOK /\ evq \in Seq(Events) /\ evq' \in Seq(Events)
  <2>1. TypeOK /\ evq \in Seq(Events)
    BY DEF IInv, TypeOK
  <2>. QED  BY <1>1, <2>1, HeadTailProperties
<1>3. state \notin Ended =>
         /\ state = "Error" /\ Doomed /\ Head(evq).ev = "PostSent"
         /\ PipeSize = 0 /\ PipeThrows
  <2>. HAVE state \notin Ended
  <2>1. state \in States
    BY <1>2 DEF TypeOK
  <2>2. state = "Unstarted" \/ "Error" \in Rows[state]
    BY <2>1, RowsOf DEF States, Waiting
  <2>3. ~Going
    BY <1>1 DEF Going, Steps
  <2>4. Doomed
    BY <1>1, <2>2, <2>3 DEF IInv, PhaseOK, Unasked, Idle, TimedOut, Waiting
  <2>5. Head(evq) \in DoomEvents
    BY <2>4, HeadTailProperties DEF Doomed
  <2>. QED  BY <1>1, <2>2, <2>4, <2>5 DEF Doomed, DoomEvents, PlainErrors
<1>4. state \notin Ended => Doomed'
  <2>. HAVE state \notin Ended
  <2>1. /\ evq \in Seq(DoomEvents) /\ evq[Len(evq)].ev = "Error" /\ Head(evq).ev = "PostSent"
        /\ state = "Error"
    BY <1>3 DEF Doomed
  <2>2. Len(evq) \in Nat /\ Len(evq) > 0 /\ Head(evq) = evq[1]
    <3>1. Len(evq) \in Nat \ {0}
      BY <1>1, <2>1, EmptySeq
    <3>2. Head(evq) = evq[1]
      BY <1>2
    <3>. QED  BY <3>1, <3>2
  <2>3. Len(evq) > 1
    BY <2>1, <2>2
  <2>4. /\ Tail(evq) \in Seq(DoomEvents) /\ Len(Tail(evq)) = Len(evq) - 1
        /\ \A i \in 1 .. Len(Tail(evq)) : Tail(evq)[i] = evq[i + 1]
    BY <1>1, <2>1, HeadTailProperties
  <2>5. Tail(evq) # <<>> /\ Tail(evq)[Len(Tail(evq))] = evq[Len(evq)]
    <3>1. Len(Tail(evq)) \in 1 .. Len(Tail(evq)) /\ Len(Tail(evq)) + 1 = Len(evq)
      BY <2>2, <2>3, <2>4
    <3>2. Tail(evq)[Len(Tail(evq))] = evq[Len(evq)]
      BY <2>4, <3>1
    <3>3. Tail(evq) # <<>>
      BY <2>2, <2>3, <2>4
    <3>. QED  BY <3>2, <3>3
  <2>. QED  BY <1>1, <2>1, <2>4, <2>5 DEF Doomed, Ended
<1>5. PhaseOK' /\ (state \notin Ended => evq' # <<>>)
  BY <1>1, <1>4 DEF PhaseOK, Doomed
<1>6. WaitOK'
  <2>1. /\ OpsOK(ops) /\ Still(ops) /\ Placed(ops, state, attempt)
        /\ DelayLive => state \in {"SendPost", "ReadContent"} /\ NoneLive(ops)
    BY <1>1 DEF IInv, WaitOK
  <2>2. state \notin Waiting
    BY <1>3 DEF Waiting, Ended
  <2>3. Guarded(ops)
    BY <2>1, <2>2, AllCancelled
  <2>. QED  BY <1>1, <2>1, <2>3 DEF WaitOK, DelayLive, requestVars
<1>7. TypeOK'
  <2>1. faults' \subseteq {"improper transition", "null socket"}
    BY <1>1, <1>2 DEF TypeOK
  <2>. QED  BY <1>1, <1>2, <2>1 DEF TypeOK, requestVars, clockVars
<1>8. state \notin Ended => Head(evq') \in DoomEvents
  BY <1>4, HeadTailProperties DEF Doomed
<1>9. ~Clean'
  BY <1>1, <1>3, <1>8 DEF Clean, Before, DoomEvents, Ended
<1>10. SchemeOK'
  BY <1>1, <1>3 DEF IInv, SchemeOK, NoHop, Waiting, Ended, requestVars
<1>11. SentOK' /\ FaultsOK'
  BY <1>1, <1>3, <1>9 DEF IInv, SentOK, FaultsOK, requestVars
<1>12. PipeOK'
  BY <1>1, <1>9 DEF IInv, PipeOK, PipeWhole, requestVars
<1>13. ToldOK'
  BY <1>1, <1>3, <1>9 DEF IInv, ToldOK, Ended
<1>. QED  BY <1>5, <1>6, <1>7, <1>10, <1>11, <1>12, <1>13 DEF IInv

-----------------------------------------------------------------------------
(* The strand and the handlers, which leave the state alone *)

\* While no event is handled the machine waits, was not started or has ended.
LEMMA NoEvent ==
  ASSUME IInv, evq = <<>>
  PROVE  /\ state \in Ended \/ Unasked \/ Idle
         /\ state \in Ended \cup {"Unstarted"} \cup Waiting
         /\ state \in Waiting => Idle
         /\ state = "Unstarted" => Unasked
<1>1. ~Going /\ ~TimedOut /\ ~Doomed
  BY DEF Going, TimedOut, Doomed
<1>2. state \in Ended \/ Unasked \/ Idle
  BY <1>1 DEF IInv, PhaseOK
<1>. QED  BY <1>2 DEF Unasked, Idle, Ended, Waiting

\* What such a step keeps.
LEMMA QuietStep ==
  ASSUME IInv, evq = <<>>, UNCHANGED machineVars, FaultsOK',
         pipe' = pipe \/ (state = "SendPost" /\ setup.post = "pipe"),
         told'.headers = told.headers, told'.errors = told.errors,
         told'.completes = told.completes,
         evq' # <<>> => Head(evq').ev \notin {"Redirected", "Restart"} \/ state \in Ended
  PROVE  SchemeOK' /\ SentOK' /\ PipeOK' /\ ToldOK'
<1>1. state \in Ended \cup {"Unstarted"} \cup Waiting
  BY NoEvent
<1>2. /\ state' = state /\ setup' = setup /\ scheme' = scheme /\ hop' = hop
      /\ socket' = socket /\ is_ssl' = is_ssl /\ sent' = sent
  BY DEF machineVars, requestVars
<1>3. Clean' => Clean
  BY <1>1, <1>2 DEF Clean, Ended
<1>4. SchemeOK'
  BY <1>1, <1>2 DEF IInv, SchemeOK, NoHop, Ended, Waiting
<1>5. SentOK'
  BY <1>2, <1>3 DEF IInv, SentOK
<1>6. PipeOK'
  <2>1. CASE pipe' = pipe
    BY <1>2, <1>3, <2>1 DEF IInv, PipeOK, PipeWhole
  <2>2. CASE state = "SendPost" /\ setup.post = "pipe"
    <3>1. ~Clean
      BY <2>2 DEF Clean, Before
    <3>. QED  BY <1>2, <1>3, <2>2, <3>1 DEF PipeOK
  <2>. QED  BY <2>1, <2>2
<1>7. ToldOK'
  <2>1. state # "ParseHeaders"
    BY <1>1 DEF Ended, Waiting
  <2>. QED  BY <1>2, <1>3, <2>1 DEF IInv, ToldOK
<1>. QED  BY <1>4, <1>5, <1>6, <1>7

\* StrandRuns: the answer, or an error.
LEMMA StrandRunsStep ==
  ASSUME IInv, Threads = 1, StrandRuns
  PROVE  IInv'
<1>1. /\ strand # <<>> /\ StrandMayRun
      /\ evq' = <<Head(strand)>> /\ strand' = Tail(strand)
      /\ UNCHANGED <<machineVars, ops, delay, age, pipe, told, faults>>
  BY DEF StrandRuns
<1>2. TypeOK /\ OpsOK(ops) /\ strand \in Seq(Events)
  BY DEF IInv, WaitOK, TypeOK
<1>3. Still(ops) /\ evq = <<>>
  BY <1>1, <1>2, OneThread
<1>4. Head(strand) \in Events /\ Tail(strand) \in Seq(Events)
  BY <1>1, <1>2, HeadTailProperties
<1>5. /\ evq' \in Seq(Events) /\ evq' # <<>> /\ Head(evq') = Head(strand) /\ Tail(evq') = <<>>
  BY <1>1, <1>4, OneEvent
<1>6. /\ state' = state /\ attempt' = attempt /\ timeout' = timeout /\ setup' = setup
      /\ UNCHANGED <<ops, delay, pipe, age, told, faults>>
  BY <1>1 DEF machineVars, requestVars
<1>7. /\ PhaseOK'
      /\ state \notin Ended => Head(strand) \in PlainErrors \cup Steps(state, attempt)
  <2>1. CASE state \in Ended
    BY <1>6, <2>1 DEF PhaseOK
  <2>2. CASE Unasked
    <3>1. OneOf(strand, Steps(state, attempt)) /\ strand[1].ev # "Error" /\ state = "Unstarted"
      BY <1>1, <2>2 DEF Unasked
    <3>2. Head(strand) = strand[1]
      BY <1>2
    <3>3. Head(strand) \in Steps(state, attempt) /\ Tail(strand) \in Seq(PlainErrors)
      BY <1>2, <3>1, <3>2, TakeFirst DEF PlainErrors
    <3>4. Head(strand).ev = "Start"
      BY <3>1, <3>3, RowsOf DEF Steps
    <3>5. Going'
      BY <1>1, <1>5, <1>6, <3>1, <3>3, <3>4 DEF Going, Waiting
    <3>. QED  BY <3>3, <3>5 DEF PhaseOK
  <2>3. CASE Idle
    <3>1. state \in Waiting /\ state \notin Ended \cup {"Unstarted"}
      BY <2>3 DEF Idle, Waiting, Ended
    <3>2. ASSUME Head(strand) \in PlainErrors  PROVE Doomed'
      BY <1>1, <1>6, <3>1, <3>2, DoomStep
    <3>3. CASE strand \in Seq(PlainErrors)
      <4>1. Head(strand) \in PlainErrors
        BY <1>1, <3>3, HeadTailProperties
      <4>. QED  BY <3>2, <4>1 DEF PhaseOK
    <3>4. CASE /\ OneOf(strand, Steps(state, attempt)) /\ Calm
               /\ state = "SendPost" /\ setup.post = "pipe" => PipeWhole
      <4>1. \/ Head(strand) \in Steps(state, attempt) /\ Tail(strand) \in Seq(PlainErrors)
            \/ Head(strand) \in PlainErrors
        BY <1>2, <3>4, TakeFirst
      <4>2. ASSUME Head(strand) \in Steps(state, attempt), Tail(strand) \in Seq(PlainErrors)
            PROVE  Going'
        <5>1. Head(strand).ev # "Redirect"
          BY <3>1, <4>2, RowsOf DEF Steps, Waiting
        <5>2. Calm'
          BY <1>6, <3>4 DEF Calm, DelayLive
        <5>3. state = "SendPost" /\ setup.post = "pipe" => PipeWhole'
          BY <1>6, <3>4 DEF PipeWhole
        <5>. QED  BY <1>1, <1>5, <1>6, <4>2, <5>1, <5>2, <5>3 DEF Going
      <4>. QED  BY <3>2, <4>1, <4>2 DEF PhaseOK
    <3>. QED  BY <2>3, <3>3, <3>4 DEF Idle
  <2>. QED  BY <1>3, <2>1, <2>2, <2>3, NoEvent
<1>8. WaitOK'
  BY <1>3, <1>5, <1>6 DEF IInv, WaitOK, DelayLive
<1>9. TypeOK'
  BY <1>1, <1>2, <1>4, <1>5 DEF TypeOK, machineVars, requestVars
<1>10. state \notin Ended => Head(strand).ev \notin {"Redirected", "Restart"}
  <2>1. state \in Ended \cup {"Unstarted"} \cup Waiting
    BY <1>3, NoEvent
  <2>. QED  BY <1>7, <2>1, RowsOf DEF PlainErrors, Steps, Waiting
<1>11. FaultsOK'
  BY <1>6 DEF IInv, FaultsOK
<1>12. SchemeOK' /\ SentOK' /\ PipeOK' /\ ToldOK'
  BY <1>1, <1>3, <1>5, <1>6, <1>10, <1>11, QuietStep
<1>. QED  BY <1>7, <1>8, <1>9, <1>11, <1>12 DEF IInv

\* What is known of a handler that runs.
LEMMA RunningOp ==
  ASSUME IInv, NEW i \in Running
  PROVE  /\ evq = <<>> /\ Idle /\ strand \in Seq(PlainErrors) /\ ~DelayLive
         /\ i \in DOMAIN ops /\ ops[i] \in Ops /\ ResultOK(ops[i])
         /\ ops[i].handler = "running" /\ ~ops[i].cancelled
         /\ ops[i].of = attempt /\ state = StateOf[ops[i].kind]
         /\ state \in Waiting /\ socket
<1>1. i \in DOMAIN ops /\ ops[i].handler = "running"
  BY DEF Running
<1>2. OpsOK(ops) /\ evq = <<>>
  BY <1>1 DEF IInv, WaitOK, Still
<1>3. ops[i] \in Ops /\ ~ops[i].cancelled /\ ResultOK(ops[i])
  BY <1>1, <1>2 DEF OpsOK, HandlerOK
<1>4. Live(ops[i]) /\ ~NoneLive(ops)
  BY <1>1, <1>3 DEF Live, NoneLive
<1>5. state = StateOf[ops[i].kind] /\ ops[i].of = attempt
  BY <1>1, <1>3 DEF IInv, WaitOK, Placed
<1>6. state \in Waiting
  <2>1. ops[i].kind \in Kinds
    BY <1>3 DEF Ops
  <2>. QED  BY <1>5, <2>1, StateOfWaits
<1>7. Idle /\ ~DelayLive
  BY <1>2, <1>4, <1>6, NoEvent DEF IInv, WaitOK
<1>8. strand \in Seq(PlainErrors)
  BY <1>4, <1>7 DEF Idle, Calm
<1>9. socket
  BY <1>6 DEF IInv, SchemeOK
<1>. QED  BY <1>1, <1>2, <1>3, <1>5, <1>6, <1>7, <1>8, <1>9

\* The operations when such a handler was the first.
LEMMA AnsweredOps ==
  ASSUME IInv, NEW i \in Running
  PROVE  LET e == Outstanding(First(ops, i)) IN
         /\ OpsOK(e) /\ Still(e) /\ NoneLive(e) /\ Guarded(e)
         /\ CurrentLive(e) /\ CurrentFor(e, timeout - age)
         /\ Placed(e, state, attempt)
<1>1. i \in DOMAIN ops /\ ops[i].handler = "running" /\ OpsOK(ops) /\ Placed(ops, state, attempt)
  BY RunningOp DEF IInv, WaitOK
<1>. DEFINE f == First(ops, i)
            e == Outstanding(f)
<1>2. /\ OpsOK(f) /\ Still(f) /\ NoneLive(f) /\ Guarded(f)
      /\ \A n \in DOMAIN f : ~f[n].current
      /\ Placed(f, state, attempt)
  BY <1>1, FirstOps
<1>. HIDE DEF f
<1>3. OpsOK(e) /\ DOMAIN e \subseteq DOMAIN f /\ \A n \in DOMAIN e : e[n] = f[n]
  BY <1>2, OutstandingOK, OutstandingOps DEF OpsOK
<1>4. Still(e) /\ NoneLive(e) /\ Guarded(e) /\ Placed(e, state, attempt)
  BY <1>2, <1>3 DEF Still, NoneLive, Guarded, Placed
<1>5. CurrentLive(e) /\ CurrentFor(e, timeout - age)
  BY <1>2, <1>3 DEF CurrentLive, CurrentFor
<1>. QED  BY <1>3, <1>4, <1>5 DEF f

\* The types after such a step.
LEMMA QuietType ==
  ASSUME IInv, UNCHANGED machineVars, WaitOK', age' \in Nat,
         evq' \in Seq(Events), strand' \in Seq(Events),
         delay' \in [waiting: BOOLEAN, cancelled: BOOLEAN, enabled: BOOLEAN],
         pipe' \in [left: 0 .. PipeSize, read: 0 .. PipeSize],
         told' \in [redirects: {0, 1}, headers: Nat, content: {0, 1}, errors: Nat, completes: Nat],
         faults' = faults
  PROVE  TypeOK'
<1>1. IsFiniteSet(DOMAIN ops') /\ ops' \in [DOMAIN ops' -> Ops]
  BY DEF WaitOK, OpsOK
<1>. QED  BY <1>1 DEF IInv, TypeOK, machineVars, requestVars

\* The event of a handler: an error, or what its state waits for.
LEMMA AnswerToEvent ==
  ASSUME NEW o \in Ops, ResultOK(o), o.of = attempt, attempt \in Nat,
         state = StateOf[o.kind]
  PROVE  /\ o.result \in {"failed", "malformed"} => AnswerTo(o) \in PlainErrors
         /\ o.result \notin {"failed", "malformed"}
               /\ o.kind \notin {"proxy_write", "read_content"}
               => AnswerTo(o) \in Steps(state, attempt)
<1>1. o.kind \in Kinds /\ o.result \in Results /\ o.result # "IoTimeout"
  BY NoTimeoutResult DEF Ops
<1>2. ASSUME o.result \in {"failed", "malformed"}
      PROVE  AnswerTo(o) \in PlainErrors
  <2>1. AnswerTo(o) = [ErrorEvent("none") EXCEPT !.of = o.of]
    BY <1>2 DEF AnswerTo
  <2>2. AnswerTo(o) = [ev |-> "Error", of |-> attempt, what |-> "none"]
    BY <2>1 DEF ErrorEvent, Event
  <2>. QED  BY <2>2 DEF PlainErrors, Events
<1>3. ASSUME o.result \notin {"failed", "malformed"},
             o.kind \notin {"proxy_write", "read_content"}
      PROVE  AnswerTo(o) \in Steps(state, attempt)
  <2>. DEFINE ok == [resolve |-> "Resolved", connect |-> "Connected",
                     proxy_read |-> "Connected", handshake |-> "Handshake",
                     header |-> "HeadersWritten", post |-> "PostSent",
                     read_headers |-> "HeadersRead"]
  <2>1. AnswerTo(o) = [ev |-> ok[o.kind], of |-> o.of, what |-> o.result]
    BY <1>3 DEF AnswerTo
  <2>2. /\ ok[o.kind] \in Rows[state] \ {"Error"}
        /\ ok[o.kind] \in {"Resolved", "Connected", "Handshake", "HeadersWritten",
                           "PostSent", "HeadersRead"}
    BY <1>1, <1>3, RowsOf DEF Kinds, StateOf
  <2>. HIDE DEF ok
  <2>3. AnswerTo(o) \in Events
    BY <1>1, <2>1, <2>2 DEF Events
  <2>. QED  BY <1>1, <2>1, <2>2, <2>3 DEF Steps
<1>. QED  BY <1>2, <1>3

\* The handler was the first: an answer, an error or a delay follows.
LEMMA FirstStep ==
  ASSUME IInv, NEW i \in Running, ops' = Outstanding(First(ops, i)),
         evq' = evq, age' = age, UNCHANGED machineVars,
         DelayLive' => state \in {"SendPost", "ReadContent"},
         state = "SendPost" /\ setup.post = "pipe" => pipe'.left + pipe'.read = PipeSize,
         \/ strand' \in Seq(PlainErrors) /\ (DelayLive' \/ strand' # <<>>)
         \/ /\ OneOf(strand', Steps(state, attempt)) /\ ~DelayLive'
            /\ state = "SendPost" /\ setup.post = "pipe" => PipeWhole'
  PROVE  WaitOK' /\ PhaseOK'
<1>1. /\ state' = state /\ attempt' = attempt /\ setup' = setup /\ timeout' = timeout
  BY DEF machineVars, requestVars
<1>2. evq' = <<>> /\ state \in Waiting
  BY RunningOp
<1>3. /\ OpsOK(ops') /\ Still(ops') /\ NoneLive(ops') /\ Guarded(ops')
      /\ CurrentLive(ops') /\ CurrentFor(ops', timeout - age)
      /\ Placed(ops', state, attempt)
  BY AnsweredOps
<1>4. WaitOK'
  BY <1>1, <1>2, <1>3 DEF WaitOK
<1>5. ~DelayLive' => Calm'
  BY <1>3 DEF Calm
<1>6. Idle'
  BY <1>1, <1>2, <1>3, <1>5 DEF Idle
<1>. QED  BY <1>4, <1>6 DEF PhaseOK

\* The handler was the first and starts another operation.
LEMMA AgainStep ==
  ASSUME IInv, NEW i \in Running, NEW kind \in Kinds, StateOf[kind] = state,
         NEW seconds \in Nat \ {0}, state \in Late => seconds = timeout,
         state # "SendPost",
         ops' = Outstanding(SetAsyncTimeout(First(ops, i), kind, seconds, ops[i].cancelled)),
         evq' = evq, UNCHANGED <<machineVars, age, strand, delay, pipe>>
  PROVE  WaitOK' /\ PhaseOK'
<1>1. /\ state' = state /\ attempt' = attempt /\ setup' = setup /\ timeout' = timeout
      /\ UNCHANGED <<age, strand, delay, pipe>>
  BY DEF machineVars, requestVars
<1>2. /\ evq' = <<>> /\ state \in Waiting /\ ~DelayLive /\ strand \in Seq(PlainErrors)
      /\ i \in DOMAIN ops /\ ops[i] \in Ops /\ ~ops[i].cancelled /\ ops[i].handler = "running"
  BY RunningOp
<1>3. ops[i].cancelled = FALSE
  BY <1>2 DEF Ops
<1>4. OpsOK(ops) /\ Placed(ops, state, attempt) /\ attempt \in Nat /\ age \in Nat /\ timeout \in Nat
  BY Times DEF IInv, WaitOK
<1>. DEFINE f == First(ops, i)
<1>5. OpsOK(f) /\ Still(f) /\ NoneLive(f) /\ Placed(f, state, attempt)
  BY <1>2, <1>4, FirstOps
<1>6. ops' = Outstanding(SetAsyncTimeout(f, kind, seconds, FALSE))
  BY <1>3
<1>. HIDE DEF f
<1>7. /\ OpsOK(ops') /\ Still(ops') /\ Guarded(ops') /\ ~NoneLive(ops')
      /\ CurrentLive(ops') /\ CurrentFor(ops', seconds)
      /\ Placed(ops', state, attempt)
  BY <1>4, <1>5, <1>6, SetOps
<1>8. WaitOK'
  BY <1>1, <1>2, <1>7 DEF WaitOK, DelayLive
<1>9. state \in Late => CurrentFor(ops', timeout - age)
  <2>1. \A n \in DOMAIN ops' : ops'[n].left \in Nat
    BY <1>7 DEF OpsOK, Ops
  <2>. QED  BY <1>4, <1>7, <2>1 DEF CurrentFor
<1>10. Idle'
  BY <1>1, <1>2, <1>7, <1>9 DEF Idle
<1>. QED  BY <1>8, <1>10 DEF PhaseOK

\* A handler that only answers.
LEMMA AnswersStep ==
  ASSUME IInv, NEW i \in Running,
         \/ ops[i].result \in {"failed", "malformed"}
         \/ /\ ops[i].kind \notin {"proxy_write", "read_content"}
            /\ ops[i].kind = "post" => setup.post # "pipe",
         strand' = Append(strand, AnswerTo(ops[i])),
         ops' = Outstanding(First(ops, i)),
         UNCHANGED <<machineVars, evq, delay, age, pipe, told, faults>>
  PROVE  IInv'
<1>1. /\ evq = <<>> /\ Idle /\ strand \in Seq(PlainErrors) /\ ~DelayLive
      /\ ops[i] \in Ops /\ ResultOK(ops[i]) /\ ops[i].of = attempt /\ state = StateOf[ops[i].kind]
  BY RunningOp
<1>2. TypeOK /\ attempt \in Nat
  BY Times DEF IInv
<1>. DEFINE e == AnswerTo(ops[i])
<1>3. \/ e \in PlainErrors
      \/ e \in Steps(state, attempt) /\ (state = "SendPost" => setup.post # "pipe")
  <2>1. state = "SendPost" => ops[i].kind = "post"
    BY <1>1 DEF StateOf, Ops, Kinds
  <2>. QED  BY <1>1, <1>2, <2>1, AnswerToEvent
<1>. HIDE DEF e
<1>4. e \in Events
  BY <1>3 DEF PlainErrors, Steps
<1>5. strand' = Append(strand, e) /\ strand \in Seq(Events) /\ strand' \in Seq(Events)
  <2>1. strand' = Append(strand, e)
    BY DEF e
  <2>2. strand \in Seq(Events)
    BY <1>2 DEF TypeOK
  <2>. QED  BY <1>4, <2>1, <2>2, LastEvent
<1>6. ~DelayLive' /\ pipe' = pipe
  BY <1>1 DEF DelayLive
<1>7. \/ strand' \in Seq(PlainErrors) /\ strand' # <<>>
      \/ /\ OneOf(strand', Steps(state, attempt))
         /\ state = "SendPost" => setup.post # "pipe"
  <2>1. CASE e \in PlainErrors
    BY <1>1, <1>5, <2>1, LastEvent
  <2>2. CASE e \in Steps(state, attempt) /\ (state = "SendPost" => setup.post # "pipe")
    BY <1>1, <1>5, <2>2, AppendAnswer
  <2>. QED  BY <1>3, <2>1, <2>2
<1>8. state = "SendPost" /\ setup.post = "pipe" => pipe.left + pipe.read = PipeSize
  BY <1>1 DEF Idle
<1>9. WaitOK' /\ PhaseOK'
  BY <1>6, <1>7, <1>8, FirstStep
<1>10. TypeOK'
  <2>1. /\ UNCHANGED <<evq, delay, age, pipe, told, faults>> /\ UNCHANGED machineVars
    OBVIOUS
  <2>2. /\ evq' \in Seq(Events) /\ age' \in Nat /\ faults' = faults
        /\ delay' \in [waiting: BOOLEAN, cancelled: BOOLEAN, enabled: BOOLEAN]
        /\ pipe' \in [left: 0 .. PipeSize, read: 0 .. PipeSize]
        /\ told' \in [redirects: {0, 1}, headers: Nat, content: {0, 1}, errors: Nat, completes: Nat]
    BY <1>2, <2>1 DEF TypeOK
  <2>. QED  BY <1>5, <1>9, <2>1, <2>2, QuietType
<1>11. FaultsOK'
  BY DEF IInv, FaultsOK
<1>12. SchemeOK' /\ SentOK' /\ PipeOK' /\ ToldOK'
  BY <1>1, <1>11, QuietStep
<1>. QED  BY <1>9, <1>10, <1>11, <1>12 DEF IInv

\* HandleProxyConnectWrite.
LEMMA HandleProxyConnectWriteStep ==
  ASSUME IInv, HandleProxyConnectWrite
  PROVE  IInv'
<1>1. PICK i \in Running :
          /\ ops[i].kind = "proxy_write"
          /\ IF ops[i].result = "ok"
             THEN /\ ops' = Outstanding(
                                SetAsyncTimeout(First(ops, i), "proxy_read",
                                    StageTimeout, ops[i].cancelled))
                  /\ UseSocket
                  /\ UNCHANGED strand
             ELSE /\ ops' = Outstanding(First(ops, i))
                  /\ strand' = Append(strand, AnswerTo(ops[i]))
                  /\ UNCHANGED faults
  BY DEF HandleProxyConnectWrite
<1>2. UNCHANGED machineVars /\ UNCHANGED <<evq, delay, age, pipe, told>>
  BY DEF HandleProxyConnectWrite
<1>3. /\ evq = <<>> /\ ResultOK(ops[i]) /\ ops[i] \in Ops
      /\ state = StateOf[ops[i].kind] /\ socket
  BY RunningOp
<1>4. CASE ops[i].result = "ok"
  <2>1. /\ ops' = Outstanding(SetAsyncTimeout(First(ops, i), "proxy_read",
                                    StageTimeout, ops[i].cancelled))
        /\ faults' = faults /\ strand' = strand
    BY <1>1, <1>3, <1>4 DEF UseSocket
  <2>2. /\ "proxy_read" \in Kinds /\ state = "ProxyConnect" /\ StateOf["proxy_read"] = state
        /\ state \notin Late /\ StageTimeout \in Nat \ {0}
    BY <1>1, <1>3, Times DEF IInv, Kinds, StateOf, Late
  <2>3. WaitOK' /\ PhaseOK'
    BY <1>2, <2>1, <2>2, AgainStep
  <2>4. FaultsOK'
    BY <2>1 DEF IInv, FaultsOK
  <2>5. SchemeOK' /\ SentOK' /\ PipeOK' /\ ToldOK'
    BY <1>2, <1>3, <2>4, QuietStep
  <2>6. TypeOK'
    <3>1. TypeOK
      BY DEF IInv
    <3>2. /\ evq' \in Seq(Events) /\ strand' \in Seq(Events) /\ age' \in Nat
          /\ delay' \in [waiting: BOOLEAN, cancelled: BOOLEAN, enabled: BOOLEAN]
          /\ pipe' \in [left: 0 .. PipeSize, read: 0 .. PipeSize]
          /\ told' \in [redirects: {0, 1}, headers: Nat, content: {0, 1}, errors: Nat, completes: Nat]
      BY <1>2, <2>1, <3>1 DEF TypeOK
    <3>. QED  BY <1>2, <2>1, <2>3, <3>2, QuietType
  <2>. QED  BY <2>3, <2>4, <2>5, <2>6 DEF IInv
<1>5. CASE ops[i].result # "ok"
  <2>1. ops[i].result \in {"failed", "malformed"}
    BY <1>1, <1>3, <1>5 DEF ResultOK
  <2>. QED  BY <1>1, <1>2, <1>5, <2>1, AnswersStep
<1>. QED  BY <1>4, <1>5

\* The events after the last chunk, behind errors.
LEMMA PipeAnswered ==
  ASSUME TypeOK, state = "SendPost", NEW answer, NEW read,
         NEW q \in Seq(PlainErrors)
  PROVE  LET s == q \o PipeEvents(answer, read) IN
         /\ s \in Seq(Events)
         /\ read # PipeSize => s \in Seq(PlainErrors) /\ s # <<>>
         /\ read = PipeSize => OneOf(s, Steps(state, attempt))
<1>. DEFINE err == ErrorEvent("none")
            ps == Event("PostSent", "none")
            q1 == IF answer = "throw" THEN Append(q, err) ELSE q
            last == IF read # PipeSize THEN err ELSE ps
            s == q \o PipeEvents(answer, read)
<1>1. err \in PlainErrors /\ err \in Events
  BY ErrorIsPlain DEF PlainErrors
<1>2. ps \in Steps(state, attempt) /\ ps \in Events
  <2>1. ps \in Events /\ ps.ev = "PostSent" /\ ps.what = "none" /\ ps.of = attempt
    BY EventType
  <2>. QED  BY <2>1, RowsOf DEF Steps
<1>3. PipeEvents(answer, read)
        = (IF answer = "throw" THEN <<err>> ELSE <<>>) \o <<last>>
  BY DEF PipeEvents
<1>. HIDE DEF err, ps
<1>4. last \in Events
  BY <1>1, <1>2
<1>5. q \in Seq(Events)
  BY SeqMonotonic DEF PlainErrors
<1>6. q1 \in Seq(PlainErrors)
  BY <1>1
<1>7. s = Append(q1, last)
  <2>. HIDE DEF last
  <2>1. CASE answer = "throw"
    <3>1. PipeEvents(answer, read) = <<err>> \o <<last>>
      BY <1>3, <2>1
    <3>2. q \o (<<err>> \o <<last>>) = (q \o <<err>>) \o <<last>>
      <4>1. <<err>> \in Seq(Events) /\ <<last>> \in Seq(Events)
        BY <1>1, <1>4
      <4>. QED  BY <1>5, <4>1, ConcatAssociative
    <3>3. q \o <<err>> = Append(q, err) /\ Append(q, err) \in Seq(Events)
      BY <1>1, <1>5, AppendIsConcat, LastEvent
    <3>4. Append(q, err) \o <<last>> = Append(Append(q, err), last)
      BY <1>4, <3>3, AppendIsConcat
    <3>. QED  BY <2>1, <3>1, <3>2, <3>3, <3>4
  <2>2. CASE answer # "throw"
    <3>1. PipeEvents(answer, read) = <<last>>
      <4>1. PipeEvents(answer, read) = <<>> \o <<last>>
        BY <1>3, <2>2
      <4>. QED  BY <1>4, <4>1, OneEvent
    <3>. QED  BY <1>4, <1>5, <2>2, <3>1, AppendIsConcat
  <2>. QED  BY <2>1, <2>2
<1>. HIDE DEF s, q1
<1>8. s \in Seq(Events)
  <2>1. q1 \in Seq(Events)
    BY <1>6, SeqMonotonic DEF PlainErrors
  <2>. QED  BY <1>4, <1>7, <2>1, LastEvent
<1>9. read # PipeSize => s \in Seq(PlainErrors) /\ s # <<>>
  BY <1>1, <1>6, <1>7, LastEvent
<1>10. read = PipeSize => OneOf(s, Steps(state, attempt))
  BY <1>2, <1>6, <1>7, AppendAnswer
<1>. QED  BY <1>8, <1>9, <1>10 DEF s

\* HandlePostWrite: an error, the end, or another chunk after a delay.
LEMMA HandlePostWriteStep ==
  ASSUME IInv, HandlePostWrite
  PROVE  IInv'
<1>1. PICK i \in Running :
          /\ ops[i].kind = "post"
          /\ ops' = Outstanding(First(ops, i))
          /\ IF setup.post = "buffer" \/ ops[i].result = "failed"
             THEN /\ strand' = Append(strand, AnswerTo(ops[i]))
                  /\ UNCHANGED <<pipe, delay>>
             ELSE IF ops[i].cancelled THEN UNCHANGED <<pipe, delay, strand>>
             ELSE \E answer \in PipeAnswers :
                     IF answer = "chunk"
                     THEN /\ pipe' = [left |-> pipe.left - 1,
                                      read |-> pipe.read + 1]
                          /\ SetTransactionDelayTimer(FALSE)
                          /\ UNCHANGED strand
                     ELSE /\ strand' = strand \o PipeEvents(answer, pipe.read)
                          /\ UNCHANGED <<pipe, delay>>
  BY DEF HandlePostWrite
<1>2. UNCHANGED machineVars /\ UNCHANGED <<evq, age, told, faults>>
  BY DEF HandlePostWrite
<1>3. /\ evq = <<>> /\ Idle /\ strand \in Seq(PlainErrors) /\ ~DelayLive
      /\ ResultOK(ops[i]) /\ ops[i] \in Ops /\ ~ops[i].cancelled
      /\ state = StateOf[ops[i].kind]
  BY RunningOp
<1>4. CASE setup.post = "buffer" \/ ops[i].result = "failed"
  BY <1>1, <1>2, <1>4, AnswersStep
<1>5. CASE ~(setup.post = "buffer" \/ ops[i].result = "failed")
  <2>1. TypeOK /\ PipeSize \in Nat /\ state = "SendPost"
    BY <1>1, <1>3, Times DEF IInv, StateOf
  <2>2. setup.post = "pipe"
    <3>1. setup \in Setups /\ setup.post # "none"
      BY <2>1 DEF IInv, TypeOK, PipeOK
    <3>2. setup.post \in {"none", "buffer", "pipe"}
      BY <3>1, SetupsAssumption
    <3>. QED  BY <1>5, <3>1, <3>2
  <2>3. /\ pipe \in [left: 0 .. PipeSize, read: 0 .. PipeSize]
        /\ pipe.left + pipe.read = PipeSize
        /\ strand \in Seq(Events)
        /\ delay \in [waiting: BOOLEAN, cancelled: BOOLEAN, enabled: BOOLEAN]
    BY <1>3, <2>1, <2>2 DEF TypeOK, Idle
  <2>4. PICK answer \in PipeAnswers :
                     IF answer = "chunk"
                     THEN /\ pipe' = [left |-> pipe.left - 1,
                                      read |-> pipe.read + 1]
                          /\ SetTransactionDelayTimer(FALSE)
                          /\ UNCHANGED strand
                     ELSE /\ strand' = strand \o PipeEvents(answer, pipe.read)
                          /\ UNCHANGED <<pipe, delay>>
    BY <1>1, <1>3, <1>5
  <2>5. /\ WaitOK' /\ PhaseOK' /\ strand' \in Seq(Events)
        /\ delay' \in [waiting: BOOLEAN, cancelled: BOOLEAN, enabled: BOOLEAN]
        /\ pipe' \in [left: 0 .. PipeSize, read: 0 .. PipeSize]
    <3>1. CASE answer = "chunk"
      <4>1. /\ pipe' = [left |-> pipe.left - 1, read |-> pipe.read + 1] /\ strand' = strand
            /\ delay' = [waiting |-> TRUE, cancelled |-> FALSE, enabled |-> TRUE]
        BY <2>4, <3>1 DEF SetTransactionDelayTimer
      <4>2. pipe.left > 0
        BY <3>1 DEF PipeAnswers
      <4>3. /\ pipe' \in [left: 0 .. PipeSize, read: 0 .. PipeSize]
            /\ pipe'.left + pipe'.read = PipeSize
        BY <2>1, <2>3, <4>1, <4>2
      <4>4. DelayLive' /\ delay' \in [waiting: BOOLEAN, cancelled: BOOLEAN, enabled: BOOLEAN]
        BY <4>1 DEF DelayLive
      <4>5. strand' \in Seq(PlainErrors) /\ strand' \in Seq(Events) /\ evq' = evq /\ age' = age
            /\ UNCHANGED machineVars
        BY <1>2, <1>3, <2>3, <4>1
      <4>6. WaitOK' /\ PhaseOK'
        BY <1>1, <2>1, <4>3, <4>4, <4>5, FirstStep
      <4>. QED  BY <4>3, <4>4, <4>5, <4>6
    <3>2. CASE answer # "chunk"
      <4>1. strand' = strand \o PipeEvents(answer, pipe.read) /\ UNCHANGED <<pipe, delay>>
        BY <2>4, <3>2
      <4>2. /\ strand' \in Seq(Events)
            /\ pipe.read # PipeSize => strand' \in Seq(PlainErrors) /\ strand' # <<>>
            /\ pipe.read = PipeSize => OneOf(strand', Steps(state, attempt))
        BY <1>3, <2>1, <4>1, PipeAnswered
      <4>3. ~DelayLive' /\ (pipe.read = PipeSize => PipeWhole')
            /\ pipe'.left + pipe'.read = PipeSize
        BY <1>3, <2>1, <2>3, <4>1 DEF DelayLive, PipeWhole
      <4>4. WaitOK' /\ PhaseOK'
        BY <1>1, <1>2, <2>1, <4>2, <4>3, FirstStep
      <4>. QED  BY <2>3, <4>1, <4>2, <4>4
    <3>. QED  BY <3>1, <3>2
  <2>6. TypeOK'
    <3>1. /\ evq' \in Seq(Events) /\ age' \in Nat /\ faults' = faults
          /\ told' \in [redirects: {0, 1}, headers: Nat, content: {0, 1}, errors: Nat, completes: Nat]
      BY <1>2, <2>1 DEF TypeOK
    <3>. QED  BY <1>2, <2>5, <3>1, QuietType
  <2>7. FaultsOK'
    BY <1>2 DEF IInv, FaultsOK
  <2>8. SchemeOK' /\ SentOK' /\ PipeOK' /\ ToldOK'
    BY <1>2, <1>3, <2>1, <2>2, <2>7, QuietStep
  <2>. QED  BY <2>5, <2>6, <2>7, <2>8 DEF IInv
<1>. QED  BY <1>4, <1>5

\* HandleContentRead: the end, an error, a delay or the next read.
LEMMA HandleContentReadStep ==
  ASSUME IInv, HandleContentRead
  PROVE  IInv'
<1>. DEFINE Answered(i) ==
              \/ /\ strand' = Append(strand,
                            [ev |-> "ContentRead", of |-> ops[i].of, what |-> "ok"])
                 /\ ops[i].result = "ok"
                 /\ ops' = Outstanding(First(ops, i))
                 /\ UNCHANGED <<delay, faults>>
              \/ /\ ops[i].result \in {"failed", "malformed"}
                 /\ strand' = Append(strand, AnswerTo(ops[i]))
                 /\ ops' = Outstanding(First(ops, i))
                 /\ UNCHANGED <<delay, faults>>
            More(i) ==
              /\ \/ /\ SetTransactionDelayTimer(ops[i].cancelled)
                    /\ ops' = Outstanding(First(ops, i))
                    /\ UNCHANGED faults
                 \/ /\ ops' = Outstanding(
                                SetAsyncTimeout(First(ops, i), "read_content",
                                    timeout, ops[i].cancelled))
                    /\ UseSocket
                    /\ UNCHANGED delay
              /\ UNCHANGED strand
<1>1. PICK i \in Running :
          /\ ops[i].kind = "read_content"
          /\ told' = told \/ told' = [told EXCEPT !.content = 1 - @]
          /\ Answered(i) \/ More(i)
  <2>1. PICK i \in Running :
          /\ ops[i].kind = "read_content"
          /\ told' = told \/ told' = [told EXCEPT !.content = 1 - @]
          /\ CASE ops[i].result = "ok" ->
                    /\ strand' = Append(strand,
                            [ev |-> "ContentRead", of |-> ops[i].of,
                             what |-> "ok"])
                    /\ ops' = Outstanding(First(ops, i))
                    /\ UNCHANGED <<delay, faults>>
               [] ops[i].result = "more" -> More(i)
               [] OTHER ->
                    /\ strand' = Append(strand, AnswerTo(ops[i]))
                    /\ ops' = Outstanding(First(ops, i))
                    /\ UNCHANGED <<delay, faults>>
    BY DEF HandleContentRead
  <2>2. ops[i].result \in {"ok", "failed", "malformed", "more"}
    BY <2>1, RunningOp DEF ResultOK
  <2>. HIDE DEF More
  <2>3. Answered(i) \/ More(i)
    BY <2>1, <2>2
  <2>. QED  BY <2>1, <2>3
<1>2. UNCHANGED machineVars /\ UNCHANGED <<evq, age, pipe>>
  BY DEF HandleContentRead
<1>3. /\ evq = <<>> /\ Idle /\ strand \in Seq(PlainErrors) /\ ~DelayLive
      /\ ResultOK(ops[i]) /\ ops[i] \in Ops /\ ~ops[i].cancelled
      /\ state = StateOf[ops[i].kind] /\ ops[i].of = attempt /\ socket
  BY RunningOp
<1>4. TypeOK /\ state = "ReadContent" /\ attempt \in Nat /\ timeout \in Nat \ {0}
  BY <1>1, <1>3, Times DEF IInv, StateOf
<1>5. /\ told' \in [redirects: {0, 1}, headers: Nat, content: {0, 1}, errors: Nat, completes: Nat]
      /\ told'.headers = told.headers /\ told'.errors = told.errors
      /\ told'.completes = told.completes
  <2>1. told \in [redirects: {0, 1}, headers: Nat, content: {0, 1}, errors: Nat, completes: Nat]
    BY <1>4 DEF TypeOK
  <2>2. told' = told \/ told' = [told EXCEPT !.content = 1 - @]
    BY <1>1
  <2>. QED  BY <2>1, <2>2
<1>6. /\ delay \in [waiting: BOOLEAN, cancelled: BOOLEAN, enabled: BOOLEAN]
      /\ strand \in Seq(Events)
  BY <1>4 DEF TypeOK
<1>7. ASSUME WaitOK', PhaseOK', strand' \in Seq(Events), faults' = faults,
             delay' \in [waiting: BOOLEAN, cancelled: BOOLEAN, enabled: BOOLEAN]
      PROVE  IInv'
  <2>1. /\ evq' \in Seq(Events) /\ age' \in Nat
        /\ pipe' \in [left: 0 .. PipeSize, read: 0 .. PipeSize]
    BY <1>2, <1>4 DEF TypeOK
  <2>2. TypeOK'
    BY <1>2, <1>5, <1>7, <2>1, QuietType
  <2>3. FaultsOK'
    BY <1>7 DEF IInv, FaultsOK
  <2>4. SchemeOK' /\ SentOK' /\ PipeOK' /\ ToldOK'
    BY <1>2, <1>3, <1>5, <2>3, QuietStep
  <2>. QED  BY <1>7, <2>2, <2>3, <2>4 DEF IInv
<1>8. CASE Answered(i)
  <2>1. PICK e : /\ strand' = Append(strand, e)
                 /\ \/ e = [ev |-> "ContentRead", of |-> ops[i].of, what |-> "ok"]
                    \/ e = AnswerTo(ops[i]) /\ ops[i].result \in {"failed", "malformed"}
    BY <1>8
  <2>2. ops' = Outstanding(First(ops, i)) /\ UNCHANGED <<delay, faults>>
    BY <1>8
  <2>. HIDE DEF Answered
  <2>3. e \in PlainErrors \/ e \in Steps(state, attempt)
    <3>1. CASE e = [ev |-> "ContentRead", of |-> ops[i].of, what |-> "ok"]
      <4>1. e.ev = "ContentRead" /\ e.of = attempt /\ e.what = "ok" /\ e \in Events
        BY <1>3, <1>4, <3>1 DEF Events, Results
      <4>. QED  BY <1>4, <4>1, RowsOf DEF Steps
    <3>2. CASE e = AnswerTo(ops[i]) /\ ops[i].result \in {"failed", "malformed"}
      BY <1>3, <1>4, <3>2, AnswerToEvent
    <3>. QED  BY <2>1, <3>1, <3>2
  <2>4. e \in Events
    BY <2>3 DEF PlainErrors, Steps
  <2>5. strand' \in Seq(Events)
    BY <1>6, <2>1, <2>4, LastEvent
  <2>6. \/ strand' \in Seq(PlainErrors) /\ strand' # <<>>
        \/ OneOf(strand', Steps(state, attempt))
    BY <1>3, <2>1, <2>3, LastEvent, AppendAnswer
  <2>7. ~DelayLive'
    BY <1>3, <2>2 DEF DelayLive
  <2>8. WaitOK' /\ PhaseOK'
    BY <1>2, <1>4, <2>2, <2>6, <2>7, FirstStep
  <2>. QED  BY <1>6, <1>7, <2>2, <2>5, <2>8
<1>9. CASE More(i)
  <2>1. strand' = strand
    BY <1>6, <1>9
  <2>2. CASE /\ SetTransactionDelayTimer(ops[i].cancelled)
             /\ ops' = Outstanding(First(ops, i))
             /\ UNCHANGED faults
    <3>1. delay' = [waiting |-> TRUE, cancelled |-> FALSE, enabled |-> TRUE]
      <4>1. ops[i].cancelled = FALSE
        BY <1>3 DEF Ops
      <4>. QED  BY <2>2, <4>1 DEF SetTransactionDelayTimer
    <3>2. DelayLive' /\ delay' \in [waiting: BOOLEAN, cancelled: BOOLEAN, enabled: BOOLEAN]
      BY <3>1 DEF DelayLive
    <3>3. WaitOK' /\ PhaseOK'
      BY <1>2, <1>3, <1>4, <2>1, <2>2, <3>2, FirstStep
    <3>. QED  BY <1>6, <1>7, <2>1, <2>2, <3>2, <3>3
  <2>3. CASE /\ ops' = Outstanding(
                                SetAsyncTimeout(First(ops, i), "read_content",
                                    timeout, ops[i].cancelled))
             /\ UseSocket
             /\ UNCHANGED delay
    <3>1. "read_content" \in Kinds /\ StateOf["read_content"] = state
      BY <1>4 DEF Kinds, StateOf
    <3>2. faults' = faults
      BY <1>3, <2>3 DEF UseSocket
    <3>3. WaitOK' /\ PhaseOK'
      BY <1>2, <1>4, <2>1, <2>3, <3>1, AgainStep
    <3>. QED  BY <1>6, <1>7, <2>1, <2>3, <3>2, <3>3
  <2>. QED  BY <1>9, <2>2, <2>3
<1>. QED  BY <1>1, <1>8, <1>9

\* A step that only changes handlers and timers of the operations.
LEMMA SameWaitStep ==
  ASSUME IInv, evq = <<>>, evq' = <<>>, NEW i \in DOMAIN ops,
         UNCHANGED <<machineVars, strand, delay, age, pipe, told, faults>>,
         OpsOK(ops'), Guarded(ops'), SameWait(ops', ops)
  PROVE  IInv'
<1>1. /\ state' = state /\ attempt' = attempt /\ setup' = setup /\ timeout' = timeout
      /\ UNCHANGED <<strand, delay, age, pipe, told, faults>> /\ UNCHANGED machineVars
  BY DEF machineVars, requestVars
<1>2. /\ NoneLive(ops') <=> NoneLive(ops)
      /\ CurrentLive(ops) => CurrentLive(ops')
      /\ CurrentFor(ops, timeout - age) => CurrentFor(ops', timeout - age)
      /\ Placed(ops, state, attempt) => Placed(ops', state, attempt)
  BY SameWaitKeeps
<1>3. WaitOK'
  BY <1>1, <1>2 DEF IInv, WaitOK, DelayLive
<1>4. ~Unasked
  BY DEF Unasked
<1>5. Idle => Idle'
  <2>1. DelayLive' <=> DelayLive
    BY <1>1 DEF DelayLive
  <2>2. Calm => Calm'
    BY <1>2, <2>1 DEF Calm
  <2>3. PipeWhole => PipeWhole'
    BY <1>1 DEF PipeWhole
  <2>. QED  BY <1>1, <1>2, <2>1, <2>2, <2>3 DEF Idle
<1>6. PhaseOK'
  BY <1>1, <1>4, <1>5, NoEvent DEF PhaseOK
<1>7. TypeOK'
  <2>1. TypeOK
    BY DEF IInv
  <2>2. /\ evq' \in Seq(Events) /\ strand' \in Seq(Events) /\ age' \in Nat
        /\ delay' \in [waiting: BOOLEAN, cancelled: BOOLEAN, enabled: BOOLEAN]
        /\ pipe' \in [left: 0 .. PipeSize, read: 0 .. PipeSize]
        /\ told' \in [redirects: {0, 1}, headers: Nat, content: {0, 1}, errors: Nat, completes: Nat]
    BY <2>1 DEF TypeOK
  <2>. QED  BY <1>1, <1>3, <2>2, QuietType
<1>8. FaultsOK'
  BY <1>1 DEF IInv, FaultsOK
<1>9. SchemeOK' /\ SentOK' /\ PipeOK' /\ ToldOK'
  BY <1>1, <1>8, QuietStep
<1>. QED  BY <1>3, <1>6, <1>7, <1>8, <1>9 DEF IInv

\* What a handler of an operation can be called with.
LEMMA OutcomesOK ==
  ASSUME NEW kind \in Kinds, NEW r \in Outcomes(kind)
  PROVE  /\ r \in Results
         /\ kind # "read_headers" => r \in {"ok", "failed", "malformed", "more"}
         /\ r = "more" => kind = "read_content"
         /\ kind \in {"proxy_write", "post"} => r # "malformed"
BY DEF Outcomes, Results, Schemes, Kinds

\* HandlerRuns.
LEMMA HandlerRunsStep ==
  ASSUME IInv, Threads = 1, HandlerRuns
  PROVE  IInv'
<1>1. PICK i \in DOMAIN ops, r \in Results :
          /\ ops[i].handler = "waiting"
          /\ r \in Outcomes(ops[i].kind)
          /\ ops' = Outstanding([ops EXCEPT ![i] = HandlerCalled(ops[i], r)])
  BY DEF HandlerRuns
<1>2. /\ HandlerMayRun
      /\ UNCHANGED <<machineVars, evq, strand, delay, age, pipe, told, faults>>
  BY DEF HandlerRuns
<1>3. OpsOK(ops) /\ ops[i] \in Ops /\ ops[i].kind \in Kinds
  BY DEF IInv, WaitOK, OpsOK, Ops
<1>4. Still(ops) /\ evq = <<>>
  BY <1>2, <1>3, OneThread
<1>5. Guarded(ops)
  BY <1>4 DEF IInv, WaitOK
<1>6. ~ops[i].cancelled => ~ops[i].taken
  BY <1>1, <1>5 DEF Guarded, Live
<1>. DEFINE o == HandlerCalled(ops[i], r)
            e == [ops EXCEPT ![i] = o]
<1>7. /\ Alike(o, ops[i]) /\ o.timer = ops[i].timer
      /\ o.cancelled => o.handler = "done"
      /\ ~o.cancelled => o.handler = "running" /\ (o.taken <=> ops[i].taken) /\ ResultOK(o)
  <2>1. CASE ops[i].cancelled
    <3>1. PICK b \in BOOLEAN : o = [ops[i] EXCEPT !.handler = "done", !.taken = b,
                                                 !.kind = "resolve"]
      BY <2>1 DEF HandlerCalled
    <3>. HIDE DEF o
    <3>. QED  BY <1>3, <2>1, <3>1 DEF Ops, Kinds, Alike
  <2>2. CASE ~ops[i].cancelled
    <3>1. o = [ops[i] EXCEPT !.handler = "running", !.result = r]
      BY <1>6, <2>2 DEF HandlerCalled
    <3>. HIDE DEF o
    <3>2. /\ Alike(o, ops[i]) /\ o.timer = ops[i].timer /\ ~o.cancelled
          /\ o.handler = "running" /\ (o.taken <=> ops[i].taken)
          /\ o.kind = ops[i].kind /\ o.result = r
      BY <1>3, <2>2, <3>1 DEF Ops, Alike
    <3>3. ResultOK(o)
      BY <1>1, <1>3, <3>2, OutcomesOK DEF ResultOK
    <3>. QED  BY <3>2, <3>3
  <2>. QED  BY <2>1, <2>2
<1>8. ops' = Outstanding(e) /\ e = [ops EXCEPT ![i] = o]
  BY <1>1
<1>. HIDE DEF e, o
<1>9. OpsOK(ops') /\ Guarded(ops') /\ SameWait(ops', ops)
  BY <1>1, <1>3, <1>4, <1>5, <1>7, <1>8, HandlerRunsOps
<1>10. evq' = <<>>
  BY <1>2, <1>4
<1>. QED  BY <1>2, <1>4, <1>9, <1>10, SameWaitStep

\* TimeoutRuns.
LEMMA TimeoutRunsStep ==
  ASSUME IInv, Threads = 1, TimeoutRuns
  PROVE  IInv'
<1>1. PICK i \in DOMAIN ops :
          /\ ops[i].timer \in {"fired", "aborted"}
          /\ ops' = [ops EXCEPT ![i].timer = "running",
                                ![i].timer_first = ~ops[i].taken]
  BY DEF TimeoutRuns
<1>2. /\ StrandMayRun
      /\ UNCHANGED <<machineVars, evq, strand, delay, age, pipe, told, faults>>
  BY DEF TimeoutRuns
<1>3. OpsOK(ops) /\ ops[i] \in Ops /\ ops \in [DOMAIN ops -> Ops]
  BY DEF IInv, WaitOK, OpsOK
<1>4. Still(ops) /\ evq = <<>>
  BY <1>2, <1>3, OneThread
<1>5. Guarded(ops)
  BY <1>4 DEF IInv, WaitOK
<1>. DEFINE o == [ops[i] EXCEPT !.timer = "running", !.timer_first = ~ops[i].taken]
<1>6. ops' = [ops EXCEPT ![i] = o]
  BY <1>1, <1>3
<1>7. /\ Alike(o, ops[i]) /\ o.timer = "running" /\ o.handler = ops[i].handler
      /\ o.taken <=> ops[i].taken
      /\ o.timer_first <=> ~o.taken
  BY <1>3 DEF Alike, Ops
<1>. HIDE DEF o
<1>8. OpsOK(ops') /\ Guarded(ops') /\ SameWait(ops', ops)
  BY <1>1, <1>3, <1>4, <1>5, <1>6, <1>7, TimeoutRunsOps
<1>9. evq' = <<>>
  BY <1>2, <1>4
<1>. QED  BY <1>2, <1>4, <1>8, <1>9, SameWaitStep

\* HandleAsyncTimeout: the timeout of what is waited for, or nothing.
LEMMA HandleAsyncTimeoutStep ==
  ASSUME IInv, HandleAsyncTimeout
  PROVE  IInv'
<1>1. PICK i \in DOMAIN ops :
          /\ ops[i].timer = "running"
          /\ ops' = Outstanding([ops EXCEPT ![i].timer = "done",
                                            ![i].timer_first = FALSE,
                                            ![i].taken = TRUE])
          /\ evq' = IF ops[i].timer_first /\ ops[i].left = 0 /\ ops[i].current
                    THEN <<[ErrorEvent("IoTimeout") EXCEPT !.of = ops[i].of]>>
                    ELSE <<>>
  BY DEF HandleAsyncTimeout
<1>2. /\ UNCHANGED machineVars
      /\ UNCHANGED <<strand, delay, age, pipe, told, faults>>
  BY DEF HandleAsyncTimeout
<1>3. OpsOK(ops) /\ ops[i] \in Ops /\ ops \in [DOMAIN ops -> Ops]
  BY DEF IInv, WaitOK, OpsOK
<1>4. evq = <<>> /\ Guarded(ops)
  BY <1>1 DEF IInv, WaitOK, Still
<1>. DEFINE o == [ops[i] EXCEPT !.timer = "done", !.timer_first = FALSE, !.taken = TRUE]
            e == [ops EXCEPT ![i] = o]
            late == ops[i].timer_first /\ ops[i].left = 0 /\ ops[i].current
<1>5. ops' = Outstanding(e)
  BY <1>1, <1>3
<1>6. Alike(o, ops[i]) /\ o.timer = "done" /\ o.handler = ops[i].handler
  BY <1>3 DEF Alike, Ops
<1>7. e = [ops EXCEPT ![i] = o]
  OBVIOUS
<1>. HIDE DEF o, e
<1>8. /\ OpsOK(ops') /\ Still(ops') /\ SameWait(ops', ops)
      /\ ~late => Guarded(ops')
  <2>1. /\ OpsOK(Outstanding(e)) /\ Still(Outstanding(e)) /\ SameWait(Outstanding(e), ops)
        /\ ~(ops[i].timer_first /\ ops[i].left = 0 /\ ops[i].current)
              => Guarded(Outstanding(e))
    BY <1>1, <1>3, <1>4, <1>6, <1>7, TimeoutOps
  <2>. QED  BY <1>5, <2>1
<1>9. CASE ~late
  <2>1. evq' = <<>>
    BY <1>1, <1>9
  <2>. QED  BY <1>2, <1>4, <1>8, <1>9, <2>1, SameWaitStep
<1>10. CASE late
  <2>. DEFINE t == [ev |-> "Error", of |-> ops[i].of, what |-> "IoTimeout"]
  <2>1. evq' = <<t>>
    <3>1. [ErrorEvent("IoTimeout") EXCEPT !.of = ops[i].of] = t
      BY DEF ErrorEvent, Event
    <3>. QED  BY <1>1, <1>10, <3>1
  <2>2. t \in Events /\ t.ev = "Error" /\ t.what = "IoTimeout" /\ t.of = ops[i].of
    BY <1>3 DEF Events, Ops
  <2>. HIDE DEF t
  <2>3. evq' # <<>> /\ Head(evq') = t /\ Tail(evq') = <<>> /\ evq' \in Seq(Events)
    BY <2>1, <2>2, OneEvent
  <2>4. /\ state' = state /\ attempt' = attempt /\ setup' = setup /\ timeout' = timeout
        /\ UNCHANGED <<strand, delay, age, pipe, told, faults>>
    BY <1>2 DEF machineVars, requestVars
  <2>5. /\ NoneLive(ops') <=> NoneLive(ops)
        /\ Placed(ops, state, attempt) => Placed(ops', state, attempt)
    BY <1>8, SameWaitKeeps
  <2>6. WaitOK'
    BY <1>8, <2>3, <2>4, <2>5 DEF IInv, WaitOK, DelayLive
  <2>7. PhaseOK'
    <3>1. CASE state \in Ended
      BY <2>4, <3>1 DEF PhaseOK
    <3>2. CASE Unasked
      BY <3>2 DEF Unasked
    <3>3. CASE Idle
      <4>1. Live(ops[i]) /\ ~NoneLive(ops) /\ state \in Waiting
        BY <1>10, <3>3 DEF Idle, CurrentLive, NoneLive
      <4>2. strand \in Seq(PlainErrors)
        BY <3>3, <4>1 DEF Idle, Calm
      <4>3. ops[i].of = attempt
        BY <4>1 DEF IInv, WaitOK, Placed, Live
      <4>4. \A n \in DOMAIN ops : Live(ops[n]) => n = i
        BY <1>3, <1>10 DEF OpsOK, HandlerOK, OneCurrent
      <4>5. \A n \in DOMAIN ops' : Live(ops'[n]) => ops'[n].left = 0
        BY <1>8, <1>10, <4>4 DEF SameWait
      <4>6. state \in Late => age >= timeout
        <5>1. age \in Nat /\ timeout \in Nat
          BY Times DEF IInv
        <5>2. state \in Late => 0 >= timeout - age
          BY <1>10, <3>3 DEF Idle, CurrentFor
        <5>. QED  BY <5>1, <5>2
      <4>7. TimedOut'
        BY <2>2, <2>3, <2>4, <2>5, <4>1, <4>2, <4>3, <4>5, <4>6 DEF TimedOut
      <4>. QED  BY <4>7 DEF PhaseOK
    <3>. QED  BY <1>4, <3>1, <3>2, <3>3, NoEvent
  <2>8. TypeOK'
    <3>1. TypeOK
      BY DEF IInv
    <3>2. /\ strand' \in Seq(Events) /\ age' \in Nat
          /\ delay' \in [waiting: BOOLEAN, cancelled: BOOLEAN, enabled: BOOLEAN]
          /\ pipe' \in [left: 0 .. PipeSize, read: 0 .. PipeSize]
          /\ told' \in [redirects: {0, 1}, headers: Nat, content: {0, 1}, errors: Nat, completes: Nat]
      BY <1>2, <3>1 DEF TypeOK
    <3>. QED  BY <1>2, <2>3, <2>6, <3>2, QuietType
  <2>9. FaultsOK'
    BY <2>4 DEF IInv, FaultsOK
  <2>10. SchemeOK' /\ SentOK' /\ PipeOK' /\ ToldOK'
    BY <1>2, <1>4, <2>2, <2>3, <2>4, <2>9, QuietStep
  <2>. QED  BY <2>6, <2>7, <2>8, <2>9, <2>10 DEF IInv
<1>. QED  BY <1>9, <1>10

\* DelaySkipped: the delay was not waited for.
LEMMA DelaySkippedStep ==
  ASSUME IInv, Threads = 1, DelaySkipped
  PROVE  IInv'
<1>1. /\ StrandMayRun /\ (delay.cancelled \/ ~delay.enabled)
      /\ delay' = [delay EXCEPT !.waiting = FALSE]
      /\ UNCHANGED machineVars
      /\ UNCHANGED <<evq, strand, ops, age, pipe, told, faults>>
  BY DEF DelaySkipped
<1>2. TypeOK /\ OpsOK(ops)
  BY DEF IInv, WaitOK
<1>3. evq = <<>>
  BY <1>1, <1>2, OneThread DEF DelaySkipped
<1>4. /\ delay' \in [waiting: BOOLEAN, cancelled: BOOLEAN, enabled: BOOLEAN]
      /\ ~DelayLive'
  <2>1. delay \in [waiting: BOOLEAN, cancelled: BOOLEAN, enabled: BOOLEAN]
    BY <1>2 DEF TypeOK
  <2>2. delay' = [delay EXCEPT !.waiting = FALSE]
    BY <1>1
  <2>. QED  BY <2>1, <2>2 DEF DelayLive
<1>5. ~DelayLive
  BY DEF DelaySkipped, DelayLive
<1>6. /\ state' = state /\ attempt' = attempt /\ setup' = setup /\ timeout' = timeout
      /\ UNCHANGED <<evq, strand, ops, age, pipe, told, faults>>
  BY <1>1 DEF machineVars, requestVars
<1>7. WaitOK'
  BY <1>4, <1>6 DEF IInv, WaitOK
<1>8. PhaseOK'
  <2>1. CASE state \in Ended
    BY <1>6, <2>1 DEF PhaseOK
  <2>2. CASE Unasked
    BY <1>6, <2>2 DEF PhaseOK, Unasked
  <2>3. CASE Idle
    <3>1. Calm => Calm'
      BY <1>4, <1>6 DEF Calm
    <3>2. PipeWhole => PipeWhole'
      BY <1>6 DEF PipeWhole
    <3>3. Idle'
      BY <1>4, <1>5, <1>6, <2>3, <3>1, <3>2 DEF Idle
    <3>. QED  BY <3>3 DEF PhaseOK
  <2>. QED  BY <1>3, <2>1, <2>2, <2>3, NoEvent
<1>9. TypeOK'
  <2>1. /\ evq' \in Seq(Events) /\ strand' \in Seq(Events) /\ age' \in Nat
        /\ pipe' \in [left: 0 .. PipeSize, read: 0 .. PipeSize]
        /\ told' \in [redirects: {0, 1}, headers: Nat, content: {0, 1}, errors: Nat, completes: Nat]
    BY <1>2, <1>6 DEF TypeOK
  <2>. QED  BY <1>1, <1>4, <1>6, <1>7, <2>1, QuietType
<1>10. FaultsOK'
  BY <1>6 DEF IInv, FaultsOK
<1>11. SchemeOK' /\ SentOK' /\ PipeOK' /\ ToldOK'
  BY <1>1, <1>3, <1>6, <1>10, QuietStep
<1>. QED  BY <1>7, <1>8, <1>9, <1>10, <1>11 DEF IInv

\* The callback of the delay timer: the transfer goes on.
LEMMA DelayCallbackStep ==
  ASSUME IInv, Threads = 1, NEW kind \in {"post", "read_content"}, StateOf[kind] = state,
         NEW enabled \in BOOLEAN, DelayCallback(kind, enabled)
  PROVE  IInv'
<1>1. /\ StrandMayRun /\ DelayLive
      /\ delay' = [delay EXCEPT !.waiting = FALSE, !.enabled = enabled]
      /\ ops' = Outstanding(SetAsyncTimeout(ops, kind, timeout, FALSE))
      /\ UseSocket
      /\ UNCHANGED machineVars
      /\ UNCHANGED <<evq, strand, age, pipe, told>>
  BY DEF DelayCallback, DelayLive
<1>2. TypeOK /\ OpsOK(ops) /\ Placed(ops, state, attempt) /\ NoneLive(ops)
  BY <1>1 DEF IInv, WaitOK
<1>3. evq = <<>> /\ Still(ops)
  BY <1>1, <1>2, OneThread
<1>4. attempt \in Nat /\ age \in Nat /\ timeout \in Nat \ {0} /\ kind \in Kinds /\ state \in Waiting
  BY <1>2, Times, StateOfWaits DEF Kinds
<1>5. Idle /\ strand \in Seq(PlainErrors)
  BY <1>1, <1>3, <1>4, NoEvent DEF Idle, Calm
<1>6. /\ OpsOK(ops') /\ Still(ops') /\ Guarded(ops') /\ ~NoneLive(ops')
      /\ CurrentLive(ops') /\ CurrentFor(ops', timeout)
      /\ Placed(ops', state, attempt)
  BY <1>1, <1>2, <1>3, <1>4, SetOps
<1>7. /\ delay' \in [waiting: BOOLEAN, cancelled: BOOLEAN, enabled: BOOLEAN]
      /\ ~DelayLive'
  <2>1. delay \in [waiting: BOOLEAN, cancelled: BOOLEAN, enabled: BOOLEAN]
    BY <1>2 DEF TypeOK
  <2>2. delay' = [delay EXCEPT !.waiting = FALSE, !.enabled = enabled]
    BY <1>1
  <2>. QED  BY <2>1, <2>2 DEF DelayLive
<1>8. /\ state' = state /\ attempt' = attempt /\ setup' = setup /\ timeout' = timeout
      /\ UNCHANGED <<evq, strand, age, pipe, told, faults>>
  <2>1. socket
    BY <1>4 DEF IInv, SchemeOK
  <2>. QED  BY <1>1, <2>1 DEF machineVars, requestVars, UseSocket
<1>9. WaitOK'
  BY <1>3, <1>6, <1>7, <1>8 DEF WaitOK
<1>10. CurrentFor(ops', timeout - age)
  <2>1. \A n \in DOMAIN ops' : ops'[n].left \in Nat
    BY <1>6 DEF OpsOK, Ops
  <2>. QED  BY <1>4, <1>6, <2>1 DEF CurrentFor
<1>11. PhaseOK'
  <2>1. Idle'
    BY <1>3, <1>4, <1>5, <1>6, <1>8, <1>10 DEF Idle
  <2>. QED  BY <2>1 DEF PhaseOK
<1>12. TypeOK'
  <2>1. /\ evq' \in Seq(Events) /\ strand' \in Seq(Events) /\ age' \in Nat
        /\ pipe' \in [left: 0 .. PipeSize, read: 0 .. PipeSize]
        /\ told' \in [redirects: {0, 1}, headers: Nat, content: {0, 1}, errors: Nat, completes: Nat]
    BY <1>2, <1>8 DEF TypeOK
  <2>2. UNCHANGED machineVars
    BY <1>1
  <2>. QED  BY <1>7, <1>8, <1>9, <2>1, <2>2, QuietType
<1>13. FaultsOK'
  BY <1>8 DEF IInv, FaultsOK
<1>14. SchemeOK' /\ SentOK' /\ PipeOK' /\ ToldOK'
  <2>1. UNCHANGED machineVars
    BY <1>1
  <2>. QED  BY <1>3, <1>8, <1>13, <2>1, QuietStep
<1>. QED  BY <1>9, <1>11, <1>12, <1>13, <1>14 DEF IInv

\* Tick: a wait is never over before its time, nor the request too old.
LEMMA TickStep ==
  ASSUME IInv, Tick
  PROVE  IInv'
<1>1. /\ ops' = Ticked(ops)
      /\ age' = IF age < timeout /\ state \notin Ended THEN age + 1 ELSE age
      /\ UNCHANGED machineVars
      /\ UNCHANGED <<evq, strand, delay, pipe, told, faults>>
  BY DEF Tick, Ticked
<1>2. TypeOK /\ OpsOK(ops) /\ age \in Nat /\ timeout \in Nat
  BY Times DEF IInv, WaitOK
<1>3. age' \in Nat /\ age' >= age /\ (age' = age \/ age' = age + 1)
  BY <1>1, <1>2
<1>4. /\ OpsOK(ops') /\ DOMAIN ops' = DOMAIN ops
      /\ Guarded(ops) => Guarded(ops')
      /\ Still(ops) => Still(ops')
      /\ NoneLive(ops) <=> NoneLive(ops')
      /\ CurrentLive(ops) => CurrentLive(ops')
      /\ Placed(ops, state, attempt) => Placed(ops', state, attempt)
      /\ \A n \in DOMAIN ops :
               /\ Live(ops'[n]) <=> Live(ops[n])
               /\ ops'[n].current => ops[n].current
               /\ ops'[n].left \in Nat /\ ops'[n].left >= ops[n].left - 1
               /\ ops[n].left = 0 => ops'[n].left = 0
  BY <1>1, <1>2, TickOps
<1>5. /\ state' = state /\ attempt' = attempt /\ setup' = setup /\ timeout' = timeout
      /\ UNCHANGED <<evq, strand, delay, pipe, told, faults>>
  BY <1>1 DEF machineVars, requestVars
<1>6. WaitOK'
  BY <1>4, <1>5 DEF IInv, WaitOK, DelayLive
<1>7. (Calm => Calm') /\ (DelayLive' <=> DelayLive) /\ (PipeWhole => PipeWhole')
  BY <1>4, <1>5 DEF Calm, DelayLive, PipeWhole
<1>8. state \notin Ended /\ CurrentFor(ops, timeout - age) => CurrentFor(ops', timeout - age')
  <2>. HAVE state \notin Ended /\ CurrentFor(ops, timeout - age)
  <2>1. ASSUME NEW n \in DOMAIN ops', ops'[n].current
        PROVE  ops'[n].left >= timeout - age'
    <3>1. ops[n].left \in Nat /\ ops[n].left >= timeout - age
          /\ ops'[n].left \in Nat /\ ops'[n].left >= ops[n].left - 1
      BY <1>2, <1>4, <2>1 DEF CurrentFor, OpsOK, Ops
    <3>2. CASE age' = age + 1
      BY <1>2, <3>1, <3>2
    <3>3. CASE age' = age /\ age >= timeout
      BY <1>2, <3>1, <3>3
    <3>. QED  BY <1>1, <1>2, <1>3, <3>2, <3>3
  <2>. QED  BY <2>1 DEF CurrentFor
<1>9. PhaseOK'
  <2>1. CASE state \in Ended
    BY <1>5, <2>1 DEF PhaseOK
  <2>2. CASE Unasked
    BY <1>1, <1>5, <2>2 DEF PhaseOK, Unasked, Ticked
  <2>3. CASE Idle
    <3>1. state \notin Ended
      BY <2>3 DEF Idle, Waiting, Ended
    <3>2. Idle'
      BY <1>4, <1>5, <1>7, <1>8, <2>3, <3>1 DEF Idle
    <3>. QED  BY <3>2 DEF PhaseOK
  <2>4. CASE Going
    BY <1>5, <1>7, <2>4 DEF PhaseOK, Going
  <2>5. CASE TimedOut
    <3>1. state \in Late => age' >= timeout
      BY <1>2, <1>3, <2>5 DEF TimedOut
    <3>2. TimedOut'
      BY <1>4, <1>5, <2>5, <3>1 DEF TimedOut
    <3>. QED  BY <3>2 DEF PhaseOK
  <2>6. CASE Doomed
    BY <1>5, <2>6 DEF PhaseOK, Doomed
  <2>. QED  BY <2>1, <2>2, <2>3, <2>4, <2>5, <2>6 DEF IInv, PhaseOK
<1>10. TypeOK'
  <2>1. /\ evq' \in Seq(Events) /\ strand' \in Seq(Events)
        /\ delay' \in [waiting: BOOLEAN, cancelled: BOOLEAN, enabled: BOOLEAN]
        /\ pipe' \in [left: 0 .. PipeSize, read: 0 .. PipeSize]
        /\ told' \in [redirects: {0, 1}, headers: Nat, content: {0, 1}, errors: Nat, completes: Nat]
    BY <1>2, <1>5 DEF TypeOK
  <2>2. UNCHANGED machineVars
    BY <1>1
  <2>. QED  BY <1>3, <1>5, <1>6, <2>1, <2>2, QuietType
<1>11. /\ UNCHANGED <<state, setup, scheme, hop, socket, is_ssl, sent, evq, pipe, told, faults>>
       /\ Clean' <=> Clean
  BY <1>1 DEF machineVars, requestVars, Clean
<1>12. SchemeOK' /\ SentOK' /\ PipeOK' /\ ToldOK' /\ FaultsOK'
  BY <1>11 DEF IInv, SchemeOK, NoHop, SentOK, PipeOK, PipeWhole, ToldOK, FaultsOK
<1>. QED  BY <1>6, <1>9, <1>10, <1>12 DEF IInv

-----------------------------------------------------------------------------
(* The user *)

\* Configure, before the request is started.
LEMMA ConfigureStep ==
  ASSUME IInv, Configure
  PROVE  IInv'
<1>1. /\ state = "Unstarted" /\ strand = <<>> /\ evq = <<>>
      /\ UNCHANGED <<state, evq, strand, ops, delay, socket, scheme, is_ssl, hop,
                     attempt, age, pipe,  cancels, told, sent, faults>>
  BY DEF Configure
<1>2. timeout' \in Timeouts /\ setup' \in Setups
  BY DEF Configure, IInv, TypeOK
<1>3. setup'.policy = setup.policy /\ setup'.scheme = setup.scheme
  <2>1. setup \in [scheme: Schemes, post: {"none", "buffer", "pipe"},
                   policy: {"Allow", "DenyDowngrade", "Deny"},
                   http_proxy: {"none", "open", "login"},
                   https_proxy: {"none", "open", "login"}]
    BY SetupsAssumption DEF IInv, TypeOK
  <2>2. setup' = setup \/ \E p : setup' = [setup EXCEPT !.post = p]
    BY DEF Configure
  <2>. QED  BY <2>1, <2>2
<1>4. TypeOK'
  BY <1>1, <1>2 DEF IInv, TypeOK
<1>5. Unasked'
  BY <1>1, NoEvent DEF Unasked
<1>6. WaitOK'
  BY <1>1 DEF IInv, WaitOK, DelayLive
<1>7. SchemeOK'
  BY <1>1, <1>3 DEF IInv, SchemeOK, NoHop
<1>8. Clean /\ Clean'
  BY <1>1 DEF Clean, Before
<1>9. SentOK' /\ ToldOK' /\ FaultsOK'
  BY <1>1, <1>8 DEF IInv, SentOK, ToldOK, FaultsOK
<1>10. PipeOK'
  BY <1>1, <1>8 DEF IInv, PipeOK
<1>. QED  BY <1>4, <1>5, <1>6, <1>7, <1>9, <1>10 DEF IInv, PhaseOK

\* Start dispatches the first event.
LEMMA StartStep ==
  ASSUME IInv, Start
  PROVE  IInv'
<1>1. /\ state = "Unstarted" /\ evq = <<>> /\ UNCHANGED machineVars
      /\ strand' = <<Event("Start", "none")>>
      /\ UNCHANGED <<evq, ops, delay, age, pipe, told, faults>>
  BY DEF Start
<1>2. TypeOK /\ attempt \in Nat
  BY Times DEF IInv
<1>. DEFINE e == Event("Start", "none")
<1>3. e \in Events /\ e.ev = "Start" /\ e.what = "none"
  BY <1>2 DEF Event, Events
<1>. HIDE DEF e
<1>4. e \in Steps("Unstarted", attempt)
  BY <1>3, RowsOf DEF Steps, Waiting
<1>5. strand' = Append(<<>>, e) /\ strand' \in Seq(Events) /\ strand'[1] = e
  BY <1>1, <1>3, OneEvent DEF e
<1>6. OneOf(strand', Steps("Unstarted", attempt))
  BY <1>4, <1>5, AppendAnswer, EmptySeq
<1>7. /\ state' = state /\ attempt' = attempt /\ setup' = setup /\ timeout' = timeout
      /\ UNCHANGED <<evq, ops, delay, age, pipe, told, faults>>
  BY <1>1 DEF machineVars, requestVars
<1>8. Unasked'
  BY <1>1, <1>3, <1>5, <1>6, <1>7, NoEvent DEF Unasked
<1>9. WaitOK'
  BY <1>7 DEF IInv, WaitOK, DelayLive
<1>10. TypeOK'
  <2>1. /\ evq' \in Seq(Events) /\ age' \in Nat
        /\ delay' \in [waiting: BOOLEAN, cancelled: BOOLEAN, enabled: BOOLEAN]
        /\ pipe' \in [left: 0 .. PipeSize, read: 0 .. PipeSize]
        /\ told' \in [redirects: {0, 1}, headers: Nat, content: {0, 1}, errors: Nat, completes: Nat]
    BY <1>2, <1>7 DEF TypeOK
  <2>. QED  BY <1>1, <1>5, <1>7, <1>9, <2>1, QuietType
<1>11. FaultsOK'
  BY <1>7 DEF IInv, FaultsOK
<1>12. SchemeOK' /\ SentOK' /\ PipeOK' /\ ToldOK'
  BY <1>1, <1>7, <1>11, QuietStep
<1>. QED  BY <1>8, <1>9, <1>10, <1>11, <1>12 DEF IInv, PhaseOK

\* Cancel: an error behind whatever waits for the strand.
LEMMA CancelStep ==
  ASSUME IInv, Cancel
  PROVE  IInv'
<1>. DEFINE e == ErrorEvent("none")
<1>1. /\ state # "Unstarted" \/ strand # <<>> \/ evq # <<>>
      /\ cancels' = cancels + 1
      /\ strand' = Append(strand, e)
      /\ UNCHANGED <<setup, timeout, state, evq, ops, delay, socket, scheme,
                     is_ssl, hop, attempt, age, pipe, told, sent, faults>>
  BY DEF Cancel
<1>2. TypeOK /\ attempt \in Nat /\ strand \in Seq(Events)
  BY Times DEF IInv, TypeOK
<1>3. e \in PlainErrors /\ e \in Events
  BY <1>2 DEF ErrorEvent, Event, PlainErrors, Events
<1>. HIDE DEF e
<1>4. strand' \in Seq(Events) /\ strand' # <<>>
  BY <1>1, <1>2, <1>3, LastEvent
<1>5. strand \in Seq(PlainErrors) => strand' \in Seq(PlainErrors)
  BY <1>1, <1>3, LastEvent
<1>6. \A S : OneOf(strand, S) => OneOf(strand', S) /\ strand'[1] = strand[1]
  <2>. TAKE S
  <2>. HAVE OneOf(strand, S)
  <2>. QED  BY <1>1, <1>2, <1>3, AppendError
<1>7. (Calm' <=> Calm) /\ (DelayLive' <=> DelayLive) /\ (PipeWhole' <=> PipeWhole)
  BY <1>1 DEF Calm, DelayLive, PipeWhole
<1>8. PhaseOK'
  <2>1. CASE state \in Ended
    BY <1>1, <2>1 DEF PhaseOK
  <2>2. CASE Unasked
    <3>1. OneOf(strand, Steps(state, attempt)) /\ strand[1].ev # "Error"
      BY <1>1, <2>2 DEF Unasked
    <3>2. OneOf(strand', Steps(state, attempt)) /\ strand'[1].ev # "Error"
      BY <1>6, <3>1
    <3>3. Unasked'
      BY <1>1, <2>2, <3>2 DEF Unasked
    <3>. QED  BY <3>3 DEF PhaseOK
  <2>3. CASE Idle
    <3>1. Idle'
      BY <1>1, <1>4, <1>5, <1>6, <1>7, <2>3 DEF Idle
    <3>. QED  BY <3>1 DEF PhaseOK
  <2>4. CASE Going
    BY <1>1, <1>5, <1>7, <2>4 DEF PhaseOK, Going
  <2>5. CASE TimedOut
    BY <1>1, <1>5, <2>5 DEF PhaseOK, TimedOut
  <2>6. CASE Doomed
    BY <1>1, <2>6 DEF PhaseOK, Doomed
  <2>. QED  BY <2>1, <2>2, <2>3, <2>4, <2>5, <2>6 DEF IInv, PhaseOK
<1>9. WaitOK'
  BY <1>1 DEF IInv, WaitOK, DelayLive
<1>10. TypeOK'
  <2>1. cancels' \in Nat
    <3>1. cancels \in Nat /\ cancels' = cancels + 1
      BY <1>2 DEF TypeOK, Cancel
    <3>. QED  BY <3>1
  <2>. QED  BY <1>1, <1>2, <1>4, <2>1 DEF TypeOK
<1>11. Clean' <=> Clean
  BY <1>1 DEF Clean
<1>12. SchemeOK' /\ SentOK' /\ PipeOK' /\ ToldOK' /\ FaultsOK'
  BY <1>1, <1>11 DEF IInv, SchemeOK, NoHop, SentOK, PipeOK, PipeWhole, ToldOK, FaultsOK
<1>. QED  BY <1>8, <1>9, <1>10, <1>12 DEF IInv

-----------------------------------------------------------------------------
(* The specification *)

\* A request that was just created.
LEMMA InitStep ==
  ASSUME Init
  PROVE  IInv
<1>1. /\ setup \in Setups /\ timeout \in Timeouts /\ state = "Unstarted"
      /\ evq = <<>> /\ strand = <<>> /\ ops = <<>>
      /\ delay = [waiting |-> FALSE, cancelled |-> FALSE, enabled |-> FALSE]
      /\ socket = FALSE /\ is_ssl = FALSE
      /\ scheme = setup.scheme
      /\ hop = 0 /\ attempt = 0 /\ age = 0 /\ cancels = 0
      /\ pipe = [left |-> PipeSize, read |-> 0]
      /\ told = [redirects |-> 0, headers |-> 0, content |-> 0, errors |-> 0, completes |-> 0]
      /\ sent = 0
      /\ faults = {}
  BY DEF Init
<1>2. DOMAIN ops = {} /\ IsFiniteSet(DOMAIN ops)
  <2>1. DOMAIN ops = {}
    BY <1>1
  <2>. QED  BY <2>1, FS_EmptySet
<1>3. evq \in Seq(Events) /\ strand \in Seq(Events)
  BY <1>1
<1>4. scheme \in Schemes
  BY <1>1, SetupsAssumption
<1>5. pipe \in [left: 0 .. PipeSize, read: 0 .. PipeSize] /\ pipe.left = PipeSize
  BY <1>1, HttpRequestAssumption
<1>6. /\ told \in [redirects: {0, 1}, headers: Nat, content: {0, 1}, errors: Nat, completes: Nat]
      /\ told.headers = 0 /\ told.errors = 0 /\ told.completes = 0
  BY <1>1
<1>7. sent \in Nat /\ sent = 0
  BY <1>1
<1>8. /\ delay \in [waiting: BOOLEAN, cancelled: BOOLEAN, enabled: BOOLEAN]
      /\ ~delay.waiting
  BY <1>1
<1>9. ops \in [DOMAIN ops -> Ops]
  BY <1>1
<1>10. TypeOK
  <2>1. state \in States /\ faults \subseteq {"improper transition", "null socket"}
    BY <1>1 DEF States
  <2>2. socket \in BOOLEAN /\ is_ssl \in BOOLEAN
    BY <1>1
  <2>3. hop \in {0, 1} /\ attempt \in Nat /\ age \in Nat /\ cancels \in Nat
    BY <1>1
  <2>4. setup \in Setups /\ timeout \in Timeouts
    BY <1>1
  <2>. QED
    BY <1>2, <1>3, <1>4, <1>5, <1>6, <1>7, <1>8, <1>9, <2>1, <2>2, <2>3, <2>4 DEF TypeOK
<1>11. WaitOK
  <2>1. OpsOK(ops) /\ Placed(ops, state, attempt) /\ Guarded(ops)
    BY <1>2, <1>9 DEF OpsOK, OneCurrent, OneHandler, Placed, Guarded
  <2>. QED  BY <1>1, <1>8, <2>1 DEF WaitOK, DelayLive
<1>12. PhaseOK
  BY <1>1 DEF PhaseOK, Unasked
<1>13. SchemeOK
  BY <1>1 DEF SchemeOK, NoHop, Waiting
<1>14. SentOK
  BY <1>7 DEF SentOK
<1>15. PipeOK
  BY <1>1, <1>5 DEF PipeOK
<1>16. ToldOK
  BY <1>1, <1>6 DEF ToldOK
<1>17. FaultsOK
  BY <1>1 DEF FaultsOK
<1>. QED  BY <1>10, <1>11, <1>12, <1>13, <1>14, <1>15, <1>16, <1>17 DEF IInv

\* The rows of the transition table.
LEMMA MachineStep ==
  ASSUME IInv, Machine
  PROVE  IInv'
BY EnterInitializingStep, EnterResolveStep, EnterConnectStep, EnterProxyConnectStep,
   EnterSSLHandshakeStep, EnterSendHeaderStep, EnterSendPostBufferStep,
   EnterSendPostPipeStep, EnterReadHeadersStep, EnterParseHeadersStep, EnterRedirectStep,
   EnterReadContentStep, EnterCompleteStep, EnterErrorStep, EnterFinalErrorStep,
   NoTransitionStep DEF Machine

\* The handlers of the operations.
LEMMA HandlersStep ==
  ASSUME IInv, Handlers
  PROVE  IInv'
<1>1. ASSUME NEW kind \in {"resolve", "connect", "proxy_read", "handshake", "header",
                           "read_headers"},
             Answers(kind)
      PROVE  IInv'
  <2>1. PICK i \in Running :
           /\ ops[i].kind = kind
           /\ strand' = Append(strand, AnswerTo(ops[i]))
           /\ ops' = Outstanding(First(ops, i))
           /\ UNCHANGED <<machineVars, evq, delay, age, pipe, told, faults>>
    BY <1>1 DEF Answers
  <2>2. ops[i].kind \notin {"proxy_write", "read_content", "post"}
    BY <2>1
  <2>. QED  BY <2>1, <2>2, AnswersStep
<1>2. CASE HandleResolve \/ HandleConnect \/ HandleProxyHeaderRead \/ HandleHandshake
           \/ HandleHeaderWrite \/ HandleHeaderRead
  BY <1>1, <1>2 DEF HandleResolve, HandleConnect, HandleProxyHeaderRead, HandleHandshake,
                    HandleHeaderWrite, HandleHeaderRead
<1>. QED  BY <1>2, HandleProxyConnectWriteStep, HandlePostWriteStep, HandleContentReadStep
             DEF Handlers

\* The handlers of the timers.
LEMMA TimersStep ==
  ASSUME IInv, Threads = 1, Timers
  PROVE  IInv'
<1>1. ASSUME PostViaInterfaceDelayCallback  PROVE IInv'
  <2>1. "post" \in {"post", "read_content"} /\ StateOf["post"] = state /\ FALSE \in BOOLEAN
    BY <1>1 DEF PostViaInterfaceDelayCallback, StateOf
  <2>2. DelayCallback("post", FALSE)
    BY <1>1 DEF PostViaInterfaceDelayCallback
  <2>. QED  BY <2>1, <2>2, DelayCallbackStep
<1>2. ASSUME NEW enabled \in BOOLEAN, state = "ReadContent", DelayCallback("read_content", enabled)
      PROVE  IInv'
  <2>1. "read_content" \in {"post", "read_content"} /\ StateOf["read_content"] = state
    BY <1>2 DEF StateOf
  <2>. QED  BY <1>2, <2>1, DelayCallbackStep
<1>3. ASSUME HandleContentReadDelayCallback \/ HandleContentChunkSizeReadDelay  PROVE IInv'
  BY <1>2, <1>3 DEF HandleContentReadDelayCallback, HandleContentChunkSizeReadDelay
<1>. QED  BY <1>1, <1>3, TimeoutRunsStep, HandleAsyncTimeoutStep, DelaySkippedStep DEF Timers

\* Nothing happens.
LEMMA StutterStep ==
  ASSUME IInv, UNCHANGED vars
  PROVE  IInv'
<1>1. UNCHANGED <<setup, timeout, state, evq, strand, ops, delay, socket, scheme, is_ssl>>
  BY DEF vars
<1>2. UNCHANGED <<hop, attempt, age, pipe,  cancels, told, sent, faults>>
  BY DEF vars
<1>3. TypeOK'
  BY <1>1, <1>2 DEF IInv, TypeOK
<1>4. WaitOK'
  BY <1>1, <1>2 DEF IInv, WaitOK, DelayLive
<1>5. (Calm' <=> Calm) /\ (DelayLive' <=> DelayLive) /\ (PipeWhole' <=> PipeWhole)
      /\ (Clean' <=> Clean)
  BY <1>1, <1>2 DEF Calm, DelayLive, PipeWhole, Clean
<1>6. PhaseOK'
  BY <1>1, <1>2, <1>5 DEF IInv, PhaseOK, Unasked, Idle, Going, TimedOut, Doomed
<1>7. SchemeOK' /\ SentOK' /\ PipeOK' /\ ToldOK' /\ FaultsOK'
  BY <1>1, <1>2, <1>5 DEF IInv, SchemeOK, NoHop, SentOK, PipeOK, ToldOK, FaultsOK
<1>. QED  BY <1>3, <1>4, <1>6, <1>7 DEF IInv

\* With one thread, every step keeps the inductive invariant.
LEMMA NextStep ==
  ASSUME IInv, Threads = 1, [Next]_vars
  PROVE  IInv'
BY MachineStep, HandlersStep, TimersStep, StrandRunsStep, HandlerRunsStep, TickStep,
   ConfigureStep, StartStep, CancelStep, StutterStep DEF Next, User

\* When one thread runs the work io_service, the machine is always not
\* started, waiting and guarded, handling the one event that takes it on, handling
\* a timeout, or ending (http_request_state_machine.hpp).
THEOREM Invariant == Threads = 1 => (Spec => []IInv)
<1>. SUFFICES ASSUME Threads = 1  PROVE Spec => []IInv
  OBVIOUS
<1>1. Init => IInv
  BY InitStep
<1>2. IInv /\ [Next]_vars => IInv'
  BY NextStep
<1>. QED  BY <1>1, <1>2, PTL DEF Spec

\* When one thread runs the io_service, every header is written at most once
\* to each URL, and the answer is waited for only after a whole pass over the
\* pipe: EnterError restarts no request whose header may have been sent,
\* because the waits from SendHeader on are as long as the request's timeout.
THEOREM SendsOnce == Threads = 1 => (Spec => []SentOnce)
<1>. SUFFICES ASSUME Threads = 1  PROVE Spec => []SentOnce
  OBVIOUS
<1>1. IInv => SentOnce
  BY DEF IInv, SentOK, PipeOK, PipeWhole, SentOnce
<1>2. Spec => []IInv
  BY Invariant
<1>. QED  BY <1>1, <1>2, PTL

\* When one thread runs the io_service, a machine that waits is guarded by a timer
\* that is armed or on its way, or is about to go on with a delayed transfer:
\* no state starts an operation without SetAsyncTimeout.
THEOREM AlwaysGuarded == Threads = 1 => (Spec => []NeverUnguarded)
<1>. SUFFICES ASSUME Threads = 1  PROVE Spec => []NeverUnguarded
  OBVIOUS
<1>1. IInv => NeverUnguarded
  <2>. SUFFICES ASSUME IInv, state \in Waiting, evq = <<>>, strand = <<>>, ~DelayLive
                PROVE  \E i \in DOMAIN ops :
                          /\ ~ops[i].cancelled /\ ops[i].of = attempt
                          /\ \/ ops[i].handler = "running"
                             \/ /\ ops[i].handler = "waiting" /\ ~ops[i].taken
                                /\ ops[i].current
                                /\ ops[i].timer \in {"armed", "fired", "running"}
    BY DEF NeverUnguarded, DelayLive
  <2>1. ~OneOf(strand, Steps(state, attempt))
    BY DEF OneOf
  <2>2. ~NoneLive(ops)
    BY <2>1, NoEvent DEF Idle
  <2>3. PICK i \in DOMAIN ops : Live(ops[i])
    BY <2>2 DEF NoneLive
  <2>4. ops[i] \in Ops /\ HandlerOK(ops[i]) /\ Guarded(ops) /\ Placed(ops, state, attempt)
    BY DEF IInv, WaitOK, OpsOK
  <2>5. ops[i].handler \in {"waiting", "running"} /\ ~ops[i].cancelled
    BY <2>3, <2>4 DEF Live, Ops
  <2>. QED  BY <2>3, <2>4, <2>5 DEF HandlerOK, Guarded, Placed
<1>2. Spec => []IInv
  BY Invariant
<1>. QED  BY <1>1, <1>2, PTL

\* When one thread runs the io_service, the answer of an operation is handled in
\* the attempt that started it, and a timeout is that of the operation that
\* is waited for (timeout_id_ and the RacePreventer of HandleAsyncTimeout).
THEOREM AnswersInTime == Threads = 1 => (Spec => []NoLateAnswer)
<1>. SUFFICES ASSUME Threads = 1  PROVE Spec => []NoLateAnswer
  OBVIOUS
<1>1. IInv => NoLateAnswer
  <2>. SUFFICES ASSUME IInv, evq # <<>>, state \notin Ended  PROVE NoLateAnswer
    BY DEF NoLateAnswer
  <2>1. ASSUME Head(evq).ev \in {"Resolved", "Connected", "Handshake",
                                 "HeadersWritten", "HeadersRead", "ContentRead"}
        PROVE  Head(evq).of = attempt
    <3>1. Going
      BY <2>1, IsGoing
    <3>2. Head(evq).ev \in Rows[state] /\ (state \in Waiting => Head(evq).of = attempt)
      BY <3>1 DEF Going, Steps
    <3>3. state \in States
      BY DEF IInv, TypeOK
    <3>4. state \in Waiting
      BY <2>1, <3>2, <3>3, RowsOf DEF States, Waiting, Ended
    <3>. QED  BY <3>2, <3>4
  <2>2. ASSUME Head(evq).what = "IoTimeout", state \in Waiting
        PROVE  /\ Head(evq).of = attempt
               /\ \E i \in DOMAIN ops :
                     ~ops[i].cancelled /\ ops[i].handler # "done" /\ ops[i].left = 0
               /\ \A i \in DOMAIN ops :
                     ~ops[i].cancelled /\ ops[i].handler # "done" => ops[i].left = 0
    <3>1. Head(evq).ev = "Error"
      <4>. SUFFICES ASSUME Head(evq).ev # "Error"  PROVE FALSE
        OBVIOUS
      <4>1. Going
        BY <2>2, IsGoing DEF Waiting
      <4>. QED  BY <2>2, <4>1 DEF Going, Steps
    <3>2. state # "Error"
      BY <2>2 DEF Waiting
    <3>3. TimedOut
      BY <2>2, <3>1, <3>2, IsError DEF Doomed, PlainErrors
    <3>. QED  BY <3>3 DEF TimedOut, NoneLive, Live
  <2>. QED  BY <2>1, <2>2 DEF NoLateAnswer
<1>2. Spec => []IInv
  BY Invariant
<1>. QED  BY <1>1, <1>2, PTL

\* A request that may not be downgraded and asks an URL that is not plain: no
\* plain URL follows, however many redirects and restarts there are.
Secured == setup.policy = "DenyDowngrade" /\ scheme # "http"

LEMMA SecuredStep ==
  ASSUME IInv, Secured, [Next]_vars
  PROVE  Secured'
<1>1. CASE EnterRedirect
  <2>1. state = "ParseHeaders" /\ setup' = setup
    BY <1>1 DEF EnterRedirect, Handles
  <2>2. is_ssl
    BY <2>1 DEF IInv, SchemeOK, Secured
  <2>3. scheme' = scheme \/ scheme' # "http"
    BY <1>1, <2>2 DEF EnterRedirect, Secured
  <2>. QED  BY <2>1, <2>3 DEF Secured
<1>2. CASE Configure
  <2>1. \/ setup' = setup
        \/ \E s \in Setups : s = [setup EXCEPT !.post = s.post] /\ setup' = s
    BY <1>2 DEF Configure
  <2>2. setup'.policy = setup.policy
    BY <2>1, SetupsAssumption DEF IInv, TypeOK
  <2>. QED  BY <1>2, <2>2 DEF Configure, Secured
<1>3. CASE Machine /\ ~EnterRedirect
  <2>1. setup' = setup /\ scheme' = scheme
    BY <1>3 DEF Machine, EnterInitializing, EnterResolve, EnterConnect, EnterProxyConnect,
                EnterSSLHandshake, EnterSendHeader, EnterSendPostBuffer, EnterSendPostPipe,
                EnterReadHeaders, EnterParseHeaders, EnterReadContent, EnterComplete,
                EnterError, EnterFinalError, NoTransition, requestVars
  <2>. QED  BY <2>1 DEF Secured
<1>4. CASE StrandRuns \/ HandlerRuns \/ Handlers \/ Tick \/ UNCHANGED vars
  <2>1. setup' = setup /\ scheme' = scheme
    BY <1>4 DEF StrandRuns, HandlerRuns, Handlers, HandleResolve, HandleConnect,
                HandleProxyConnectWrite, HandleProxyHeaderRead, HandleHandshake,
                HandleHeaderWrite, HandlePostWrite, HandleHeaderRead, HandleContentRead,
                Answers, Tick, machineVars, requestVars, vars
  <2>. QED  BY <2>1 DEF Secured
<1>5. CASE Timers \/ Start \/ Cancel
  <2>1. setup' = setup /\ scheme' = scheme
    BY <1>5 DEF Timers, TimeoutRuns, HandleAsyncTimeout, DelaySkipped,
                PostViaInterfaceDelayCallback, HandleContentReadDelayCallback,
                HandleContentChunkSizeReadDelay, DelayCallback, Start, Cancel,
                machineVars, requestVars
  <2>. QED  BY <2>1 DEF Secured
<1>. QED  BY <1>1, <1>2, <1>3, <1>4, <1>5 DEF Next, User

\* When one thread runs the io_service, the redirect policy holds over every
\* number of redirects and restarts: no redirect is followed under Deny, and
\* under DenyDowngrade every connection after the first https URL is encrypted
\* (Redirect::on_entry reads is_ssl_, which DoInit has set from the URL).
THEOREM KeepsPolicy == Threads = 1 => (Spec => PolicyHeld)
<1>. SUFFICES ASSUME Threads = 1  PROVE Spec => PolicyHeld
  OBVIOUS
<1>. DEFINE Deny == setup.policy = "Deny" => hop = 0
            Asks == setup.policy = "DenyDowngrade" /\ state \in Waiting /\ scheme = "https"
            Safe == state \in Waiting => scheme = "https" /\ is_ssl
<1>1. IInv => Deny
  BY DEF IInv, SchemeOK, NoHop
<1>2. Asks => Secured
  BY DEF Secured
<1>3. IInv /\ Secured => Safe
  BY DEF IInv, SchemeOK, Secured
<1>4. IInv /\ Secured /\ [Next]_vars => Secured'
  BY SecuredStep
<1>5. Spec => []IInv
  BY Invariant
<1>6. Spec => []Deny
  BY <1>1, <1>5, PTL
<1>7. Spec => [](Asks => []Safe)
  BY <1>2, <1>3, <1>4, <1>5, PTL DEF Spec
<1>. QED  BY <1>6, <1>7, PTL DEF PolicyHeld

\* When one thread runs the io_service and no empty pipe throws, no event reaches
\* a state without a row for it and no operation is started without a
\* socket, so the assertion of no_transition never fails.
THEOREM NeverFaults ==
  Threads = 1 /\ (PipeSize # 0 \/ ~PipeThrows) => (Spec => []NoFault)
<1>. SUFFICES ASSUME Threads = 1, PipeSize # 0 \/ ~PipeThrows  PROVE Spec => []NoFault
  OBVIOUS
<1>1. IInv => NoFault
  BY DEF IInv, FaultsOK, NoFault
<1>2. Spec => []IInv
  BY Invariant
<1>. QED  BY <1>1, <1>2, PTL

-----------------------------------------------------------------------------
(* The promise to the RequestResponseInterface *)

\* A step that tells the callback nothing and does not start the request.
LEMMA TellsNothing ==
  ASSUME told' = told, (state' # "Unstarted") = (state # "Unstarted")
  PROVE  UNCHANGED Exchange!vars
BY DEF Exchange!vars

\* The rows of the transition table.
LEMMA MachineTells ==
  ASSUME IInv, Machine
  PROVE  [Exchange!Next]_Exchange!vars
<1>1. told \in [redirects: {0, 1}, headers: Nat, content: {0, 1}, errors: Nat, completes: Nat]
  BY DEF IInv, TypeOK
<1>2. CASE EnterInitializing
  <2>1. told' = told /\ state' # "Unstarted"
    BY <1>2 DEF EnterInitializing
  <2>2. CASE state = "Unstarted"
    <3>1. Exchange!Ask
      BY <2>1, <2>2 DEF Exchange!Ask
    <3>. QED  BY <3>1 DEF Exchange!Next
  <2>3. CASE state # "Unstarted"
    <3>1. (state' # "Unstarted") = (state # "Unstarted")
      BY <2>1, <2>3
    <3>. QED  BY <2>1, <3>1, TellsNothing
  <2>. QED  BY <2>2, <2>3
<1>3. CASE EnterParseHeaders
  <2>1. state = "ReadHeaders" /\ state' = "ParseHeaders"
    BY <1>3 DEF EnterParseHeaders, Handles
  <2>2. told.headers = 0 /\ told.errors = 0 /\ told.completes = 0
    BY <2>1 DEF IInv, ToldOK, Ended
  <2>3. \/ told' = told
        \/ told' = [told EXCEPT !.redirects = 1 - @]
        \/ told' = [told EXCEPT !.headers = @ + 1]
    BY <1>3 DEF EnterParseHeaders
  <2>4. CASE told' = told
    BY <2>1, <2>4, TellsNothing
  <2>5. CASE told' = [told EXCEPT !.redirects = 1 - @]
    <3>1. /\ told'.redirects = 1 - told.redirects /\ told'.headers = told.headers
          /\ told'.content = told.content /\ told'.errors = told.errors
          /\ told'.completes = told.completes
      BY <1>1, <2>5
    <3>2. Exchange!RedirectHeaderReceived
      BY <2>1, <2>2, <3>1 DEF Exchange!RedirectHeaderReceived, Exchange!Answered
    <3>. QED  BY <3>2 DEF Exchange!Next
  <2>6. CASE told' = [told EXCEPT !.headers = @ + 1]
    <3>1. /\ told'.redirects = told.redirects /\ told'.headers = 1
          /\ told'.content = told.content /\ told'.errors = told.errors
          /\ told'.completes = told.completes
      BY <1>1, <2>2, <2>6
    <3>2. Exchange!ResponseHeaderReceived
      BY <2>1, <2>2, <3>1 DEF Exchange!ResponseHeaderReceived, Exchange!Answered
    <3>. QED  BY <3>2 DEF Exchange!Next
  <2>. QED  BY <2>3, <2>4, <2>5, <2>6
<1>4. CASE EnterComplete
  <2>1. /\ state = "ReadContent" /\ state' = "Complete"
        /\ told' = [told EXCEPT !.completes = @ + 1]
    BY <1>4 DEF EnterComplete, Handles
  <2>2. told.headers = 1 /\ told.errors = 0 /\ told.completes = 0
    BY <2>1 DEF IInv, ToldOK, Ended
  <2>3. /\ told'.redirects = told.redirects /\ told'.headers = told.headers
        /\ told'.content = told.content /\ told'.errors = told.errors
        /\ told'.completes = 1
    BY <1>1, <2>1, <2>2
  <2>4. Exchange!RequestResponseCompleteEvent
    BY <2>1, <2>2, <2>3 DEF Exchange!RequestResponseCompleteEvent, Exchange!Answered
  <2>. QED  BY <2>4 DEF Exchange!Next, Exchange!Answer
<1>5. CASE EnterFinalError
  <2>1. /\ state = "Error" /\ state' = "FinalError"
        /\ told' = [told EXCEPT !.errors = @ + 1]
    BY <1>5 DEF EnterFinalError, Handles
  <2>2. told.errors = 0 /\ told.completes = 0
    BY <2>1 DEF IInv, ToldOK, Ended
  <2>3. /\ told'.redirects = told.redirects /\ told'.headers = told.headers
        /\ told'.content = told.content /\ told'.errors = 1
        /\ told'.completes = told.completes
    BY <1>1, <2>1, <2>2
  <2>4. Exchange!RequestResponseErrorEvent
    BY <2>1, <2>2, <2>3 DEF Exchange!RequestResponseErrorEvent, Exchange!Answered
  <2>. QED  BY <2>4 DEF Exchange!Next, Exchange!Answer
<1>6. CASE \/ EnterResolve \/ EnterConnect \/ EnterProxyConnect \/ EnterSSLHandshake
           \/ EnterSendHeader \/ EnterSendPostBuffer \/ EnterReadHeaders
  <2>1. told' = told /\ state' # "Unstarted" /\ state # "Unstarted"
    BY <1>6 DEF EnterResolve, EnterConnect, EnterProxyConnect, EnterSSLHandshake,
                EnterSendHeader, EnterSendPostBuffer, EnterReadHeaders, StartIn, Handles
  <2>. QED  BY <2>1, TellsNothing
<1>7. CASE EnterSendPostPipe \/ EnterRedirect \/ EnterReadContent
  <2>1. told' = told /\ state' # "Unstarted" /\ state # "Unstarted"
    BY <1>7 DEF EnterSendPostPipe, EnterRedirect, EnterReadContent, StartIn, Handles
  <2>. QED  BY <2>1, TellsNothing
<1>8. CASE EnterError
  <2>1. told' = told /\ state' # "Unstarted" /\ state # "Unstarted"
    BY <1>8 DEF EnterError, Handles, Waiting
  <2>. QED  BY <2>1, TellsNothing
<1>9. CASE NoTransition
  <2>1. told' = told /\ state' = state
    BY <1>9 DEF NoTransition
  <2>. QED  BY <2>1, TellsNothing
<1>. QED  BY <1>2, <1>3, <1>4, <1>5, <1>6, <1>7, <1>8, <1>9 DEF Machine

\* A read of the body passes content on.
LEMMA ContentTells ==
  ASSUME IInv, HandleContentRead
  PROVE  [Exchange!Next]_Exchange!vars
<1>1. told \in [redirects: {0, 1}, headers: Nat, content: {0, 1}, errors: Nat, completes: Nat]
  BY DEF IInv, TypeOK
<1>2. PICK i \in Running :
         /\ ops[i].kind = "read_content"
         /\ told' = told \/ told' = [told EXCEPT !.content = 1 - @]
  BY DEF HandleContentRead
<1>3. state' = state
  BY DEF HandleContentRead, machineVars
<1>4. state = "ReadContent"
  BY <1>2, RunningOp DEF StateOf
<1>5. told.headers = 1 /\ told.errors = 0 /\ told.completes = 0
  BY <1>4 DEF IInv, ToldOK, Ended
<1>6. CASE told' = told
  BY <1>3, <1>6 DEF Exchange!vars
<1>7. CASE told' = [told EXCEPT !.content = 1 - @]
  <2>1. /\ told'.redirects = told.redirects /\ told'.headers = told.headers
        /\ told'.content = 1 - told.content /\ told'.errors = told.errors
        /\ told'.completes = told.completes
    BY <1>1, <1>7
  <2>2. Exchange!ResponseContentReceived
    BY <1>3, <1>5, <2>1 DEF Exchange!ResponseContentReceived, Exchange!Answered
  <2>. QED  BY <2>2 DEF Exchange!Next
<1>. QED  BY <1>2, <1>6, <1>7

\* Nothing else tells the callback anything.
LEMMA OthersTellNothing ==
  ASSUME \/ StrandRuns \/ HandlerRuns \/ Timers \/ Tick \/ User
         \/ (Handlers /\ ~HandleContentRead) \/ UNCHANGED vars
  PROVE  UNCHANGED Exchange!vars
<1>1. CASE StrandRuns \/ HandlerRuns \/ Tick \/ UNCHANGED vars
  <2>1. told' = told /\ state' = state
    BY <1>1 DEF StrandRuns, HandlerRuns, Tick, machineVars, vars
  <2>. QED  BY <2>1, TellsNothing
<1>2. CASE Timers
  <2>1. told' = told /\ state' = state
    BY <1>2 DEF Timers, TimeoutRuns, HandleAsyncTimeout, DelaySkipped,
                PostViaInterfaceDelayCallback, HandleContentReadDelayCallback,
                HandleContentChunkSizeReadDelay, DelayCallback, machineVars
  <2>. QED  BY <2>1, TellsNothing
<1>3. CASE User
  <2>1. told' = told /\ state' = state
    BY <1>3 DEF User, Configure, Start, Cancel, machineVars
  <2>. QED  BY <2>1, TellsNothing
<1>4. CASE Handlers /\ ~HandleContentRead
  <2>1. told' = told /\ state' = state
    BY <1>4 DEF Handlers, HandleResolve, HandleConnect, HandleProxyConnectWrite,
                HandleProxyHeaderRead, HandleHandshake, HandleHeaderWrite, HandlePostWrite,
                HandleHeaderRead, Answers, machineVars
  <2>. QED  BY <2>1, TellsNothing
<1>. QED  BY <1>1, <1>2, <1>3, <1>4

\* When one thread runs the io_service, the callback is told what HttpExchange
\* allows, in its order: redirects before the one header, content only
\* between the header and the end, and never a second answer.  (That an
\* answer comes is liveness, which the run checks.)
THEOREM TellsInOrder == Threads = 1 => (Spec => Exchange!Order)
<1>. SUFFICES ASSUME Threads = 1  PROVE Spec => Exchange!Order
  OBVIOUS
<1>1. Init => Exchange!Init
  BY DEF Init, Exchange!Init
<1>2. IInv /\ [Next]_vars => [Exchange!Next]_Exchange!vars
  BY MachineTells, ContentTells, OthersTellNothing DEF Next, Handlers
<1>3. Spec => []IInv
  BY Invariant
<1>. QED  BY <1>1, <1>2, <1>3, PTL DEF Spec, Exchange!Order

=============================================================================
