---------------------------- MODULE ActionsProofs ---------------------------
(***************************************************************************)
(* What holds for every tree of folders, every list of changes, every      *)
(* max_concurrent_work_ and however many requests fail.                    *)
(***************************************************************************)
EXTENDS Actions, FiniteSetTheorems, FunctionTheorems, SequenceTheorems, TLAPS

-----------------------------------------------------------------------------
(* Sequences in which a work occurs once *)

Once(s) == \A i, j \in 1 .. Len(s) : s[i] = s[j] /\ s[i] # CancelAll => i = j

\* A sequence of works without repetition is as long as the set of its works.
LEMMA OnceCardinality ==
  ASSUME NEW S, CancelAll \notin S, NEW s \in Seq(S), Once(s)
  PROVE  IsFiniteSet(Range(s)) /\ Cardinality(Range(s)) = Len(s)
<1>1. /\ Len(s) \in Nat /\ DOMAIN s = 1 .. Len(s) /\ s \in [1 .. Len(s) -> S]
  BY LenProperties
<1>2. Range(s) = {s[i] : i \in 1 .. Len(s)}
  BY <1>1 DEF Range
<1>3. s \in [1 .. Len(s) -> Range(s)]
  BY <1>1, <1>2
<1>4. \A i, j \in 1 .. Len(s) : s[i] = s[j] => i = j
  BY <1>1 DEF Once
<1>5. s \in Bijection(1 .. Len(s), Range(s))
  BY <1>2, <1>3, <1>4, Fun_IsBij
<1>6. ExistsBijection(1 .. Len(s), Range(s))
  BY <1>5, Fun_ExistsBij
<1>. QED  BY <1>1, <1>6, FS_CountingElements, FS_NatBijection

\* The first works of a queue and the rest have no work in common.
LEMMA OnceSplit ==
  ASSUME NEW S, CancelAll \notin S, NEW s \in Seq(S), Once(s), NEW n \in 0 .. Len(s)
  PROVE  LET first == SubSeq(s, 1, n)
             rest == SubSeq(s, n + 1, Len(s))
         IN  /\ first \in Seq(S) /\ Len(first) = n /\ Once(first)
             /\ rest \in Seq(S) /\ Len(rest) = Len(s) - n /\ Once(rest)
             /\ Range(first) \cup Range(rest) = Range(s)
             /\ Range(first) \cap Range(rest) = {}
<1>. DEFINE first == SubSeq(s, 1, n)
            rest == SubSeq(s, n + 1, Len(s))
<1>0. Len(s) \in Nat /\ n \in Nat /\ n <= Len(s)
  BY LenProperties
<1>1. /\ Len(s) \in Nat /\ n \in Nat /\ n <= Len(s)
      /\ \A i \in 1 .. Len(s) : s[i] \in S
      /\ DOMAIN s = 1 .. Len(s)
  BY LenProperties, ElementOfSeq
<1>2. /\ first \in Seq(S) /\ Len(first) = n
      /\ \A i \in 1 .. n : first[i] = s[i]
  <2>1. \A i \in 1 .. n : s[i] \in S
    BY <1>1
  <2>. QED  BY <1>1, <2>1, SubSeqProperties
<1>3. /\ rest \in Seq(S) /\ Len(rest) = Len(s) - n
      /\ \A i \in 1 .. Len(s) - n : rest[i] = s[n + i]
  <2>1. \A i \in n + 1 .. Len(s) : s[i] \in S
    BY <1>1
  <2>2. /\ rest \in Seq(S)
        /\ Len(rest) = IF n + 1 <= Len(s) THEN Len(s) - (n + 1) + 1 ELSE 0
        /\ \A i \in 1 .. Len(s) - (n + 1) + 1 : rest[i] = s[(n + 1) + i - 1]
    BY <1>1, <2>1, SubSeqProperties
  <2>. HIDE DEF rest
  <2>4. Len(rest) = Len(s) - n
    <3>1. Len(rest) = IF n + 1 <= Len(s) THEN Len(s) - (n + 1) + 1 ELSE 0
      BY <2>2
    <3>. QED  BY <1>0, <3>1
  <2>5. ASSUME NEW i \in 1 .. Len(s) - n  PROVE rest[i] = s[n + i]
    <3>1. i \in 1 .. Len(s) - (n + 1) + 1 /\ (n + 1) + i - 1 = n + i
      BY <1>1
    <3>2. rest[i] = s[(n + 1) + i - 1]
      BY <2>2, <3>1
    <3>. QED  BY <3>1, <3>2
  <2>. QED  BY <2>2, <2>4, <2>5
<1>. HIDE DEF first, rest
<1>4. DOMAIN first = 1 .. n /\ DOMAIN rest = 1 .. Len(s) - n
  BY <1>2, <1>3, LenProperties
<1>5. Once(first) /\ Once(rest)
  BY <1>1, <1>2, <1>3 DEF Once
<1>6. Range(first) \cup Range(rest) = Range(s)
  <2>1. ASSUME NEW i \in 1 .. Len(s)  PROVE s[i] \in Range(first) \cup Range(rest)
    <3>1. CASE i <= n
      BY <1>1, <1>2, <1>4, <3>1 DEF Range
    <3>2. CASE i > n
      <4>1. i - n \in 1 .. Len(s) - n /\ s[i] = rest[i - n]
        BY <1>1, <1>3, <3>2
      <4>. QED  BY <1>4, <4>1 DEF Range
    <3>. QED  BY <1>1, <3>1, <3>2
  <2>2. ASSUME NEW i \in 1 .. n  PROVE first[i] \in Range(s)
    BY <1>1, <1>2 DEF Range
  <2>3. ASSUME NEW i \in 1 .. Len(s) - n  PROVE rest[i] \in Range(s)
    <3>1. n + i \in 1 .. Len(s) /\ rest[i] = s[n + i]
      BY <1>1, <1>3
    <3>. QED  BY <1>1, <3>1 DEF Range
  <2>. QED  BY <1>1, <1>4, <2>1, <2>2, <2>3 DEF Range
<1>7. Range(first) \cap Range(rest) = {}
  <2>1. ASSUME NEW i \in 1 .. n, NEW j \in 1 .. Len(s) - n  PROVE first[i] # rest[j]
    <3>1. /\ i \in 1 .. Len(s) /\ n + j \in 1 .. Len(s) /\ i # n + j
          /\ first[i] = s[i] /\ rest[j] = s[n + j]
      BY <1>1, <1>2, <1>3
    <3>2. s[i] # CancelAll
      BY <1>1, <3>1
    <3>. QED  BY <3>1, <3>2 DEF Once
  <2>. QED  BY <1>4, <2>1 DEF Range
<1>. QED  BY <1>2, <1>3, <1>5, <1>6, <1>7 DEF first, rest

\* Works are put behind others.
LEMMA OnceConcat ==
  ASSUME NEW S, NEW s \in Seq(S), NEW t \in Seq(S), Once(s), Once(t),
         Range(s) \cap Range(t) \subseteq {CancelAll}
  PROVE  /\ s \o t \in Seq(S) /\ Len(s \o t) = Len(s) + Len(t) /\ Once(s \o t)
         /\ Range(s \o t) = Range(s) \cup Range(t)
         /\ \A i \in 1 .. Len(s) : (s \o t)[i] = s[i]
         /\ \A i \in 1 .. Len(t) : (s \o t)[Len(s) + i] = t[i]
<1>. DEFINE u == s \o t
<1>1. /\ u \in Seq(S) /\ Len(u) = Len(s) + Len(t)
      /\ \A i \in 1 .. Len(s) + Len(t) : u[i] = IF i <= Len(s) THEN s[i] ELSE t[i - Len(s)]
      /\ Len(s) \in Nat /\ Len(t) \in Nat
      /\ DOMAIN s = 1 .. Len(s) /\ DOMAIN t = 1 .. Len(t)
  BY ConcatProperties, LenProperties
<1>2. Range(u) = Range(s) \cup Range(t)
  BY RangeConcatenation
<1>. HIDE DEF u
<1>3. \A i \in 1 .. Len(s) : u[i] = s[i]
  BY <1>1
<1>4. \A i \in 1 .. Len(t) : u[Len(s) + i] = t[i]
  BY <1>1
<1>5. Once(u)
  <2>. SUFFICES ASSUME NEW i \in 1 .. Len(u), NEW j \in 1 .. Len(u),
                       u[i] = u[j], u[i] # CancelAll, i <= j
                PROVE  i = j
    BY <1>1 DEF Once
  <2>1. CASE j <= Len(s)
    <3>1. i \in 1 .. Len(s) /\ j \in 1 .. Len(s)
      BY <1>1, <2>1
    <3>. QED  BY <1>3, <3>1 DEF Once
  <2>2. CASE i > Len(s)
    <3>1. /\ i - Len(s) \in 1 .. Len(t) /\ j - Len(s) \in 1 .. Len(t)
          /\ u[i] = t[i - Len(s)] /\ u[j] = t[j - Len(s)]
      BY <1>1, <2>2
    <3>2. i - Len(s) = j - Len(s)
      BY <3>1 DEF Once
    <3>. QED  BY <1>1, <3>2
  <2>3. CASE i <= Len(s) /\ j > Len(s)
    <3>1. /\ i \in 1 .. Len(s) /\ j - Len(s) \in 1 .. Len(t)
          /\ u[i] = s[i] /\ u[j] = t[j - Len(s)]
      BY <1>1, <2>3
    <3>2. u[i] \in Range(s) \cap Range(t)
      BY <1>1, <3>1 DEF Range
    <3>. QED  BY <3>2
  <2>. QED  BY <1>1, <2>1, <2>2, <2>3
<1>. QED  BY <1>1, <1>2, <1>3, <1>4, <1>5 DEF u

\* A handler is taken from the front of the queue.
LEMMA OnceTail ==
  ASSUME NEW S, NEW s \in Seq(S), Once(s), s # <<>>
  PROVE  /\ Head(s) \in S /\ Head(s) = s[1] /\ Head(s) \in Range(s)
         /\ Tail(s) \in Seq(S) /\ Once(Tail(s))
         /\ Range(Tail(s)) \subseteq Range(s)
         /\ Range(s) = Range(Tail(s)) \cup {Head(s)}
         /\ Head(s) # CancelAll => Head(s) \notin Range(Tail(s))
<1>1. /\ Len(s) \in Nat \ {0} /\ DOMAIN s = 1 .. Len(s)
      /\ Head(s) \in S /\ Head(s) = s[1]
      /\ Tail(s) \in Seq(S) /\ Len(Tail(s)) = Len(s) - 1
      /\ DOMAIN Tail(s) = 1 .. Len(s) - 1
      /\ \A i \in 1 .. Len(s) - 1 : Tail(s)[i] = s[i + 1]
  BY EmptySeq, LenProperties, HeadTailProperties
<1>2. Once(Tail(s))
  <2>. SUFFICES ASSUME NEW i \in 1 .. Len(s) - 1, NEW j \in 1 .. Len(s) - 1,
                       s[i + 1] = s[j + 1], s[i + 1] # CancelAll
                PROVE  i = j
    BY <1>1 DEF Once
  <2>1. i + 1 \in 1 .. Len(s) /\ j + 1 \in 1 .. Len(s)
    BY <1>1
  <2>2. i + 1 = j + 1
    BY <2>1 DEF Once
  <2>. QED  BY <1>1, <2>2
<1>3. Range(s) = Range(Tail(s)) \cup {s[1]}
  <2>1. ASSUME NEW i \in 1 .. Len(s)  PROVE s[i] \in Range(Tail(s)) \cup {s[1]}
    <3>1. CASE i # 1
      <4>1. i - 1 \in 1 .. Len(s) - 1 /\ Tail(s)[i - 1] = s[i]
        BY <1>1, <3>1
      <4>. QED  BY <1>1, <4>1 DEF Range
    <3>. QED  BY <3>1
  <2>2. ASSUME NEW i \in 1 .. Len(s) - 1  PROVE Tail(s)[i] \in Range(s)
    <3>1. i + 1 \in 1 .. Len(s) /\ Tail(s)[i] = s[i + 1]
      BY <1>1
    <3>. QED  BY <1>1, <3>1 DEF Range
  <2>. QED  BY <1>1, <2>1, <2>2 DEF Range
<1>4. s[1] # CancelAll => s[1] \notin Range(Tail(s))
  <2>1. ASSUME NEW i \in 1 .. Len(s) - 1, Tail(s)[i] = s[1], s[1] # CancelAll  PROVE FALSE
    <3>1. i + 1 \in 1 .. Len(s) /\ 1 \in 1 .. Len(s) /\ s[i + 1] = s[1] /\ i + 1 # 1
      BY <1>1, <2>1
    <3>. QED  BY <2>1, <3>1 DEF Once
  <2>. QED  BY <1>1, <2>1 DEF Range
<1>. QED  BY <1>1, <1>2, <1>3, <1>4

\* The sequence of a set of works.
LEMMA OnceSet ==
  ASSUME NEW S, IsFiniteSet(S)
  PROVE  /\ SetToSeq(S) \in Seq(S) /\ Once(SetToSeq(S)) /\ Range(SetToSeq(S)) = S
         /\ Len(SetToSeq(S)) = Cardinality(S)
<1>. DEFINE n == Cardinality(S)  f == SetToSeq(S)
<1>1. n \in Nat /\ Bijection(1 .. n, S) # {}
  BY FS_CardinalityType, Fun_ExistsBij
<1>2. PICK b \in Bijection(1 .. n, S) : TRUE
  BY <1>1
<1>3. b \in [1 .. n -> S] /\ DOMAIN b = 1 .. n /\ \A i, j \in 1 .. n : b[i] = b[j] => i = j
  BY <1>2, Fun_BijectionProperties
<1>4. IsInjective(b)
  BY <1>3 DEF IsInjective
<1>5. f \in [1 .. n -> S] /\ IsInjective(f)
  BY <1>3, <1>4 DEF SetToSeq
<1>. HIDE DEF f, n
<1>6. DOMAIN f = 1 .. n /\ \A i, j \in 1 .. n : f[i] = f[j] => i = j
  BY <1>5 DEF IsInjective
<1>7. f \in Injection(1 .. n, S)
  BY <1>5, <1>6, Fun_IsInj
<1>8. Cardinality(1 .. n) = Cardinality(S) /\ IsFiniteSet(1 .. n)
  BY <1>1, FS_Interval DEF n
<1>9. f \in Surjection(1 .. n, S)
  BY <1>7, <1>8, FS_Injection
<1>10. Range(f) = S
  BY <1>9, Fun_SurjectionProperties
<1>11. f \in Seq(S) /\ Len(f) = n
  BY <1>1, <1>5, SeqDef
<1>12. Once(f)
  BY <1>6, <1>11 DEF Once
<1>. QED  BY <1>10, <1>11, <1>12 DEF f, n

-----------------------------------------------------------------------------
(* The inductive invariant *)

States == {"new", "queued", "posted", "running", "suspended", "returned", "done",
           "dropped"}
RequestKinds == {"files", "folders", "info", "status", "changes"}
Found == Nat \cup ({"files", "folders"} \X Nat)
Failures == Nat \X RequestKinds \X Nat

WorkRecord ==
    [state : States, cancelled : BOOLEAN, waits : Nat, first : BOOLEAN,
     files : Nat, folders : Nat, start : 0 .. Modulus - 1, latest : 0 .. Modulus - 1,
     got : SUBSET Found, errors : SUBSET Failures]
MainRecord ==
    [pc : {"new", "body", "execute", "yielded", "ended"}, phase : 1 .. 4,
     iterations : 0 .. MAX_LOOP_ITERATIONS + 1, yields : Nat, more : BOOLEAN, cancelled : BOOLEAN,
     keys : Seq(Works)]
RequestRecord ==
    [of : Works, kind : RequestKinds, arg : Nat, state : {"waiting", "sent", "cancelled", "lost"}]
ResultRecord ==
    [revision : 0 .. Modulus - 1, got : SUBSET (Nat \cup (Nat \X Found)),
     info : Seq(SUBSET Found), errors : SUBSET Failures]

Types ==
    /\ asked \in Asked /\ limit \in Limits
    /\ main \in MainRecord
    /\ work \in [Works -> WorkRecord]
    /\ running \in Works \cup {None}
    /\ work_queue \in Seq(Works) /\ in_progress \subseteq Works
    /\ posted \in Seq(Works \cup {CancelAll})
    /\ requests \subseteq RequestRecord
    /\ results \in ResultRecord
    /\ faults \subseteq {"cancelled too early"}

InState(s) == {w \in Works : work[w].state = s}

\* The works whose callback is still to be called.
Pending == InState("posted") \cup InState("running") \cup InState("suspended")

\* A work is suspended while it has requests, at most one of each kind, and
\* waits for as many answers.
KindsOf(w, rs) == {r.kind : r \in {q \in rs : q.of = w}}
OneOfEach(rs) == \A q, r \in rs : q.of = r.of /\ q.kind = r.kind => q = r
KindsFor(w) == CASE WorkKind(w) = "contents" -> {"files", "folders"}
                 [] WorkKind(w) = "info" -> {"info"}
                 [] OTHER -> {"status", "changes"}
Fits(r) == /\ r.kind \in KindsFor(r.of)
           /\ r.kind \in {"files", "folders"} => r.arg # 0
RequestsOK ==
    /\ OneOfEach(requests)
    /\ \A r \in requests : Fits(r)
    /\ \A w \in Works :
          /\ work[w].waits = Cardinality(KindsOf(w, requests))
          /\ w \in InState("suspended") <=> KindsOf(w, requests) # {}

\* The lists of the WorkManager and of the io_service hold what the states of
\* the works say, each once.  A work that is under way is in in_progress_list_
\* unless a cancel has cleared it.
Lists ==
    /\ Range(work_queue) = InState("queued") /\ Once(work_queue)
    /\ Range(posted) \ {CancelAll} = InState("posted") /\ Once(posted)
    /\ InState("running") \cup InState("returned") = {running} \ {None}
    /\ CancelAll \in Range(posted) => main.cancelled
    /\ in_progress \subseteq Busy
    /\ \A w \in Busy \ in_progress : work[w].cancelled /\ main.cancelled
    /\ Cardinality(in_progress) <= limit

\* The phase of main in which a work of a poll is queued.
PhaseOf(w) == IF w = 0 THEN 1 ELSE IF asked.changed[w] = "folder" THEN 3 ELSE 2

\* What a work may have got: chunks, revisions that changed something, or its
\* own info.
Obtainable(w) == CASE asked.kind = "clone" -> {"files", "folders"} \X (Nat \ {0})
                   [] asked.kind # "clone" /\ w = 0 -> 1 .. Latest
                   [] OTHER -> {w}

\* Works that are still to be queued are new: the folders in main's keys and
\* those below a folder whose contents are not there yet, and the changes of a
\* later phase.
Keys ==
    /\ \A w \in Works : work[w].got \subseteq Obtainable(w)
    /\ IF asked.kind = "clone"
       THEN /\ Once(main.keys) /\ Range(main.keys) \subseteq InState("new")
            /\ \A w \in Works : \A n \in DOMAIN asked.subfolders[w] :
                  \A v \in asked.subfolders[w][n] :
                      v \notin InState("new") \ Range(main.keys)
                      => work[w].state \in {"returned", "done"}
       ELSE /\ main.keys = <<>>
            /\ results.got \subseteq 1 .. Latest
            /\ \A w \in Works : PhaseOf(w) >= main.phase => w \in InState("new")

\* main has not queued anything yet.
First ==
    /\ InState("new") = Works
    /\ main.phase = 1
    /\ main.keys = IF asked.kind = "clone" THEN <<0>> ELSE <<>>

\* main is resumed by a work that has returned, except at its start, and is
\* owed as many calls of callbacks as it still has to yield for.
Owed == CASE main.pc = "execute" -> main.yields
          [] main.pc = "yielded" -> main.yields + 1
          [] OTHER -> 0
Stack ==
    /\ MainRuns /\ running # None => running \in InState("returned")
    /\ main.pc \in {"new", "body", "ended"} => main.yields = 0
    /\ main.pc = "new" => First
    /\ main.pc = "body" /\ running = None => First
    /\ main.pc = "execute" /\ running = None => Len(work_queue) = 1 /\ Busy = {}
    /\ Cardinality(Pending) = Owed

\* A cancel comes before the works that have been posted, and no other work is
\* under way.
Fenced(handlers, works) ==
    /\ CancelAll \in Range(handlers)
    /\ \A w \in works : \E i, j \in 1 .. Len(handlers) :
          i < j /\ handlers[i] = CancelAll /\ handlers[j] = w

\* Work that waits will be posted: the works under way leave a place for the
\* next one, or a cancel is about to drop it.  Hence main never yields for the
\* last time with work in the queue (if more than one work may run).
Room ==
    /\ work_queue # <<>> /\ ~Fenced(posted, Pending) =>
          Busy \subseteq in_progress /\ Cardinality(in_progress \cap Pending) < limit
    /\ limit > 1 /\ work_queue # <<>> =>
          /\ main.pc = "execute" => Cardinality(in_progress) < limit
          /\ main.pc = "yielded" => main.more
          /\ main.pc # "body"
          /\ main.pc = "ended" => main.keys # <<>>

IInv == Types /\ RequestsOK /\ Lists /\ Keys /\ Stack /\ Room

-----------------------------------------------------------------------------
(* Lemmas about the parts of the invariant *)

\* Works are natural numbers, the first is 0, and there are finitely many.
LEMMA WorksFinite ==
  ASSUME asked \in Asked
  PROVE  /\ IsFiniteSet(Works) /\ Works \subseteq Nat /\ 0 \in Works
         /\ CancelAll \notin Works /\ None \notin Works
<1>1. CASE asked.kind = "clone"
  <2>1. Works = DOMAIN asked.subfolders
    BY <1>1 DEF Works
  <2>2. IsTree(asked.subfolders)
    BY <1>1, ActionsAssumption
  <2>. QED  BY <2>1, <2>2 DEF IsTree, CancelAll, None
<1>2. CASE asked.kind # "clone"
  <2>1. Works = 0 .. Len(asked.changed)
    BY <1>2 DEF Works
  <2>2. asked.changed \in Seq(Changes)
    BY <1>2, ActionsAssumption
  <2>3. Len(asked.changed) \in Nat
    BY <2>2, LenProperties
  <2>4. IsFiniteSet(0 .. Len(asked.changed))
    BY <2>3, FS_Interval
  <2>5. /\ 0 .. Len(asked.changed) \subseteq Nat
        /\ 0 \in 0 .. Len(asked.changed) /\ -1 \notin 0 .. Len(asked.changed)
    BY <2>3
  <2>. QED  BY <2>1, <2>4, <2>5 DEF CancelAll, None
<1>. QED  BY <1>1, <1>2

\* Sets of works have numbers of elements.
LEMMA SubsetCount ==
  ASSUME asked \in Asked, NEW S \in SUBSET Works, NEW T \in SUBSET S
  PROVE  /\ IsFiniteSet(S) /\ Cardinality(S) \in Nat /\ Cardinality(T) \in Nat
         /\ Cardinality(T) <= Cardinality(S)
         /\ Cardinality(S) = 0 <=> S = {}
<1>1. IsFiniteSet(S) /\ IsFiniteSet(T) /\ Cardinality(T) <= Cardinality(S)
  BY WorksFinite, FS_Subset
<1>. QED  BY <1>1, FS_CardinalityType, FS_EmptySet

\* The state of some works changes.
LEMMA StatesMove ==
  ASSUME NEW S \in SUBSET Works, NEW to \in States, UNCHANGED asked,
         \A w \in Works : work[w].state \in States,
         \A w \in Works : work'[w].state = IF w \in S THEN to ELSE work[w].state
  PROVE  \A s \in States :
            InState(s)' = IF s = to THEN InState(s) \cup S ELSE InState(s) \ S
<1>1. Works' = Works
  BY DEF Works
<1>2. ASSUME NEW s \in States
      PROVE  InState(s)' = IF s = to THEN InState(s) \cup S ELSE InState(s) \ S
  <2>1. InState(s)' = {w \in Works : work'[w].state = s}
    BY <1>1 DEF InState
  <2>2. CASE s = to
    BY <2>1, <2>2 DEF InState
  <2>3. CASE s # to
    BY <2>1, <2>3 DEF InState
  <2>. QED  BY <2>2, <2>3
<1>. QED  BY <1>2

\* Only the state of one work changes.
LEMMA StateOnly ==
  ASSUME NEW to \in States, NEW w \in Works, UNCHANGED asked,
         work \in [Works -> WorkRecord], work' = [work EXCEPT ![w].state = to]
  PROVE  /\ work' \in [Works -> WorkRecord] /\ Works' = Works
         /\ \A v \in Works : /\ work'[v].waits = work[v].waits
                             /\ work'[v].cancelled = work[v].cancelled
                             /\ work'[v].errors = work[v].errors
                             /\ work'[v].got = work[v].got
<1>1. \A r \in WorkRecord : [r EXCEPT !.state = to] \in WorkRecord
  BY DEF WorkRecord
<1>2. \A r \in WorkRecord : /\ [r EXCEPT !.state = to].state = to
                            /\ [r EXCEPT !.state = to].waits = r.waits
                            /\ [r EXCEPT !.state = to].cancelled = r.cancelled
                            /\ [r EXCEPT !.state = to].errors = r.errors
                            /\ [r EXCEPT !.state = to].got = r.got
  BY DEF WorkRecord
<1>3. \A v \in Works : work'[v] = IF v = w THEN [work[v] EXCEPT !.state = to] ELSE work[v]
  OBVIOUS
<1>4. work' \in [Works -> WorkRecord]
  BY <1>1
<1>. QED  BY <1>2, <1>3, <1>4 DEF Works

\* One work changes its state.
LEMMA StateMoves ==
  ASSUME NEW from \in States, NEW to \in States, from # to, NEW w \in InState(from),
         UNCHANGED asked, work \in [Works -> WorkRecord],
         work' = [work EXCEPT ![w].state = to]
  PROVE  /\ InState(from)' = InState(from) \ {w}
         /\ InState(to)' = InState(to) \cup {w}
         /\ \A s \in States \ {from, to} : InState(s)' = InState(s)
         /\ \A s : s # from => w \notin InState(s)
<1>1. {w} \in SUBSET Works
  BY DEF InState
<1>2. \A v \in Works : work[v].state \in States
  BY DEF WorkRecord
<1>3. \A v \in Works : work'[v].state = IF v \in {w} THEN to ELSE work[v].state
  <2>1. \A v \in Works : work'[v] = IF v = w THEN [work[v] EXCEPT !.state = to] ELSE work[v]
    BY <1>1
  <2>2. \A r \in WorkRecord : [r EXCEPT !.state = to].state = to
    BY DEF WorkRecord
  <2>. QED  BY <2>1, <2>2
<1>4. \A s \in States : InState(s)' = IF s = to THEN InState(s) \cup {w} ELSE InState(s) \ {w}
  BY <1>1, <1>2, <1>3, StatesMove
<1>5. \A s : s # from => w \notin InState(s)
  BY DEF InState
<1>6. ASSUME NEW s \in States \ {from, to}  PROVE InState(s)' = InState(s)
  BY <1>4, <1>5
<1>. QED  BY <1>4, <1>5, <1>6

\* The states that make a work busy, and that the sets of states are disjoint.
LEMMA BusyStates ==
  /\ Busy = Pending \cup InState("returned")
  /\ Busy' = Pending' \cup InState("returned")'
  /\ \A s, t : s # t => InState(s) \cap InState(t) = {}
  /\ \A s : InState(s) \subseteq Works
BY DEF Busy, Pending, InState

\* A cancel that is ahead of the works stays ahead of them and of those that
\* are posted later.
LEMMA FencedGrows ==
  ASSUME NEW S, NEW p \in Seq(S), NEW q \in Seq(S), NEW P, NEW Q,
         Fenced(p, P), Q \subseteq P \cup Range(q)
  PROVE  Fenced(p \o q, Q)
<1>0. Len(p) \in Nat /\ Len(q) \in Nat /\ Len(p \o q) = Len(p) + Len(q)
  BY LenProperties, ConcatProperties
<1>1. /\ DOMAIN p = 1 .. Len(p) /\ DOMAIN q = 1 .. Len(q)
      /\ Range(p \o q) = Range(p) \cup Range(q)
  BY LenProperties, RangeConcatenation
<1>2. \A i \in 1 .. Len(p) + Len(q) :
         (p \o q)[i] = IF i <= Len(p) THEN p[i] ELSE q[i - Len(p)]
  BY ConcatProperties
<1>3. CancelAll \in Range(p \o q)
  BY <1>1 DEF Fenced
<1>4. ASSUME NEW w \in Q
      PROVE  \E i, j \in 1 .. Len(p \o q) :
                i < j /\ (p \o q)[i] = CancelAll /\ (p \o q)[j] = w
  <2>1. CASE w \in P
    <3>1. PICK i \in 1 .. Len(p), j \in 1 .. Len(p) : i < j /\ p[i] = CancelAll /\ p[j] = w
      BY <2>1 DEF Fenced
    <3>2. i \in 1 .. Len(p) + Len(q) /\ j \in 1 .. Len(p) + Len(q) /\ i <= Len(p) /\ j <= Len(p)
      BY <1>0, <3>1
    <3>3. (p \o q)[i] = CancelAll /\ (p \o q)[j] = w
      BY <1>2, <3>1, <3>2
    <3>. QED  BY <1>0, <3>1, <3>2, <3>3
  <2>2. CASE w \in Range(q)
    <3>1. PICK k \in 1 .. Len(q) : q[k] = w
      BY <1>1, <2>2 DEF Range
    <3>2. PICK i \in 1 .. Len(p) : p[i] = CancelAll
      BY <1>1 DEF Fenced, Range
    <3>3. /\ i \in 1 .. Len(p) + Len(q) /\ i <= Len(p)
          /\ Len(p) + k \in 1 .. Len(p) + Len(q) /\ ~(Len(p) + k <= Len(p))
          /\ (Len(p) + k) - Len(p) = k /\ i < Len(p) + k
      BY <1>0
    <3>4. (p \o q)[i] = CancelAll
      BY <1>2, <3>2, <3>3
    <3>5. (p \o q)[Len(p) + k] = w
      BY <1>2, <3>1, <3>3
    <3>. QED  BY <1>0, <3>3, <3>4, <3>5
  <2>. QED  BY <2>1, <2>2
<1>. QED  BY <1>3, <1>4 DEF Fenced

\* A work that is not among the handlers is not behind the cancel.
LEMMA FencedPosted ==
  ASSUME NEW S, NEW p \in Seq(S), NEW P, Fenced(p, P)
  PROVE  P \subseteq Range(p)
<1>1. DOMAIN p = 1 .. Len(p)
  BY LenProperties
<1>. QED  BY <1>1 DEF Fenced, Range

\* The first handler is not behind a cancel.
LEMMA FencedHead ==
  ASSUME NEW S, NEW p \in Seq(S), p # <<>>, Once(p), p[1] # CancelAll, NEW P,
         p[1] \in P
  PROVE  ~Fenced(p, P)
<1>0. Len(p) \in Nat \ {0}
  BY EmptySeq, LenProperties
<1>. SUFFICES ASSUME NEW i \in 1 .. Len(p), NEW j \in 1 .. Len(p),
                     i < j, p[j] = p[1]
              PROVE  FALSE
  BY DEF Fenced
<1>1. 1 \in 1 .. Len(p) /\ j # 1
  BY <1>0
<1>. QED  BY <1>1 DEF Once

\* There are finitely many kinds of requests.
LEMMA KindsFinite ==
  /\ IsFiniteSet(RequestKinds)
  /\ \A K \in SUBSET RequestKinds : IsFiniteSet(K) /\ Cardinality(K) \in Nat
<1>1. IsFiniteSet({} \cup {"files"})
  BY FS_EmptySet, FS_AddElement
<1>2. IsFiniteSet(({} \cup {"files"}) \cup {"folders"})
  BY <1>1, FS_AddElement
<1>3. IsFiniteSet((({} \cup {"files"}) \cup {"folders"}) \cup {"info"})
  BY <1>2, FS_AddElement
<1>4. IsFiniteSet(((({} \cup {"files"}) \cup {"folders"}) \cup {"info"}) \cup {"status"})
  BY <1>3, FS_AddElement
<1>5. IsFiniteSet((((({} \cup {"files"}) \cup {"folders"}) \cup {"info"}) \cup {"status"})
                  \cup {"changes"})
  BY <1>4, FS_AddElement
<1>6. RequestKinds = (((({} \cup {"files"}) \cup {"folders"}) \cup {"info"}) \cup {"status"})
                     \cup {"changes"}
  BY DEF RequestKinds
<1>7. IsFiniteSet(RequestKinds)
  BY <1>5, <1>6
<1>. QED  BY <1>7, FS_Subset, FS_CardinalityType

\* RequestsOK counts requests as TypeOK does.
LEMMA CountRequests ==
  ASSUME Types, RequestsOK, NEW w \in Works
  PROVE  Cardinality(KindsOf(w, requests)) = Cardinality({r \in requests : r.of = w})
<1>. DEFINE R == {r \in requests : r.of = w}
            K == KindsOf(w, requests)
            f == [k \in K |-> CHOOSE r \in R : r.kind = k]
<1>1. K = {r.kind : r \in R}
  BY DEF KindsOf
<1>2. \A q, r \in R : q.kind = r.kind => q = r
  BY DEF RequestsOK, OneOfEach
<1>. HIDE DEF R, K
<1>3. \A k \in K : f[k] \in R /\ f[k].kind = k
  BY <1>1
<1>4. f \in [K -> R]
  BY <1>3
<1>5. \A a, b \in K : f[a] = f[b] => a = b
  BY <1>3
<1>6. \A r \in R : \E k \in K : f[k] = r
  <2>. TAKE r \in R
  <2>1. r.kind \in K
    BY <1>1
  <2>2. f[r.kind] \in R /\ f[r.kind].kind = r.kind
    BY <1>3, <2>1
  <2>3. f[r.kind] = r
    BY <1>2, <2>2
  <2>. QED  BY <2>1, <2>3
<1>. HIDE DEF f
<1>7. ExistsBijection(K, R)
  BY <1>4, <1>5, <1>6, Fun_IsBij, Fun_ExistsBij
<1>8. IsFiniteSet(K)
  <2>1. K \subseteq RequestKinds
    BY <1>1 DEF R, Types, RequestRecord
  <2>. QED  BY <2>1, KindsFinite
<1>. QED  BY <1>7, <1>8, FS_Bijection DEF K, R

\* Steps that leave the requests and the works that wait for them alone.
LEMMA RequestsKept ==
  ASSUME RequestsOK, UNCHANGED <<asked, requests>>,
         \A w \in Works : work'[w].waits = work[w].waits,
         InState("suspended")' = InState("suspended")
  PROVE  RequestsOK'
<1>1. Works' = Works
  BY DEF Works
<1>2. \A w : KindsFor(w)' = KindsFor(w)
  BY DEF KindsFor, WorkKind
<1>3. \A r : Fits(r)' = Fits(r)
  BY <1>2 DEF Fits
<1>. QED  BY <1>1, <1>3 DEF RequestsOK, KindsOf

\* Steps that queue no work.
LEMMA KeysKept ==
  ASSUME Keys, UNCHANGED asked, main'.keys = main.keys, main'.phase = main.phase,
         asked.kind # "clone" => results'.got = results.got,
         \A w \in Works : work'[w].got \subseteq work[w].got \cup Obtainable(w),
         InState("new")' = InState("new"),
         InState("returned") \cup InState("done")
            \subseteq InState("returned")' \cup InState("done")'
  PROVE  Keys'
<1>1. Works' = Works
  BY DEF Works
<1>2. \A w \in Works : work[w].state \in {"returned", "done"}
                       => work'[w].state \in {"returned", "done"}
  BY <1>1 DEF InState
<1>0. \A w \in Works' : work'[w].got \subseteq Obtainable(w)'
  <2>1. \A w : Obtainable(w)' = Obtainable(w)
    BY DEF Obtainable, Latest
  <2>. QED  BY <1>1, <2>1 DEF Keys
<1>3. CASE asked.kind = "clone"
  BY <1>0, <1>1, <1>2, <1>3 DEF Keys
<1>4. CASE asked.kind # "clone"
  <2>1. /\ main.keys = <<>> /\ results.got \subseteq 1 .. Latest
        /\ \A w \in Works : PhaseOf(w) >= main.phase => w \in InState("new")
    BY <1>4 DEF Keys
  <2>2. Latest' = Latest /\ \A w \in Works : PhaseOf(w)' = PhaseOf(w)
    BY DEF Latest, PhaseOf
  <2>3. /\ results'.got \subseteq 1 .. Latest' /\ main'.keys = <<>>
        /\ \A w \in Works' : PhaseOf(w)' >= main'.phase => w \in InState("new")'
    BY <1>1, <1>4, <2>1, <2>2
  <2>. QED  BY <1>0, <1>4, <2>3 DEF Keys
<1>. QED  BY <1>3, <1>4

\* Nothing waits when all works are new.
LEMMA AllNew ==
  ASSUME Types, Lists, InState("new") = Works
  PROVE  work_queue = <<>> /\ Busy = {} /\ running = None /\ in_progress = {}
<1>1. \A s \in States : s # "new" => InState(s) = {}
  BY DEF InState
<1>2. Busy = {}
  BY <1>1, BusyStates DEF Pending, States
<1>3. Range(work_queue) = {} /\ {running} \ {None} = {}
  BY <1>1 DEF Lists, States
<1>4. work_queue = <<>>
  <2>1. ASSUME work_queue # <<>>  PROVE FALSE
    <3>1. Len(work_queue) \in Nat \ {0} /\ DOMAIN work_queue = 1 .. Len(work_queue)
      BY <2>1, EmptySeq, LenProperties DEF Types
    <3>2. 1 \in DOMAIN work_queue
      BY <3>1
    <3>. QED  BY <1>3, <3>2 DEF Range
  <2>. QED  BY <2>1
<1>. QED  BY <1>2, <1>3, <1>4 DEF Lists

\* Start of the action.
LEMMA StartKeeps ==
  ASSUME IInv, Start
  PROVE  IInv'
<1>1. /\ running = None /\ ~MainRuns /\ main.pc = "new"
      /\ main' = [main EXCEPT !.pc = "body"]
      /\ UNCHANGED <<asked, limit, work, running, work_queue, in_progress, posted,
                     requests, results, failed, faults>>
  BY DEF Start, Idle, managerVars
<1>2. /\ main'.pc = "body" /\ main'.keys = main.keys /\ main'.phase = main.phase
      /\ main'.cancelled = main.cancelled /\ main' \in MainRecord
      /\ main'.yields = main.yields
  BY <1>1 DEF IInv, Types, MainRecord
<1>3. /\ Works' = Works /\ Busy' = Busy /\ Pending' = Pending
      /\ \A s : InState(s)' = InState(s)
  BY <1>1 DEF Works, Busy, Pending, InState
<1>4. First /\ work_queue = <<>>
  BY <1>1, AllNew DEF IInv, Stack, First
<1>5. Types'
  BY <1>1, <1>2, <1>3 DEF IInv, Types, MainRecord, RequestRecord
<1>6. RequestsOK' /\ Keys'
  BY <1>1, <1>2, <1>3, RequestsKept, KeysKept DEF IInv
<1>7. Lists'
  BY <1>1, <1>2, <1>3 DEF IInv, Lists
<1>8. Stack'
  <2>1. First'
    BY <1>1, <1>2, <1>3, <1>4 DEF First
  <2>2. Owed = 0 /\ Owed' = 0
    BY <1>1, <1>2 DEF Owed
  <2>. QED  BY <1>1, <1>2, <1>3, <2>1, <2>2 DEF IInv, Stack
<1>9. Room'
  BY <1>1, <1>4 DEF Room
<1>. QED  BY <1>5, <1>6, <1>7, <1>8, <1>9 DEF IInv

\* Cancel of the action.
LEMMA CancelKeeps ==
  ASSUME IInv, Cancel
  PROVE  IInv'
<1>1. /\ running = None /\ ~MainRuns
      /\ main' = [main EXCEPT !.cancelled = TRUE]
      /\ posted' = Append(posted, CancelAll)
      /\ UNCHANGED <<asked, limit, work, running, work_queue, in_progress, requests,
                     results, failed, faults>>
  BY DEF Cancel, Idle, managerVars
<1>2. /\ main'.pc = main.pc /\ main'.keys = main.keys /\ main'.phase = main.phase
      /\ main'.yields = main.yields /\ main'.more = main.more
      /\ main'.cancelled = TRUE /\ main' \in MainRecord
  BY <1>1 DEF IInv, Types, MainRecord
<1>3. /\ Works' = Works /\ Busy' = Busy /\ Pending' = Pending
      /\ \A s : InState(s)' = InState(s)
  BY <1>1 DEF Works, Busy, Pending, InState
<1>4. /\ posted' \in Seq(Works \cup {CancelAll}) /\ Once(posted')
      /\ Range(posted') = Range(posted) \cup {CancelAll}
      /\ \A P : Fenced(posted, P) => Fenced(posted', P)
  <2>. DEFINE S == Works \cup {CancelAll}
              q == <<CancelAll>>
  <2>0. posted \in Seq(S) /\ CancelAll \in S
    BY DEF IInv, Types
  <2>1. posted \in Seq(S) /\ q \in Seq(S) /\ posted' = posted \o q
    <3>. HIDE DEF S
    <3>. QED  BY <1>1, <2>0, AppendIsConcat
  <2>2. Once(q) /\ Range(q) = {CancelAll}
    BY DEF Once, Range
  <2>3. Once(posted)
    BY DEF IInv, Lists
  <2>. HIDE DEF S, q
  <2>4. /\ posted \o q \in Seq(S) /\ Once(posted \o q)
        /\ Range(posted \o q) = Range(posted) \cup Range(q)
    BY <2>1, <2>2, <2>3, OnceConcat
  <2>5. \A P : Fenced(posted, P) => Fenced(posted \o q, P)
    BY <2>1, FencedGrows
  <2>. QED  BY <2>1, <2>2, <2>4, <2>5 DEF S
<1>5. Types'
  BY <1>1, <1>2, <1>3, <1>4 DEF IInv, Types, MainRecord, RequestRecord
<1>6. RequestsOK' /\ Keys'
  BY <1>1, <1>2, <1>3, RequestsKept, KeysKept DEF IInv
<1>7. Lists'
  BY <1>1, <1>2, <1>3, <1>4 DEF IInv, Lists
<1>8. Stack'
  <2>1. First => First'
    BY <1>1, <1>2, <1>3 DEF First
  <2>2. Owed' = Owed /\ MainRuns' = MainRuns
    BY <1>1, <1>2 DEF Owed, MainRuns
  <2>. QED  BY <1>1, <1>2, <1>3, <2>1, <2>2 DEF IInv, Stack
<1>9. Room'
  BY <1>1, <1>2, <1>3, <1>4 DEF IInv, Room
<1>. QED  BY <1>5, <1>6, <1>7, <1>8, <1>9 DEF IInv

\* Coroutine::Start of a work.
LEMMA StartWorkKeeps ==
  ASSUME IInv, StartWork
  PROVE  IInv'
<1>. DEFINE w == Head(posted)
<1>1. /\ running = None /\ ~MainRuns /\ posted # <<>> /\ w # CancelAll
      /\ posted' = Tail(posted) /\ running' = w
      /\ work' = [work EXCEPT ![w].state = "running"]
      /\ UNCHANGED <<asked, limit, main, work_queue, in_progress, requests, results,
                     failed, faults>>
  BY DEF StartWork, Idle
<1>2. /\ posted[1] = w /\ w \in Works
      /\ w \in InState("posted")
      /\ posted' \in Seq(Works \cup {CancelAll}) /\ Once(posted')
      /\ Range(posted') \ {CancelAll} = InState("posted") \ {w}
      /\ Range(posted') \subseteq Range(posted)
  <2>. DEFINE S == Works \cup {CancelAll}
  <2>1. posted \in Seq(S) /\ Once(posted) /\ Range(posted) \ {CancelAll} = InState("posted")
    BY DEF IInv, Types, Lists
  <2>2. /\ w \in S /\ w = posted[1] /\ w \in Range(posted)
        /\ Tail(posted) \in Seq(S) /\ Once(Tail(posted))
        /\ Range(Tail(posted)) \subseteq Range(posted)
        /\ Range(posted) = Range(Tail(posted)) \cup {w}
        /\ w # CancelAll => w \notin Range(Tail(posted))
    <3>. HIDE DEF S
    <3>. QED  BY <1>1, <2>1, OnceTail
  <2>. QED  BY <1>1, <2>1, <2>2 DEF InState
<1>. HIDE DEF w
<1>3. work \in [Works -> WorkRecord] /\ "posted" \in States /\ "running" \in States
  BY DEF IInv, Types, States
<1>4. /\ work' \in [Works -> WorkRecord] /\ Works' = Works
      /\ \A v \in Works : /\ work'[v].waits = work[v].waits
                          /\ work'[v].cancelled = work[v].cancelled
                          /\ work'[v].got = work[v].got
  BY <1>1, <1>2, <1>3, StateOnly
<1>5. \A s : s # "posted" => w \notin InState(s)
  BY <1>2, BusyStates
<1>6. /\ InState("posted")' = InState("posted") \ {w}
      /\ InState("running")' = InState("running") \cup {w}
      /\ \A s \in States \ {"posted", "running"} : InState(s)' = InState(s)
  BY <1>1, <1>2, <1>3, StateMoves
<1>7. Pending' = Pending /\ Busy' = Busy /\ w \in Pending
  BY <1>2, <1>6, BusyStates DEF Pending, States
<1>8. Types'
  BY <1>1, <1>2, <1>4 DEF IInv, Types, MainRecord, RequestRecord
<1>9. RequestsOK' /\ Keys'
  BY <1>1, <1>4, <1>6, RequestsKept, KeysKept DEF IInv, States
<1>10. Lists'
  <2>1. InState("running") \cup InState("returned") = {}
    BY <1>1 DEF IInv, Lists
  <2>2. w # None
    BY <1>2, WorksFinite DEF IInv, Types
  <2>3. InState("running")' \cup InState("returned")' = {running'} \ {None}
    BY <1>1, <1>6, <2>1, <2>2 DEF States
  <2>4. \A v \in Busy' \ in_progress' : work'[v].cancelled /\ main'.cancelled
    BY <1>1, <1>4, <1>7, BusyStates DEF IInv, Lists, Pending
  <2>. QED  BY <1>1, <1>2, <1>6, <1>7, <2>3, <2>4 DEF IInv, Lists, States
<1>11. Stack'
  <2>1. main.pc # "new"
    <3>1. w \notin InState("new")
      BY <1>5 DEF States
    <3>. QED  BY <1>2, <3>1 DEF IInv, Stack, First, InState
  <2>2. Owed' = Owed /\ ~MainRuns' /\ main.pc # "body" /\ main.pc # "execute"
    BY <1>1 DEF Owed, MainRuns
  <2>. QED  BY <1>1, <1>7, <2>1, <2>2 DEF IInv, Stack
<1>12. Room'
  <2>1. posted \in Seq(Works \cup {CancelAll}) /\ Once(posted) /\ posted[1] # CancelAll
    BY <1>1, <1>2 DEF IInv, Types, Lists
  <2>2. ~Fenced(posted, Pending)
    BY <1>1, <1>2, <1>7, <2>1, FencedHead
  <2>. QED  BY <1>1, <1>7, <2>2 DEF IInv, Room
<1>. QED  BY <1>8, <1>9, <1>10, <1>11, <1>12 DEF IInv

\* The completion handler of a work.
LEMMA WorkCompletesKeeps ==
  ASSUME IInv, WorkCompletes
  PROVE  IInv'
<1>. DEFINE w == running
<1>1. /\ ~MainRuns /\ w # None /\ work[w].state = "returned"
      /\ in_progress' = in_progress \ {w} /\ running' = None
      /\ work' = [work EXCEPT ![w].state = "done"]
      /\ UNCHANGED <<asked, limit, main, work_queue, posted, requests, results,
                     failed, faults>>
  BY DEF WorkCompletes
<1>2. w \in Works /\ w \in InState("returned")
  BY <1>1 DEF IInv, Types, InState
<1>. HIDE DEF w
<1>3. work \in [Works -> WorkRecord] /\ "returned" \in States /\ "done" \in States
  BY DEF IInv, Types, States
<1>4. /\ work' \in [Works -> WorkRecord] /\ Works' = Works
      /\ \A v \in Works : /\ work'[v].waits = work[v].waits
                          /\ work'[v].cancelled = work[v].cancelled
                          /\ work'[v].got = work[v].got
  BY <1>1, <1>2, <1>3, StateOnly
<1>5. \A s : s # "returned" => w \notin InState(s)
  BY <1>2, BusyStates
<1>6. /\ InState("returned")' = InState("returned") \ {w}
      /\ InState("done")' = InState("done") \cup {w}
      /\ \A s \in States \ {"returned", "done"} : InState(s)' = InState(s)
  BY <1>1, <1>2, <1>3, StateMoves
<1>7. Pending' = Pending /\ Busy' = Busy \ {w} /\ w \notin Pending
  BY <1>5, <1>6, BusyStates DEF Pending, States
<1>8. Types'
  BY <1>1, <1>4 DEF IInv, Types, MainRecord, RequestRecord
<1>9. RequestsOK' /\ Keys'
  BY <1>1, <1>4, <1>6, RequestsKept, KeysKept DEF IInv, States
<1>10. Lists'
  <2>1. InState("running") \cup InState("returned") = {w}
    BY <1>1 DEF IInv, Lists, w
  <2>2. InState("running")' \cup InState("returned")' = {}
    BY <1>5, <1>6, <2>1 DEF States
  <2>3. Cardinality(in_progress') <= limit'
    <3>1. /\ Cardinality(in_progress') <= Cardinality(in_progress)
          /\ Cardinality(in_progress') \in Nat /\ Cardinality(in_progress) \in Nat
      BY <1>1, SubsetCount DEF IInv, Types
    <3>2. limit \in Nat /\ Cardinality(in_progress) <= limit
      BY ActionsAssumption DEF IInv, Types, Lists
    <3>. QED  BY <1>1, <3>1, <3>2
  <2>4. \A v \in Busy' \ in_progress' : work'[v].cancelled /\ main'.cancelled
    BY <1>1, <1>4, <1>7, BusyStates DEF IInv, Lists
  <2>5. in_progress' \subseteq Busy'
    BY <1>1, <1>7 DEF IInv, Lists
  <2>. QED  BY <1>1, <1>6, <2>2, <2>3, <2>4, <2>5 DEF IInv, Lists, States
<1>11. Stack'
  <2>1. main.pc # "new"
    <3>1. w \notin InState("new")
      BY <1>5 DEF States
    <3>. QED  BY <1>2, <3>1 DEF IInv, Stack, First, InState
  <2>2. Owed' = Owed /\ ~MainRuns' /\ main.pc # "body" /\ main.pc # "execute"
    BY <1>1 DEF Owed, MainRuns
  <2>. QED  BY <1>1, <1>7, <2>1, <2>2 DEF IInv, Stack
<1>12. Room'
  <2>1. Busy \subseteq in_progress => Busy' \subseteq in_progress'
    BY <1>1, <1>7
  <2>2. in_progress' \cap Pending' = in_progress \cap Pending
    BY <1>1, <1>7
  <2>3. main.pc # "execute"
    BY <1>1 DEF MainRuns
  <2>. QED  BY <1>1, <1>7, <2>1, <2>2, <2>3 DEF IInv, Room
<1>. QED  BY <1>8, <1>9, <1>10, <1>11, <1>12 DEF IInv

\* Requests change their state only.
LEMMA RequestsChanged ==
  ASSUME NEW rs \in SUBSET RequestRecord, OneOfEach(rs),
         NEW f \in [rs -> RequestRecord],
         \A r \in rs : f[r].of = r.of /\ f[r].kind = r.kind
  PROVE  LET qs == {f[r] : r \in rs}
         IN  /\ qs \in SUBSET RequestRecord /\ OneOfEach(qs)
             /\ \A w : KindsOf(w, qs) = KindsOf(w, rs)
<1>. DEFINE qs == {f[r] : r \in rs}
<1>1. qs \in SUBSET RequestRecord
  OBVIOUS
<1>2. OneOfEach(qs)
  BY DEF OneOfEach
<1>3. ASSUME NEW w  PROVE KindsOf(w, qs) = KindsOf(w, rs)
  <2>1. ASSUME NEW r \in rs, r.of = w  PROVE r.kind \in KindsOf(w, qs)
    <3>1. f[r] \in qs /\ f[r].of = w /\ f[r].kind = r.kind
      BY <2>1
    <3>. QED  BY <3>1 DEF KindsOf
  <2>2. ASSUME NEW q \in qs, q.of = w  PROVE q.kind \in KindsOf(w, rs)
    <3>1. PICK r \in rs : q = f[r]
      OBVIOUS
    <3>2. r.of = w /\ q.kind = r.kind
      BY <2>2, <3>1
    <3>. QED  BY <3>2 DEF KindsOf
  <2>. QED  BY <2>1, <2>2 DEF KindsOf
<1>. QED  BY <1>1, <1>2, <1>3

\* Cancel of works changes the state of their requests only.
LEMMA CancelRequestsChanges ==
  ASSUME NEW works, NEW rs \in SUBSET RequestRecord, OneOfEach(rs),
         faults \subseteq {"cancelled too early"},
         CancelRequests(works, rs)
  PROVE  /\ requests' \in SUBSET RequestRecord /\ OneOfEach(requests')
         /\ \A w : KindsOf(w, requests') = KindsOf(w, rs)
         /\ faults' \subseteq {"cancelled too early"}
         /\ (\A r \in rs : Fits(r)) => \A r \in requests' : Fits(r)
<1>. DEFINE g(r) == IF r.of \in works /\ r.state = "sent"
                    THEN [r EXCEPT !.state = "cancelled"] ELSE r
            f == [r \in rs |-> g(r)]
<1>1. \A r \in rs : g(r) \in RequestRecord /\ g(r).of = r.of /\ g(r).kind = r.kind
                   /\ g(r).arg = r.arg
  BY DEF RequestRecord
<1>2. requests' = {g(r) : r \in rs}
  BY DEF CancelRequests
<1>. HIDE DEF g
<1>3. requests' = {f[r] : r \in rs}
  BY <1>2
<1>4. /\ f \in [rs -> RequestRecord]
      /\ \A r \in rs : f[r].of = r.of /\ f[r].kind = r.kind /\ f[r].arg = r.arg
  BY <1>1
<1>5. \A r \in requests' : \E q \in rs : r.of = q.of /\ r.kind = q.kind /\ r.arg = q.arg
  <2>. HIDE DEF f
  <2>. TAKE r \in requests'
  <2>1. PICK q \in rs : r = f[q]
    BY <1>3
  <2>. QED  BY <1>4, <2>1
<1>. HIDE DEF f
<1>6. /\ requests' \in SUBSET RequestRecord /\ OneOfEach(requests')
      /\ \A w : KindsOf(w, requests') = KindsOf(w, rs)
  BY <1>3, <1>4, RequestsChanged
<1>7. faults' \subseteq {"cancelled too early"}
  BY DEF CancelRequests
<1>8. (\A r \in rs : Fits(r)) => \A r \in requests' : Fits(r)
  BY <1>5 DEF Fits
<1>. QED  BY <1>6, <1>7, <1>8

\* The handler of WorkManager::Cancel.
LEMMA ManagerCancelKeeps ==
  ASSUME IInv, ManagerCancel
  PROVE  IInv'
<1>1. /\ running = None /\ ~MainRuns /\ posted # <<>> /\ Head(posted) = CancelAll
      /\ posted' = Tail(posted) /\ work_queue' = <<>> /\ in_progress' = {}
      /\ CancelRequests(in_progress, requests)
      /\ UNCHANGED <<asked, limit, main, running, results, failed>>
  BY DEF ManagerCancel, Idle
<1>2. work' = [w \in Works |->
                  IF w \in Range(work_queue)
                  THEN [work[w] EXCEPT !.cancelled = TRUE, !.state = "dropped"]
                  ELSE [work[w] EXCEPT !.cancelled = @ \/ w \in in_progress]]
  BY DEF ManagerCancel
<1>3. /\ posted' \in Seq(Works \cup {CancelAll}) /\ Once(posted')
      /\ Range(posted') \ {CancelAll} = InState("posted")
      /\ main.cancelled
  <2>. DEFINE S == Works \cup {CancelAll}
  <2>1. /\ posted \in Seq(S) /\ Once(posted)
        /\ Range(posted) \ {CancelAll} = InState("posted")
        /\ CancelAll \in Range(posted) => main.cancelled
    BY DEF IInv, Types, Lists
  <2>. HIDE DEF S
  <2>2. /\ Tail(posted) \in Seq(S) /\ Once(Tail(posted))
        /\ Head(posted) \in Range(posted)
        /\ Range(posted) = Range(Tail(posted)) \cup {Head(posted)}
    BY <1>1, <2>1, OnceTail
  <2>. QED  BY <1>1, <2>1, <2>2 DEF S
<1>4. Range(work_queue) = InState("queued") /\ InState("queued") \subseteq Works
  BY DEF IInv, Lists, InState
<1>. DEFINE drop(r) == [r EXCEPT !.cancelled = TRUE, !.state = "dropped"]
            mark(r, b) == [r EXCEPT !.cancelled = @ \/ b]
<1>5. \A r \in WorkRecord :
         /\ drop(r) \in WorkRecord
         /\ drop(r).state = "dropped"
         /\ drop(r).waits = r.waits
         /\ drop(r).got = r.got
  BY DEF WorkRecord, States
<1>5a. \A r \in WorkRecord, b \in BOOLEAN :
         /\ mark(r, b) \in WorkRecord
         /\ mark(r, b).state = r.state
         /\ mark(r, b).waits = r.waits
         /\ mark(r, b).got = r.got
         /\ mark(r, b).cancelled = (r.cancelled \/ b)
  BY DEF WorkRecord, States
<1>6. work \in [Works -> WorkRecord] /\ \A w \in Works : work[w].state \in States
  BY DEF IInv, Types, WorkRecord
<1>7. Works' = Works
  BY <1>1 DEF Works
<1>8. ASSUME NEW w \in Works
      PROVE  /\ work'[w] \in WorkRecord
             /\ work'[w].state = IF w \in InState("queued") THEN "dropped" ELSE work[w].state
             /\ work'[w].waits = work[w].waits /\ work'[w].got = work[w].got
             /\ w \notin InState("queued") =>
                   work'[w].cancelled = (work[w].cancelled \/ w \in in_progress)
  <2>1. CASE w \in InState("queued")
    <3>1. work'[w] = drop(work[w])
      BY <1>2, <1>4, <2>1
    <3>. HIDE DEF drop, mark
    <3>2. work[w] \in WorkRecord
      BY <1>6
    <3>. QED  BY <1>5, <2>1, <3>1, <3>2
  <2>2. CASE w \notin InState("queued")
    <3>. DEFINE b == w \in in_progress
    <3>1. work'[w] = mark(work[w], b)
      BY <1>2, <1>4, <2>2
    <3>2. work[w] \in WorkRecord /\ b \in BOOLEAN
      BY <1>6
    <3>. HIDE DEF b, drop, mark
    <3>3. /\ work'[w] \in WorkRecord /\ work'[w].state = work[w].state
          /\ work'[w].waits = work[w].waits /\ work'[w].got = work[w].got
          /\ work'[w].cancelled = (work[w].cancelled \/ b)
      BY <1>5a, <3>1, <3>2
    <3>. QED  BY <2>2, <3>3 DEF b
  <2>. QED  BY <2>1, <2>2
<1>9. work' \in [Works -> WorkRecord]
  BY <1>2, <1>8
<1>10. \A s \in States : InState(s)' = IF s = "dropped" THEN InState(s) \cup InState("queued")
                                       ELSE InState(s) \ InState("queued")
  <2>1. InState("queued") \in SUBSET Works /\ "dropped" \in States
    BY <1>4 DEF States
  <2>2. \A w \in Works : work'[w].state = IF w \in InState("queued") THEN "dropped"
                                          ELSE work[w].state
    BY <1>8
  <2>3. UNCHANGED asked
    BY <1>1
  <2>. QED  BY <1>6, <2>1, <2>2, <2>3, StatesMove
<1>11. /\ InState("queued")' = {}
       /\ \A s \in States \ {"queued", "dropped"} : InState(s)' = InState(s)
  <2>1. InState("queued")' = {}
    BY <1>10 DEF States
  <2>2. ASSUME NEW s \in States \ {"queued", "dropped"}  PROVE InState(s)' = InState(s)
    BY <1>10, BusyStates
  <2>. QED  BY <2>1, <2>2
<1>12. Pending' = Pending /\ Busy' = Busy /\ Busy \cap InState("queued") = {}
  BY <1>11, BusyStates DEF Pending, States
<1>13. /\ requests' \in SUBSET RequestRecord /\ OneOfEach(requests')
       /\ \A w : KindsOf(w, requests') = KindsOf(w, requests)
       /\ faults' \subseteq {"cancelled too early"}
       /\ \A r \in requests' : Fits(r)
  <2>1. /\ requests \in SUBSET RequestRecord /\ OneOfEach(requests)
        /\ faults \subseteq {"cancelled too early"}
        /\ \A r \in requests : Fits(r)
    BY DEF IInv, Types, RequestsOK
  <2>. QED  BY <1>1, <2>1, CancelRequestsChanges
<1>14. Types'
  <2>1. RequestRecord' = RequestRecord /\ MainRecord' = MainRecord
    BY <1>7 DEF RequestRecord, MainRecord
  <2>2. <<>> \in Seq(Works)
    BY EmptySeq
  <2>. QED  BY <1>1, <1>3, <1>7, <1>9, <1>13, <2>1, <2>2 DEF IInv, Types
<1>15. RequestsOK'
  <2>1. \A r : Fits(r)' = Fits(r)
    BY <1>1 DEF Fits, KindsFor, WorkKind
  <2>. QED  BY <1>1, <1>7, <1>8, <1>11, <1>13, <2>1 DEF IInv, RequestsOK, States
<1>16. Keys'
  <2>1. \A w \in Works : work'[w].got \subseteq work[w].got \cup Obtainable(w)
    BY <1>8
  <2>. QED  BY <1>1, <1>11, <2>1, KeysKept DEF IInv, States
<1>17. Lists'
  <2>1. Range(<<>>) = {} /\ Once(<<>>) /\ Cardinality({}) = 0
    BY FS_EmptySet DEF Range, Once
  <2>2. limit \in Nat
    BY ActionsAssumption DEF IInv, Types
  <2>3. \A w \in Busy : work'[w].cancelled
    BY <1>8, <1>12, BusyStates DEF IInv, Lists, Pending
  <2>4. /\ Range(work_queue') = InState("queued")' /\ Once(work_queue')
        /\ Range(posted') \ {CancelAll} = InState("posted")'
    BY <1>1, <1>3, <1>11, <2>1 DEF States
  <2>5. InState("running")' \cup InState("returned")' = {running'} \ {None}
    BY <1>1, <1>11 DEF IInv, Lists, States
  <2>6. in_progress' \subseteq Busy' /\ Cardinality(in_progress') <= limit'
    BY <1>1, <2>1, <2>2
  <2>. QED  BY <1>1, <1>3, <1>12, <2>3, <2>4, <2>5, <2>6 DEF Lists
<1>18. Stack'
  <2>1. First => First'
    BY <1>1, <1>7, <1>11 DEF First, States
  <2>2. Owed' = Owed /\ ~MainRuns' /\ main.pc # "body" /\ main.pc # "execute"
    BY <1>1 DEF Owed, MainRuns
  <2>. QED  BY <1>1, <1>12, <2>1, <2>2 DEF IInv, Stack
<1>19. Room'
  BY <1>1 DEF Room
<1>. QED  BY <1>14, <1>15, <1>16, <1>17, <1>18, <1>19 DEF IInv

\* SessionMaintainer has a token for a request, or loses it.
LEMMA RequestMovesKeeps ==
  ASSUME IInv, NEW r \in requests, RequestSent(r) \/ RequestLost(r)
  PROVE  IInv'
<1>1. PICK state \in {"sent", "lost"} :
      /\ requests' = (requests \ {r}) \cup {[r EXCEPT !.state = state]}
      /\ UNCHANGED <<asked, limit, main, work, running, work_queue, in_progress, posted,
                     results, failed, faults>>
  BY DEF RequestSent, RequestLost, managerVars
<1>2. /\ Works' = Works /\ Busy' = Busy /\ Pending' = Pending
      /\ \A s : InState(s)' = InState(s)
  BY <1>1 DEF Works, Busy, Pending, InState
<1>. DEFINE g(q) == IF q = r THEN [r EXCEPT !.state = state] ELSE q
            f == [q \in requests |-> g(q)]
<1>3. /\ requests \in SUBSET RequestRecord /\ OneOfEach(requests)
      /\ \A q \in requests : Fits(q)
  BY DEF IInv, Types, RequestsOK
<1>4. \A q \in requests : g(q) \in RequestRecord /\ g(q).of = q.of /\ g(q).kind = q.kind
                         /\ g(q).arg = q.arg
  BY <1>3 DEF RequestRecord
<1>5. requests' = {g(q) : q \in requests}
  BY <1>1
<1>. HIDE DEF g
<1>6. /\ requests' = {f[q] : q \in requests}
      /\ f \in [requests -> RequestRecord]
      /\ \A q \in requests : f[q].of = q.of /\ f[q].kind = q.kind /\ f[q].arg = q.arg
  BY <1>4, <1>5
<1>7. \A p \in requests' : \E q \in requests : p.of = q.of /\ p.kind = q.kind /\ p.arg = q.arg
  BY <1>6
<1>. HIDE DEF f
<1>8. /\ requests' \in SUBSET RequestRecord /\ OneOfEach(requests')
      /\ \A w : KindsOf(w, requests') = KindsOf(w, requests)
  BY <1>3, <1>6, RequestsChanged
<1>9. Types'
  <2>1. RequestRecord' = RequestRecord /\ MainRecord' = MainRecord
    BY <1>2 DEF RequestRecord, MainRecord
  <2>. QED  BY <1>1, <1>2, <1>8, <2>1 DEF IInv, Types
<1>10. RequestsOK'
  <2>1. \A q : Fits(q)' = Fits(q)
    BY <1>1 DEF Fits, KindsFor, WorkKind
  <2>2. \A q \in requests' : Fits(q)
    BY <1>3, <1>7 DEF Fits
  <2>. QED  BY <1>1, <1>2, <1>8, <2>1, <2>2 DEF IInv, RequestsOK
<1>11. Keys' /\ Lists'
  BY <1>1, <1>2, KeysKept DEF IInv, Lists
<1>12. Stack' /\ Room'
  <2>1. First => First'
    BY <1>1, <1>2 DEF First
  <2>2. Owed' = Owed /\ MainRuns' = MainRuns
    BY <1>1 DEF Owed, MainRuns
  <2>. QED  BY <1>1, <1>2, <2>1, <2>2 DEF IInv, Stack, Room
<1>. QED  BY <1>9, <1>10, <1>11, <1>12 DEF IInv

\* The arguments of requests are numbers, and a kind belongs to one action.
LEMMA RoundKinds ==
  ASSUME Types, NEW w \in Works
  PROVE  /\ Round(w) \in SUBSET RequestKinds
         /\ Round(w) \subseteq KindsFor(w)
         /\ \A k \in Round(w) : Argument(w, k) \in Nat
         /\ \A k \in Round(w) : k \in {"files", "folders"} => Argument(w, k) # 0
<1>2. /\ Round(w) \in SUBSET RequestKinds
      /\ Round(w) \subseteq KindsFor(w)
  BY DEF Round, RequestKinds, KindsFor
<1>3. work[w] \in WorkRecord
  BY DEF Types
<1>4. \A n \in 0 .. Modulus - 1 : n \in Nat
  BY ActionsAssumption
<1>5. work[w].files \in Nat /\ work[w].folders \in Nat /\ work[w].start \in Nat
  BY <1>3, <1>4 DEF WorkRecord
<1>6. work[w]["files"] \in Nat /\ work[w]["folders"] \in Nat
  BY <1>5
<1>7. \A k : Argument(w, k) \in Nat
  BY <1>5, <1>6 DEF Argument
<1>8. \A k \in Round(w) : k \in {"files", "folders"} => Argument(w, k) # 0
  <2>1. \A k \in Round(w) : k \in {"files", "folders"} => work[w][k] > 0
    BY DEF Round
  <2>. QED  BY <2>1 DEF Argument
<1>. QED  BY <1>2, <1>7, <1>8

\* The body of a work makes its calls.
LEMMA MakeCallsKeeps ==
  ASSUME IInv, MakeCalls
  PROVE  IInv'
<1>. DEFINE w == running
            n == Cardinality(Round(w))
<1>1. /\ ~MainRuns /\ w # None /\ work[w].state = "running" /\ Round(w) # {}
      /\ work' = [work EXCEPT ![w] = [@ EXCEPT !.state = "suspended", !.first = FALSE,
                                               !.waits = n]]
      /\ running' = None
      /\ UNCHANGED <<asked, limit, main, work_queue, in_progress, posted, results, failed>>
  BY DEF MakeCalls, managerVars
<1>2. PICK sent \in [Round(w) -> {"waiting", "sent"}] :
         LET new == {[of |-> w, kind |-> k, arg |-> Argument(w, k), state |-> sent[k]] :
                        k \in Round(w)}
         IN  IF work[w].cancelled
             THEN CancelRequests({w}, requests \cup new)
             ELSE requests' = requests \cup new /\ UNCHANGED faults
  BY DEF MakeCalls
<1>. DEFINE call(k) == [of |-> w, kind |-> k, arg |-> Argument(w, k), state |-> sent[k]]
            new == {call(k) : k \in Round(w)}
            rs == requests \cup new
<1>3. w \in Works /\ w \in InState("running")
  BY <1>1 DEF IInv, Types, InState
<1>4. /\ requests \in SUBSET RequestRecord /\ OneOfEach(requests)
      /\ \A q \in requests : Fits(q)
      /\ KindsOf(w, requests) = {}
      /\ faults \subseteq {"cancelled too early"}
  BY <1>3, BusyStates DEF IInv, Types, RequestsOK
<1>5. /\ Round(w) \in SUBSET RequestKinds
      /\ Round(w) \subseteq KindsFor(w)
      /\ \A k \in Round(w) : Argument(w, k) \in Nat
      /\ \A k \in Round(w) : k \in {"files", "folders"} => Argument(w, k) # 0
  BY <1>3, RoundKinds DEF IInv
<1>6. /\ new \in SUBSET RequestRecord
      /\ \A q \in new : q.of = w /\ q.kind \in Round(w) /\ Fits(q)
      /\ \A q, r \in new : q.kind = r.kind => q = r
      /\ \A k \in Round(w) : \E q \in new : q.kind = k
  <2>1. \A k \in Round(w) : call(k) \in RequestRecord
    BY <1>3, <1>5 DEF RequestRecord
  <2>2. \A k \in Round(w) : call(k).of = w /\ call(k).kind = k /\ Fits(call(k))
    BY <1>5 DEF Fits
  <2>. HIDE DEF call
  <2>. QED  BY <2>1, <2>2
<1>7. /\ rs \in SUBSET RequestRecord /\ OneOfEach(rs)
      /\ \A q \in rs : Fits(q)
      /\ \A v : KindsOf(v, rs) = IF v = w THEN Round(w) ELSE KindsOf(v, requests)
  <2>. HIDE DEF new
  <2>1. \A q \in requests : q.of # w
    BY <1>4 DEF KindsOf
  <2>2. OneOfEach(rs)
    BY <1>4, <1>6, <2>1 DEF OneOfEach
  <2>3. KindsOf(w, rs) = Round(w)
    BY <1>6, <2>1 DEF KindsOf
  <2>4. ASSUME NEW v, v # w  PROVE KindsOf(v, rs) = KindsOf(v, requests)
    BY <1>6, <2>4 DEF KindsOf
  <2>. QED  BY <1>4, <1>5, <1>6, <2>2, <2>3, <2>4
<1>. HIDE DEF new, call
<1>8. /\ requests' \in SUBSET RequestRecord /\ OneOfEach(requests')
      /\ \A q \in requests' : Fits(q)
      /\ \A v : KindsOf(v, requests') = KindsOf(v, rs)
      /\ faults' \subseteq {"cancelled too early"}
  <2>1. CASE work[w].cancelled
    <3>1. CancelRequests({w}, rs)
      BY <1>2, <2>1 DEF new, call
    <3>. HIDE DEF rs
    <3>. QED  BY <1>4, <1>7, <3>1, CancelRequestsChanges
  <2>2. CASE ~work[w].cancelled
    <3>1. requests' = rs /\ UNCHANGED faults
      BY <1>2, <2>2 DEF new, call
    <3>. QED  BY <1>4, <1>7, <3>1
  <2>. QED  BY <2>1, <2>2
<1>. HIDE DEF rs
<1>9. n \in Nat /\ Cardinality(Round(w)) = n
  BY <1>5, KindsFinite
<1>. HIDE DEF n, w
<1>10. \A r \in WorkRecord : LET q == [r EXCEPT !.state = "suspended", !.first = FALSE, !.waits = n]
                             IN  /\ q \in WorkRecord /\ q.state = "suspended" /\ q.waits = n
                                 /\ q.cancelled = r.cancelled /\ q.got = r.got
  BY <1>9 DEF WorkRecord, States
<1>11. work \in [Works -> WorkRecord] /\ \A v \in Works : work[v].state \in States
  BY DEF IInv, Types, WorkRecord
<1>12. work' \in [Works -> WorkRecord] /\ Works' = Works
  BY <1>1, <1>3, <1>10, <1>11 DEF Works
<1>13. \A v \in Works : /\ work'[v].state = IF v \in {w} THEN "suspended" ELSE work[v].state
                        /\ work'[v].waits = IF v = w THEN n ELSE work[v].waits
                        /\ work'[v].cancelled = work[v].cancelled
                        /\ work'[v].got = work[v].got
  <2>. TAKE v \in Works
  <2>1. CASE v = w
    <3>. DEFINE q == [work[w] EXCEPT !.state = "suspended", !.first = FALSE, !.waits = n]
    <3>1. work'[v] = q
      BY <1>1, <1>3, <1>11, <2>1
    <3>2. q.state = "suspended" /\ q.waits = n /\ q.cancelled = work[w].cancelled
          /\ q.got = work[w].got
      BY <1>3, <1>10, <1>11
    <3>. HIDE DEF q
    <3>. QED  BY <2>1, <3>1, <3>2
  <2>2. CASE v # w
    <3>1. work'[v] = work[v]
      BY <1>1, <1>3, <1>11, <2>2
    <3>. QED  BY <2>2, <3>1
  <2>. QED  BY <2>1, <2>2
<1>14. /\ InState("running")' = InState("running") \ {w}
       /\ InState("suspended")' = InState("suspended") \cup {w}
       /\ \A s \in States \ {"running", "suspended"} : InState(s)' = InState(s)
       /\ \A s : s # "running" => w \notin InState(s)
  <2>0. \A s : s # "running" => w \notin InState(s)
    BY <1>3, BusyStates
  <2>1. {w} \in SUBSET Works /\ "suspended" \in States /\ UNCHANGED asked
    BY <1>1, <1>3 DEF States
  <2>2. \A s \in States : InState(s)' = IF s = "suspended" THEN InState(s) \cup {w}
                                        ELSE InState(s) \ {w}
    BY <1>11, <1>13, <2>1, StatesMove
  <2>3. ASSUME NEW s \in States \ {"running", "suspended"}  PROVE InState(s)' = InState(s)
    BY <2>0, <2>2
  <2>. QED  BY <2>0, <2>2, <2>3 DEF States
<1>15. Pending' = Pending /\ Busy' = Busy
  BY <1>3, <1>14, BusyStates DEF Pending, States
<1>16. Types'
  <2>1. RequestRecord' = RequestRecord /\ MainRecord' = MainRecord
    BY <1>12 DEF RequestRecord, MainRecord
  <2>. QED  BY <1>1, <1>8, <1>12, <2>1 DEF IInv, Types
<1>17. RequestsOK'
  <2>1. ASSUME NEW v \in Works
        PROVE  /\ work'[v].waits = Cardinality(KindsOf(v, requests'))
               /\ v \in InState("suspended")' <=> KindsOf(v, requests') # {}
    <3>1. CASE v = w
      BY <1>1, <1>3, <1>7, <1>8, <1>9, <1>13, <1>14, <3>1
    <3>2. CASE v # w
      <4>1. KindsOf(v, requests') = KindsOf(v, requests) /\ work'[v].waits = work[v].waits
        BY <1>7, <1>8, <1>13, <3>2
      <4>2. v \in InState("suspended")' <=> v \in InState("suspended")
        BY <1>14, <3>2
      <4>. QED  BY <4>1, <4>2 DEF IInv, RequestsOK
    <3>. QED  BY <3>1, <3>2
  <2>2. \A q : Fits(q)' = Fits(q)
    BY <1>1 DEF Fits, KindsFor, WorkKind
  <2>. QED  BY <1>1, <1>8, <1>12, <2>1, <2>2 DEF RequestsOK
<1>18. Keys'
  <2>1. \A v \in Works : work'[v].got \subseteq work[v].got \cup Obtainable(v)
    BY <1>13
  <2>. QED  BY <1>1, <1>14, <2>1, KeysKept DEF IInv, States
<1>19. Lists'
  <2>1. InState("running") \cup InState("returned") = {w}
    BY <1>1 DEF IInv, Lists, w
  <2>2. InState("running")' \cup InState("returned")' = {}
    BY <1>14, <2>1 DEF States
  <2>3. \A v \in Busy : v \in Works
    BY BusyStates DEF Pending
  <2>. QED  BY <1>1, <1>13, <1>14, <1>15, <2>2, <2>3 DEF IInv, Lists, States
<1>20. Stack'
  <2>1. main.pc # "new"
    <3>1. w \notin InState("new")
      BY <1>14
    <3>. QED  BY <1>3, <3>1 DEF IInv, Stack, First
  <2>2. Owed' = Owed /\ ~MainRuns' /\ main.pc # "body" /\ main.pc # "execute"
    BY <1>1 DEF Owed, MainRuns
  <2>. QED  BY <1>1, <1>15, <2>1, <2>2 DEF IInv, Stack
<1>21. Room'
  BY <1>1, <1>15 DEF IInv, Room
<1>. QED  BY <1>16, <1>17, <1>18, <1>19, <1>20, <1>21 DEF IInv

\* Revisions stay below 2^32.
LEMMA MaxRevisionRange ==
  ASSUME NEW n \in Nat
  PROVE  MaxRevision(n) \in 0 .. Modulus - 1
<1>1. Modulus \in Nat \ {0} /\ Page \in Nat \ {0}
  BY ActionsAssumption
<1>2. \A a \in Int, m \in Nat \ {0} : a % m \in 0 .. m - 1
  OBVIOUS
<1>3. \A a \in Nat, m \in Nat \ {0} : a \div m \in Nat
  OBVIOUS
<1>. DEFINE a == (n + 1) % Modulus
            b == a \div Page
            c == (b + 1) * Page
<1>4. a \in Nat
  <2>1. n + 1 \in Int
    OBVIOUS
  <2>2. a \in 0 .. Modulus - 1
    BY <1>1, <1>2, <2>1
  <2>. HIDE DEF a
  <2>. QED  BY <1>1, <2>2
<1>. HIDE DEF a
<1>5. b \in Nat
  BY <1>1, <1>3, <1>4
<1>. HIDE DEF b
<1>6. c \in Int
  BY <1>1, <1>5
<1>. HIDE DEF c
<1>7. c % Modulus \in 0 .. Modulus - 1
  BY <1>1, <1>2, <1>6
<1>. QED  BY <1>7 DEF MaxRevision, a, b, c

\* What an answer leaves in the members of a work.
LEMMA AnswerRecord ==
  ASSUME Types, RequestsOK, NEW r \in requests, NEW ok \in BOOLEAN
  PROVE  LET w == work[r.of]
             a == IF ok THEN Answered(w, r) ELSE Refused(w, r)
         IN  /\ a \in WorkRecord
             /\ a.state = w.state /\ a.waits = w.waits /\ a.cancelled = w.cancelled
             /\ a.got \subseteq w.got \cup Obtainable(r.of)
<1>. DEFINE w == work[r.of]
            M == 0 .. Modulus - 1
            chunks == {"files", "folders"}
<1>1. r \in RequestRecord /\ r.of \in Works /\ r.of \in Nat /\ r.arg \in Nat
      /\ r.kind \in RequestKinds
  BY WorksFinite DEF Types, RequestRecord
<1>2. w \in WorkRecord
  BY <1>1 DEF Types
<1>3. r.kind \in KindsFor(r.of) /\ (r.kind \in {"files", "folders"} => r.arg # 0)
  BY DEF RequestsOK, Fits
<1>4. r.kind \in {"files", "folders"} <=> asked.kind = "clone"
  <2>1. WorkKind(r.of) = "contents" <=> asked.kind = "clone"
    BY DEF WorkKind
  <2>. QED  BY <1>3, <2>1 DEF KindsFor
<1>5. r.kind = "info" <=> asked.kind # "clone" /\ r.of # 0
  <2>1. asked.kind \in Kinds
    BY ActionsAssumption DEF Types, Kinds
  <2>2. r.kind = "info" <=> WorkKind(r.of) = "info"
    BY <1>3 DEF KindsFor
  <2>3. WorkKind(r.of) = "info" <=> asked.kind # "clone" /\ r.of # 0
    BY <2>1 DEF WorkKind, Kinds
  <2>. QED  BY <2>2, <2>3
<1>6. MaxRevision(r.arg) \in M
  BY <1>1, MaxRevisionRange
<1>7. asked.kind # "clone" => Latest \in M /\ Latest \in Nat
  <2>. SUFFICES ASSUME asked.kind # "clone"  PROVE Latest \in M /\ Latest \in Nat
    OBVIOUS
  <2>1. asked.changed \in Seq(Changes) /\ Len(asked.changed) < Modulus
    BY ActionsAssumption DEF Types
  <2>2. Len(asked.changed) \in Nat
    BY <2>1, LenProperties
  <2>3. Modulus \in Nat
    BY ActionsAssumption
  <2>. QED  BY <2>1, <2>2, <2>3 DEF Latest
<1>8. PageAfter(r.arg) \subseteq 1 .. Latest
  BY DEF PageAfter
<1>. HIDE DEF w, M
<1>9. CASE ok /\ r.kind = "files"
  <2>. DEFINE n == IF r.arg >= asked.files[r.of] THEN 0 ELSE w.files + 1
  <2>. DEFINE got == w.got \cup {<<"files", r.arg>>}
  <2>1. n \in Nat /\ got \subseteq Found /\ got \subseteq w.got \cup Obtainable(r.of)
    BY <1>1, <1>2, <1>3, <1>4, <1>9 DEF WorkRecord, Found, Obtainable
  <2>2. Answered(w, r) = [w EXCEPT !.got = got, !.files = n]
    BY <1>9 DEF Answered
  <2>. HIDE DEF n, got
  <2>. QED  BY <1>2, <1>9, <2>1, <2>2 DEF WorkRecord, w
<1>10. CASE ok /\ r.kind = "folders"
  <2>. DEFINE n == IF r.arg >= Len(asked.subfolders[r.of]) THEN 0 ELSE w.folders + 1
  <2>. DEFINE got == w.got \cup {<<"folders", r.arg>>}
  <2>1. n \in Nat /\ got \subseteq Found /\ got \subseteq w.got \cup Obtainable(r.of)
    BY <1>1, <1>2, <1>3, <1>4, <1>10 DEF WorkRecord, Found, Obtainable
  <2>2. Answered(w, r) = [w EXCEPT !.got = got, !.folders = n]
    BY <1>10 DEF Answered
  <2>. HIDE DEF n, got
  <2>. QED  BY <1>2, <1>10, <2>1, <2>2 DEF WorkRecord, w
<1>11. CASE ok /\ r.kind = "status"
  <2>1. Answered(w, r) = [w EXCEPT !.latest = Latest]
    BY <1>11 DEF Answered
  <2>2. Latest \in M
    BY <1>4, <1>7, <1>11
  <2>. QED  BY <1>2, <1>11, <2>1, <2>2 DEF WorkRecord, w, M
<1>12. CASE ok /\ r.kind = "changes"
  <2>. DEFINE n == IF asked.kind = "foreign" THEN Latest ELSE w.latest
  <2>1. asked.kind # "clone" /\ Latest \in M /\ Latest \in Nat
    BY <1>4, <1>7, <1>12
  <2>2. n \in M
    BY <1>2, <2>1 DEF WorkRecord, M
  <2>. DEFINE got == w.got \cup PageAfter(r.arg)
              max == MaxRevision(r.arg)
  <2>3. Answered(w, r) = [w EXCEPT !.got = got, !.start = max, !.latest = n]
    BY <1>12 DEF Answered
  <2>4. got \subseteq Found /\ got \subseteq w.got \cup 1 .. Latest /\ max \in M
    BY <1>2, <1>6, <1>8, <2>1 DEF Found, WorkRecord
  <2>5. Obtainable(r.of) = 1 .. Latest
    BY <1>5, <1>12, <2>1 DEF Obtainable
  <2>. HIDE DEF n, got, max
  <2>. QED  BY <1>2, <1>12, <2>2, <2>3, <2>4, <2>5 DEF WorkRecord, w, M
<1>13. CASE ok /\ r.kind = "info"
  <2>1. Answered(w, r) = [w EXCEPT !.got = {r.of}]
    BY <1>13 DEF Answered
  <2>2. {r.of} \subseteq Found /\ Obtainable(r.of) = {r.of}
    BY <1>1, <1>5, <1>13 DEF Found, Obtainable
  <2>. QED  BY <1>2, <1>13, <2>1, <2>2 DEF WorkRecord, w
<1>14. CASE ~ok
  <2>. DEFINE e == [w EXCEPT !.errors = @ \cup {<<r.of, r.kind, r.arg>>}]
  <2>1. <<r.of, r.kind, r.arg>> \in Failures
    BY <1>1 DEF Failures
  <2>2. /\ e \in WorkRecord /\ e.state = w.state /\ e.waits = w.waits
        /\ e.cancelled = w.cancelled /\ e.got = w.got
    BY <1>2, <2>1 DEF WorkRecord
  <2>3. Refused(w, r) = CASE r.kind \in {"files", "folders"} -> [e EXCEPT ![r.kind] = Least(@ + 1, MaxChunk)]
                          [] r.kind = "changes" -> [e EXCEPT !.start = MaxRevision(r.arg)]
                          [] OTHER -> e
    BY DEF Refused
  <2>. HIDE DEF e
  <2>4. CASE r.kind = "files"
    <3>1. Refused(w, r) = [e EXCEPT !.files = Least(@ + 1, MaxChunk)]
      BY <2>3, <2>4
    <3>2. Least(e.files + 1, MaxChunk) \in Nat
      BY <2>2, ActionsAssumption DEF WorkRecord, Least
    <3>. QED  BY <1>14, <2>2, <3>1, <3>2 DEF WorkRecord, w
  <2>5. CASE r.kind = "folders"
    <3>1. Refused(w, r) = [e EXCEPT !.folders = Least(@ + 1, MaxChunk)]
      BY <2>3, <2>5
    <3>2. Least(e.folders + 1, MaxChunk) \in Nat
      BY <2>2, ActionsAssumption DEF WorkRecord, Least
    <3>. QED  BY <1>14, <2>2, <3>1, <3>2 DEF WorkRecord, w
  <2>6. CASE r.kind = "changes"
    <3>1. Refused(w, r) = [e EXCEPT !.start = MaxRevision(r.arg)]
      BY <2>3, <2>6
    <3>. QED  BY <1>6, <1>14, <2>2, <3>1 DEF WorkRecord, w, M
  <2>7. CASE r.kind \notin {"files", "folders", "changes"}
    <3>1. Refused(w, r) = e
      BY <2>3, <2>7
    <3>. QED  BY <1>14, <2>2, <3>1 DEF w
  <2>. QED  BY <2>4, <2>5, <2>6, <2>7
<1>. QED  BY <1>1, <1>9, <1>10, <1>11, <1>12, <1>13, <1>14 DEF RequestKinds

\* The callback of a request.
LEMMA HandleResponseKeeps ==
  ASSUME IInv, NEW r \in requests, NEW ok \in BOOLEAN, HandleResponse(r, ok)
  PROVE  IInv'
<1>. DEFINE v == r.of
            a == IF ok THEN Answered(work[r.of], r) ELSE Refused(work[r.of], r)
            last == a.waits = 1
            to == IF last THEN "running" ELSE a.state
<1>1. /\ ~MainRuns /\ running = None
      /\ requests' = requests \ {r}
      /\ work' = [work EXCEPT ![v] = [a EXCEPT !.waits = @ - 1, !.state = to]]
      /\ running' = IF last THEN v ELSE None
      /\ UNCHANGED <<asked, limit, main, work_queue, in_progress, posted, results, faults>>
  BY DEF HandleResponse, Idle, managerVars
<1>2. /\ a \in WorkRecord /\ a.state = work[v].state /\ a.waits = work[v].waits
      /\ a.cancelled = work[v].cancelled
      /\ a.got \subseteq work[v].got \cup Obtainable(v)
  BY AnswerRecord DEF IInv
<1>. HIDE DEF a
<1>3. v \in Works /\ requests \subseteq RequestRecord
  BY DEF IInv, Types, RequestRecord
<1>4. /\ KindsOf(v, requests') = KindsOf(v, requests) \ {r.kind}
      /\ r.kind \in KindsOf(v, requests)
      /\ KindsOf(v, requests) \subseteq RequestKinds
      /\ \A w : w # v => KindsOf(w, requests') = KindsOf(w, requests)
  <2>1. OneOfEach(requests)
    BY DEF IInv, RequestsOK
  <2>2. KindsOf(v, requests') = KindsOf(v, requests) \ {r.kind}
    BY <1>1, <2>1 DEF KindsOf, OneOfEach
  <2>3. r.kind \in KindsOf(v, requests) /\ KindsOf(v, requests) \subseteq RequestKinds
    BY <1>3 DEF KindsOf, RequestRecord
  <2>4. ASSUME NEW w, w # v  PROVE KindsOf(w, requests') = KindsOf(w, requests)
    BY <1>1, <2>4 DEF KindsOf
  <2>. QED  BY <2>2, <2>3, <2>4
<1>5. /\ Cardinality(KindsOf(v, requests')) = a.waits - 1
      /\ a.waits - 1 \in Nat /\ a.waits \in Nat
      /\ last <=> KindsOf(v, requests') = {}
  <2>. DEFINE K == KindsOf(v, requests)
              L == KindsOf(v, requests')
  <2>1. a.waits = Cardinality(K)
    BY <1>2, <1>3 DEF IInv, RequestsOK
  <2>2. L = K \ {r.kind} /\ r.kind \in K /\ K \subseteq RequestKinds /\ L \subseteq RequestKinds
    BY <1>4
  <2>. HIDE DEF K, L
  <2>3. IsFiniteSet(K) /\ IsFiniteSet(L) /\ Cardinality(L) \in Nat /\ Cardinality(K) \in Nat
    BY <2>2, KindsFinite
  <2>4. Cardinality(L) = Cardinality(K) - 1
    BY <2>2, <2>3, FS_RemoveElement
  <2>5. Cardinality(L) = 0 <=> L = {}
    BY <2>3, FS_EmptySet
  <2>6. a.waits = 1 <=> Cardinality(L) = 0
    BY <2>1, <2>3, <2>4
  <2>7. Cardinality(L) = a.waits - 1
    BY <2>1, <2>4
  <2>. QED  BY <2>1, <2>3, <2>5, <2>6, <2>7 DEF L
<1>6. v \in InState("suspended") /\ a.state = "suspended"
  <2>1. v \in InState("suspended")
    BY <1>3, <1>4 DEF IInv, RequestsOK
  <2>. QED  BY <1>2, <2>1 DEF InState
<1>. DEFINE b == [a EXCEPT !.waits = @ - 1, !.state = to]
<1>7. to = IF last THEN "running" ELSE "suspended"
  BY <1>6
<1>8. /\ b \in WorkRecord /\ b.state = to /\ b.waits = a.waits - 1
      /\ b.cancelled = a.cancelled /\ b.got = a.got
  <2>1. to \in States
    BY <1>7 DEF States
  <2>. HIDE DEF to, last
  <2>. QED  BY <1>2, <1>5, <2>1 DEF WorkRecord
<1>. HIDE DEF b, to
<1>9. work \in [Works -> WorkRecord] /\ \A w \in Works : work[w].state \in States
  BY DEF IInv, Types, WorkRecord
<1>10. \A w \in Works : work'[w] = IF w = v THEN b ELSE work[w]
  BY <1>1, <1>3, <1>9 DEF b
<1>11. work' \in [Works -> WorkRecord] /\ Works' = Works
  <2>1. work' = [work EXCEPT ![v] = b]
    BY <1>1 DEF b
  <2>. QED  BY <1>1, <1>3, <1>8, <1>9, <2>1 DEF Works
<1>12. \A w \in Works : work'[w].cancelled = work[w].cancelled
  BY <1>2, <1>8, <1>10
<1>13. \A w \in Works : work'[w].state = IF w \in {v} THEN to ELSE work[w].state
  BY <1>8, <1>10
<1>14. \A s \in States : InState(s)' = IF s = to THEN InState(s) \cup {v}
                                       ELSE InState(s) \ {v}
  <2>1. {v} \in SUBSET Works /\ to \in States /\ UNCHANGED asked
    BY <1>1, <1>3, <1>7 DEF States
  <2>. QED  BY <1>9, <1>13, <2>1, StatesMove
<1>15. /\ \A s : s # "suspended" => v \notin InState(s)
       /\ \A s \in States \ {"running", "suspended"} : InState(s)' = InState(s)
       /\ InState("suspended")' = IF last THEN InState("suspended") \ {v} ELSE InState("suspended")
       /\ InState("running")' = IF last THEN InState("running") \cup {v} ELSE InState("running")
  <2>1. \A s : s # "suspended" => v \notin InState(s)
    BY <1>6, BusyStates
  <2>2. ASSUME NEW s \in States \ {"running", "suspended"}  PROVE InState(s)' = InState(s)
    BY <1>7, <1>14, <2>1
  <2>3. InState("suspended")' = IF last THEN InState("suspended") \ {v} ELSE InState("suspended")
    BY <1>6, <1>7, <1>14 DEF States
  <2>4. InState("running")' = IF last THEN InState("running") \cup {v} ELSE InState("running")
    BY <1>7, <1>14, <2>1 DEF States
  <2>. QED  BY <2>1, <2>2, <2>3, <2>4
<1>. HIDE DEF last, v
<1>16. Pending' = Pending /\ Busy' = Busy
  BY <1>6, <1>15, BusyStates DEF Pending, States
<1>17. Types'
  <2>1. RequestRecord' = RequestRecord /\ MainRecord' = MainRecord
    BY <1>11 DEF RequestRecord, MainRecord
  <2>2. running' \in Works \cup {None}
    BY <1>1, <1>3
  <2>. QED  BY <1>1, <1>3, <1>11, <2>1, <2>2 DEF IInv, Types
<1>18. RequestsOK'
  <2>1. ASSUME NEW w \in Works
        PROVE  /\ work'[w].waits = Cardinality(KindsOf(w, requests'))
               /\ w \in InState("suspended")' <=> KindsOf(w, requests') # {}
    <3>1. CASE w = v
      BY <1>3, <1>5, <1>6, <1>8, <1>10, <1>15, <3>1
    <3>2. CASE w # v
      <4>1. KindsOf(w, requests') = KindsOf(w, requests) /\ work'[w] = work[w]
        BY <1>4, <1>10, <3>2
      <4>2. w \in InState("suspended")' <=> w \in InState("suspended")
        BY <1>15, <3>2
      <4>. QED  BY <4>1, <4>2 DEF IInv, RequestsOK
    <3>. QED  BY <3>1, <3>2
  <2>2. OneOfEach(requests') /\ \A q \in requests' : Fits(q)
    BY <1>1 DEF IInv, RequestsOK, OneOfEach
  <2>3. \A q : Fits(q)' = Fits(q)
    BY <1>1 DEF Fits, KindsFor, WorkKind
  <2>. QED  BY <1>1, <1>11, <2>1, <2>2, <2>3 DEF RequestsOK
<1>19. Keys'
  <2>1. \A w \in Works : work'[w].got \subseteq work[w].got \cup Obtainable(w)
    BY <1>2, <1>8, <1>10
  <2>. QED  BY <1>1, <1>15, <2>1, KeysKept DEF IInv, States
<1>20. Lists'
  <2>1. InState("running") \cup InState("returned") = {}
    BY <1>1 DEF IInv, Lists
  <2>2. v # None
    BY <1>3, WorksFinite DEF IInv, Types
  <2>3. InState("running")' \cup InState("returned")' = {running'} \ {None}
    BY <1>1, <1>15, <2>1, <2>2 DEF States
  <2>4. \A w \in Busy' \ in_progress' : work'[w].cancelled /\ main'.cancelled
    BY <1>1, <1>12, <1>16, BusyStates DEF IInv, Lists, Pending
  <2>5. InState("queued")' = InState("queued") /\ InState("posted")' = InState("posted")
    BY <1>15 DEF States
  <2>. QED  BY <1>1, <1>16, <2>3, <2>4, <2>5 DEF IInv, Lists
<1>21. Stack'
  <2>1. main.pc # "new"
    <3>1. v \notin InState("new")
      BY <1>15
    <3>. QED  BY <1>3, <3>1 DEF IInv, Stack, First
  <2>2. Owed' = Owed /\ ~MainRuns' /\ main.pc # "body" /\ main.pc # "execute"
    BY <1>1 DEF Owed, MainRuns
  <2>. QED  BY <1>1, <1>16, <2>1, <2>2 DEF IInv, Stack
<1>22. Room'
  BY <1>1, <1>16 DEF IInv, Room
<1>. QED  BY <1>17, <1>18, <1>19, <1>20, <1>21, <1>22 DEF IInv

\* The subfolders a work has got are folders that have not been met before.
LEMMA SubfoldersNew ==
  ASSUME Types, Keys, asked.kind = "clone", NEW v \in InState("running")
  PROVE  LET subfolders == UNION {Subfolders(v, x[2]) :
                                    x \in {x \in work[v].got : x[1] = "folders"}}
         IN  /\ subfolders \subseteq InState("new") \ Range(main.keys)
             /\ IsFiniteSet(subfolders)
             /\ \A u \in subfolders : \A w \in Works : \A n \in DOMAIN asked.subfolders[w] :
                   u \in asked.subfolders[w][n] => w = v
<1>. DEFINE subfolders == UNION {Subfolders(v, x[2]) :
                                   x \in {x \in work[v].got : x[1] = "folders"}}
<1>1. IsTree(asked.subfolders) /\ Works = DOMAIN asked.subfolders
  BY ActionsAssumption DEF Types, Works
<1>2. v \in Works /\ work[v].state = "running"
  BY DEF InState
<1>3. asked.subfolders[v] \in Seq(SUBSET (Works \ {0}))
  BY <1>1, <1>2 DEF IsTree
<1>4. ASSUME NEW u \in subfolders
      PROVE  \E n \in DOMAIN asked.subfolders[v] : u \in asked.subfolders[v][n]
  <2>1. PICK x \in work[v].got : u \in Subfolders(v, x[2])
    OBVIOUS
  <2>2. work[v].got \subseteq {"files", "folders"} \X (Nat \ {0})
    BY <1>2 DEF Keys, Obtainable
  <2>3. x[2] \in Nat \ {0}
    BY <2>1, <2>2
  <2>. DEFINE n == x[2]
  <2>4. n \in Nat \ {0} /\ u \in Subfolders(v, n)
    BY <2>1, <2>3
  <2>. HIDE DEF n
  <2>5. n <= Len(asked.subfolders[v]) /\ u \in asked.subfolders[v][n]
    BY <2>4 DEF Subfolders
  <2>6. DOMAIN asked.subfolders[v] = 1 .. Len(asked.subfolders[v])
    BY <1>3, LenProperties
  <2>7. n \in 1 .. Len(asked.subfolders[v])
    BY <1>3, <2>4, <2>5, LenProperties
  <2>. QED  BY <2>5, <2>6, <2>7
<1>. HIDE DEF subfolders
<1>5. ASSUME NEW u \in subfolders  PROVE u \in InState("new") \ Range(main.keys)
  <2>1. PICK n \in DOMAIN asked.subfolders[v] : u \in asked.subfolders[v][n]
    BY <1>4
  <2>2. work[v].state \notin {"returned", "done"}
    BY <1>2
  <2>. QED  BY <1>2, <2>1, <2>2 DEF Keys
<1>6. IsFiniteSet(subfolders)
  <2>1. subfolders \subseteq Works
    BY <1>5, BusyStates
  <2>. QED  BY <2>1, WorksFinite, FS_Subset DEF Types
<1>7. ASSUME NEW u \in subfolders, NEW w \in Works, NEW n \in DOMAIN asked.subfolders[w],
             u \in asked.subfolders[w][n]
      PROVE  w = v
  <2>1. PICK m \in DOMAIN asked.subfolders[v] : u \in asked.subfolders[v][m]
    BY <1>4
  <2>2. asked.subfolders[w][n] \cap asked.subfolders[v][m] # {}
    BY <1>7, <2>1
  <2>. QED  BY <1>1, <1>2, <2>2 DEF IsTree
<1>. QED  BY <1>5, <1>6, <1>7 DEF subfolders

\* The callback of a work finds main in its yield.
LEMMA MainYielded ==
  ASSUME IInv, ~MainRuns, NEW v \in Pending
  PROVE  /\ main.pc = "yielded" /\ Cardinality(Pending) = main.yields + 1
         /\ Cardinality(Pending \ {v}) = main.yields
<1>1. Pending \in SUBSET Works /\ asked \in Asked
  BY DEF IInv, Types, Pending, InState
<1>2. IsFiniteSet(Pending) /\ Cardinality(Pending) \in Nat
      /\ (Cardinality(Pending) = 0 <=> Pending = {})
  BY <1>1, SubsetCount
<1>3. Cardinality(Pending) # 0
  BY <1>2
<1>4. main.pc = "yielded"
  BY <1>3 DEF IInv, Stack, Owed, MainRuns
<1>5. Cardinality(Pending) = main.yields + 1 /\ main.yields \in Nat
  BY <1>4 DEF IInv, Stack, Owed, Types, MainRecord
<1>6. Cardinality(Pending \ {v}) = Cardinality(Pending) - 1
  BY <1>2, FS_RemoveElement
<1>. QED  BY <1>4, <1>5, <1>6

\* The body of a work is done, and its callback resumes main.
LEMMA WorkReturnsKeeps ==
  ASSUME IInv, WorkReturns
  PROVE  IInv'
<1>. DEFINE v == running
            w == work[v]
            subfolders == UNION {Subfolders(v, x[2]) :
                                   x \in {x \in w.got : x[1] = "folders"}}
            keys == IF asked.kind = "clone" THEN main.keys \o SetToSeq(subfolders) ELSE <<>>
<1>1. /\ ~MainRuns /\ v # None /\ w.state = "running"
      /\ work' = [work EXCEPT ![v].state = "returned"]
      /\ UNCHANGED <<asked, limit, running, work_queue, in_progress, posted, requests,
                     failed>>
  BY DEF WorkReturns, managerVars
<1>2. v \in Works /\ v \in InState("running") /\ v \in Pending
  BY <1>1 DEF IInv, Types, InState, Pending
<1>3. /\ main.pc = "yielded" /\ Cardinality(Pending) = main.yields + 1
      /\ Cardinality(Pending \ {v}) = main.yields
  BY <1>1, <1>2, MainYielded
<1>. DEFINE all == [results EXCEPT !.got = @ \cup {<<v, x>> : x \in w.got},
                                   !.errors = @ \cup w.errors]
            changes == [results EXCEPT
                          !.revision = IF asked.kind = "poll" THEN w.latest ELSE w.start,
                          !.got = {u \in w.got : asked.changed[u] # "trash"},
                          !.errors = w.errors]
            more == main.keys \o SetToSeq(subfolders)
<1>0. (CASE asked.kind = "clone" -> results' = all /\ Resume(more)
         [] WorkKind(v) \in {"changes", "foreign"} -> results' = changes /\ Resume(<<>>)
         [] OTHER -> results' = HandleGetInfo(w) /\ Resume(<<>>))
  BY DEF WorkReturns
<1>4. /\ Resume(keys)
      /\ asked.kind = "clone" => results' = all
      /\ asked.kind # "clone" =>
            results' = IF WorkKind(v) \in {"changes", "foreign"} THEN changes
                       ELSE HandleGetInfo(w)
  <2>. HIDE DEF all, more, changes
  <2>1. asked.kind = "clone" => WorkKind(v) \notin {"changes", "foreign"}
    BY DEF WorkKind
  <2>2. CASE asked.kind = "clone"
    <3>1. results' = all /\ Resume(more)
      BY <1>0, <2>1, <2>2
    <3>. QED  BY <2>2, <3>1 DEF more
  <2>3. CASE asked.kind # "clone" /\ WorkKind(v) \in {"changes", "foreign"}
    <3>1. results' = changes /\ Resume(<<>>)
      BY <1>0, <2>3
    <3>. QED  BY <2>3, <3>1
  <2>4. CASE asked.kind # "clone" /\ WorkKind(v) \notin {"changes", "foreign"}
    <3>1. results' = HandleGetInfo(w) /\ Resume(<<>>)
      BY <1>0, <2>4
    <3>. QED  BY <2>4, <3>1
  <2>. QED  BY <2>2, <2>3, <2>4
<1>5. /\ main' = [main EXCEPT !.keys = keys,
                              !.pc = IF main.yields = 0 /\ ~main.more
                                     THEN "body" ELSE "execute"]
      /\ UNCHANGED faults
  BY <1>3, <1>4 DEF Resume
<1>6. /\ results' \in ResultRecord
      /\ asked.kind # "clone" => results'.got \subseteq 1 .. Latest
  <2>1. w \in WorkRecord /\ results \in ResultRecord /\ v \in Nat
    BY <1>2, WorksFinite DEF IInv, Types
  <2>2. CASE asked.kind = "clone"
    <3>. DEFINE got == results.got \cup {<<v, x>> : x \in w.got}
                errors == results.errors \cup w.errors
    <3>1. results' = [results EXCEPT !.got = got, !.errors = errors]
      BY <1>4, <2>2
    <3>2. got \subseteq Nat \cup (Nat \X Found) /\ errors \subseteq Failures
      BY <2>1 DEF WorkRecord, ResultRecord
    <3>. HIDE DEF got, errors
    <3>. QED  BY <2>1, <2>2, <3>1, <3>2 DEF ResultRecord
  <2>3. CASE asked.kind # "clone" /\ WorkKind(v) \in {"changes", "foreign"}
    <3>. DEFINE got == {u \in w.got : asked.changed[u] # "trash"}
                revision == IF asked.kind = "poll" THEN w.latest ELSE w.start
    <3>1. results' = [results EXCEPT !.revision = revision, !.got = got, !.errors = w.errors]
      BY <1>4, <2>3
    <3>2. v = 0
      BY <2>3 DEF WorkKind
    <3>3. Obtainable(v) = 1 .. Latest
      BY <2>3, <3>2 DEF Obtainable
    <3>4. w.got \subseteq 1 .. Latest
      BY <1>2, <3>3 DEF IInv, Keys
    <3>5. Latest \in Nat
      <4>1. asked.changed \in Seq(Changes)
        BY <2>3, ActionsAssumption DEF IInv, Types
      <4>. QED  BY <4>1, LenProperties DEF Latest
    <3>6. 1 .. Latest \subseteq Nat
      BY <3>5
    <3>7. got \subseteq 1 .. Latest /\ got \subseteq Nat \cup (Nat \X Found)
      BY <3>4, <3>6
    <3>8. revision \in 0 .. Modulus - 1 /\ w.errors \subseteq Failures
      BY <2>1 DEF WorkRecord
    <3>. HIDE DEF got, revision
    <3>. QED  BY <2>1, <3>1, <3>7, <3>8 DEF ResultRecord
  <2>4. CASE asked.kind # "clone" /\ WorkKind(v) \notin {"changes", "foreign"}
    <3>1. results' = HandleGetInfo(w)
      BY <1>4, <2>4
    <3>2. w.errors \subseteq Failures /\ w.got \in SUBSET Found
      BY <2>1 DEF WorkRecord
    <3>3. Append(results.info, w.got) \in Seq(SUBSET Found)
      BY <2>1, <3>2, AppendProperties DEF ResultRecord
    <3>4. results' \in ResultRecord /\ results'.got = results.got
      BY <2>1, <3>1, <3>2, <3>3 DEF HandleGetInfo, ResultRecord
    <3>. QED  BY <2>4, <3>4 DEF IInv, Keys
  <2>. QED  BY <2>2, <2>3, <2>4
<1>7. /\ asked.kind = "clone" =>
           /\ subfolders \subseteq InState("new") \ Range(main.keys)
           /\ \A u \in subfolders : \A x \in Works : \A n \in DOMAIN asked.subfolders[x] :
                 u \in asked.subfolders[x][n] => x = v
           /\ keys \in Seq(Works) /\ Once(keys)
           /\ Range(keys) = Range(main.keys) \cup subfolders
      /\ asked.kind # "clone" => keys = <<>>
      /\ keys \in Seq(Works)
  <2>1. CASE asked.kind = "clone"
    <3>1. /\ subfolders \subseteq InState("new") \ Range(main.keys)
          /\ IsFiniteSet(subfolders)
          /\ \A u \in subfolders : \A x \in Works : \A n \in DOMAIN asked.subfolders[x] :
                u \in asked.subfolders[x][n] => x = v
      BY <1>2, <2>1, SubfoldersNew DEF IInv
    <3>. HIDE DEF subfolders
    <3>2. /\ SetToSeq(subfolders) \in Seq(subfolders) /\ Once(SetToSeq(subfolders))
          /\ Range(SetToSeq(subfolders)) = subfolders
      BY <3>1, OnceSet
    <3>3. subfolders \subseteq Works
      BY <3>1, BusyStates
    <3>4. SetToSeq(subfolders) \in Seq(Works) /\ main.keys \in Seq(Works) /\ Once(main.keys)
      BY <2>1, <3>2, <3>3, SeqMonotonic DEF IInv, Types, MainRecord, Keys
    <3>5. Range(main.keys) \cap Range(SetToSeq(subfolders)) \subseteq {CancelAll}
      BY <3>1, <3>2
    <3>6. /\ main.keys \o SetToSeq(subfolders) \in Seq(Works)
          /\ Once(main.keys \o SetToSeq(subfolders))
          /\ Range(main.keys \o SetToSeq(subfolders))
             = Range(main.keys) \cup Range(SetToSeq(subfolders))
      BY <3>2, <3>4, <3>5, OnceConcat
    <3>. QED  BY <2>1, <3>1, <3>2, <3>6
  <2>2. CASE asked.kind # "clone"
    BY <2>2, EmptySeq
  <2>. QED  BY <2>1, <2>2
<1>. HIDE DEF keys, subfolders, v
<1>8. /\ main' \in MainRecord /\ main'.keys = keys /\ main'.yields = main.yields
      /\ main'.more = main.more /\ main'.phase = main.phase
      /\ main'.cancelled = main.cancelled
      /\ main'.pc = IF main.yields = 0 /\ ~main.more THEN "body" ELSE "execute"
  BY <1>5, <1>7 DEF IInv, Types, MainRecord
<1>9. work \in [Works -> WorkRecord] /\ "running" \in States /\ "returned" \in States
  BY DEF IInv, Types, States
<1>10. /\ work' \in [Works -> WorkRecord] /\ Works' = Works
       /\ \A u \in Works : /\ work'[u].waits = work[u].waits
                           /\ work'[u].cancelled = work[u].cancelled
                           /\ work'[u].got = work[u].got
  BY <1>1, <1>2, <1>9, StateOnly
<1>11. /\ InState("running")' = InState("running") \ {v}
       /\ InState("returned")' = InState("returned") \cup {v}
       /\ \A s \in States \ {"running", "returned"} : InState(s)' = InState(s)
  BY <1>1, <1>2, <1>9, StateMoves
<1>12. InState("running") = {v} /\ InState("returned") = {}
  <2>1. InState("running") \cup InState("returned") = {v}
    BY <1>1 DEF IInv, Lists, v
  <2>. QED  BY <1>2, <2>1, BusyStates
<1>13. /\ Pending' = Pending \ {v} /\ Busy' = Busy /\ Busy = Pending
       /\ v \notin InState("posted")
  <2>1. \A s : s # "running" => v \notin InState(s)
    BY <1>2, BusyStates
  <2>. QED  BY <1>2, <1>11, <1>12, <2>1, BusyStates DEF Pending, States
<1>14. Types'
  <2>1. RequestRecord' = RequestRecord /\ MainRecord' = MainRecord
    BY <1>10 DEF RequestRecord, MainRecord
  <2>. QED  BY <1>1, <1>5, <1>6, <1>8, <1>10, <2>1 DEF IInv, Types
<1>15. RequestsOK'
  BY <1>1, <1>10, <1>11, RequestsKept DEF IInv, States
<1>16. Keys'
  <2>1. \A u \in Works' : work'[u].got \subseteq Obtainable(u)'
    <3>1. \A u : Obtainable(u)' = Obtainable(u)
      BY <1>1 DEF Obtainable, Latest
    <3>. QED  BY <1>10, <3>1 DEF IInv, Keys
  <2>2. InState("new")' = InState("new")
    BY <1>11 DEF States
  <2>3. CASE asked.kind = "clone"
    <3>1. Once(main'.keys) /\ Range(main'.keys) \subseteq InState("new")'
      BY <1>7, <1>8, <2>2, <2>3 DEF IInv, Keys
    <3>2. ASSUME NEW x \in Works, NEW n \in DOMAIN asked.subfolders[x],
                 NEW u \in asked.subfolders[x][n],
                 u \notin InState("new")' \ Range(main'.keys)
          PROVE  work'[x].state \in {"returned", "done"}
      <4>1. CASE u \in subfolders
        <5>1. x = v
          BY <1>7, <2>3, <4>1
        <5>. QED  BY <1>11, <5>1 DEF InState
      <4>2. CASE u \notin subfolders
        <5>1. u \notin InState("new") \ Range(main.keys)
          BY <1>7, <1>8, <2>2, <2>3, <3>2, <4>2
        <5>2. work[x].state \in {"returned", "done"}
          BY <2>3, <5>1 DEF IInv, Keys
        <5>3. x \in InState("returned") \cup InState("done")
          BY <5>2 DEF InState
        <5>4. x \in InState("returned")' \cup InState("done")'
          BY <1>11, <5>3 DEF States
        <5>. QED  BY <5>4 DEF InState
      <4>. QED  BY <4>1, <4>2
    <3>. QED  BY <1>1, <1>10, <2>1, <2>3, <3>1, <3>2 DEF Keys
  <2>4. CASE asked.kind # "clone"
    <3>1. /\ main'.keys = <<>> /\ results'.got \subseteq 1 .. Latest'
      BY <1>1, <1>6, <1>7, <1>8, <2>4 DEF Latest
    <3>2. \A u \in Works' : PhaseOf(u)' >= main'.phase => u \in InState("new")'
      <4>1. \A u \in Works : PhaseOf(u) >= main.phase => u \in InState("new")
        BY <2>4 DEF IInv, Keys
      <4>2. \A u : PhaseOf(u)' = PhaseOf(u)
        BY <1>1 DEF PhaseOf
      <4>. QED  BY <1>8, <1>10, <2>2, <4>1, <4>2
    <3>. QED  BY <1>1, <2>1, <2>4, <3>1, <3>2 DEF Keys
  <2>. QED  BY <2>3, <2>4
<1>17. Lists'
  <2>1. InState("running")' \cup InState("returned")' = {running'} \ {None}
    BY <1>1, <1>11, <1>12 DEF v
  <2>2. \A u \in Busy' \ in_progress' : work'[u].cancelled /\ main'.cancelled
    BY <1>1, <1>8, <1>10, <1>13, BusyStates DEF IInv, Lists, Pending
  <2>3. InState("queued")' = InState("queued") /\ InState("posted")' = InState("posted")
    BY <1>11 DEF States
  <2>. QED  BY <1>1, <1>8, <1>13, <2>1, <2>2, <2>3 DEF IInv, Lists
<1>18. Stack'
  <2>1. Owed' = main.yields
    BY <1>8 DEF Owed
  <2>2. running' \in InState("returned")' /\ running' # None
    BY <1>1, <1>11 DEF v
  <2>3. main'.pc # "new" /\ main'.pc # "ended" /\ (main'.pc = "body" => main'.yields = 0)
    BY <1>8
  <2>. QED  BY <1>3, <1>13, <2>1, <2>2, <2>3 DEF Stack
<1>19. Room'
  <2>1. ~Fenced(posted, Pending)
    <3>1. posted \in Seq(Works \cup {CancelAll}) /\ Range(posted) \ {CancelAll} = InState("posted")
      BY DEF IInv, Types, Lists
    <3>2. v # CancelAll /\ v \notin InState("posted")
      BY <1>2, <1>13, WorksFinite DEF IInv, Types
    <3>3. v \notin Range(posted)
      BY <3>1, <3>2
    <3>. QED  BY <1>2, <3>1, <3>3, FencedPosted
  <2>2. CASE work_queue # <<>>
    <3>1. Busy \subseteq in_progress /\ Cardinality(in_progress \cap Pending) < limit
      BY <2>1, <2>2 DEF IInv, Room
    <3>2. in_progress \cap Pending = in_progress
      BY <1>13 DEF IInv, Lists
    <3>3. Cardinality(in_progress \cap (Pending \ {v})) < limit
      <4>1. in_progress \in SUBSET Works /\ asked \in Asked /\ limit \in Nat
        BY ActionsAssumption DEF IInv, Types
      <4>2. in_progress \cap (Pending \ {v}) \in SUBSET in_progress
        OBVIOUS
      <4>3. /\ Cardinality(in_progress \cap (Pending \ {v})) <= Cardinality(in_progress)
            /\ Cardinality(in_progress) \in Nat
            /\ Cardinality(in_progress \cap (Pending \ {v})) \in Nat
        BY <4>1, <4>2, SubsetCount
      <4>4. Cardinality(in_progress) < limit
        BY <3>1, <3>2
      <4>. QED  BY <4>1, <4>3, <4>4
    <3>4. limit > 1 => main.more
      BY <1>3, <2>2 DEF IInv, Room
    <3>5. limit > 1 => main'.pc = "execute"
      BY <1>8, <3>4
    <3>. QED  BY <1>1, <1>13, <3>1, <3>2, <3>3, <3>5 DEF Room
  <2>3. CASE work_queue = <<>>
    BY <1>1, <2>3 DEF Room
  <2>. QED  BY <2>2, <2>3
<1>. QED  BY <1>14, <1>15, <1>16, <1>17, <1>18, <1>19 DEF IInv

\* How much work there is to post and room for.
LEMMA ExecuteNumbers ==
  ASSUME NEW room \in Nat, NEW len \in Nat
  PROVE  LET n == Least(room, len)
         IN  /\ n \in 0 .. len /\ n \in Nat /\ n <= room
             /\ n < len => n = room
             /\ room > 0 /\ len > 0 => n > 0
BY DEF Least

\* The yields that are left after one.
LEMMA ExecuteYields ==
  ASSUME NEW y \in Nat
  PROVE  /\ Most(0, y - 1) \in Nat
         /\ y > 0 => Most(0, y - 1) + 1 = y
         /\ y = 0 => Most(0, y - 1) = 0
BY DEF Most

\* ExecuteWork up to its yield.
LEMMA ExecuteWorkKeeps ==
  ASSUME IInv, ExecuteWork
  PROVE  IInv'
<1>. DEFINE room == Most(0, limit - Cardinality(in_progress))
            n == Least(room, Len(work_queue))
            next == SubSeq(work_queue, 1, n)
            yields == main.yields + Len(next)
            S == Range(next)
<1>1. /\ main.pc = "execute"
      /\ work_queue' = SubSeq(work_queue, Len(next) + 1, Len(work_queue))
      /\ in_progress' = in_progress \cup S
      /\ posted' = posted \o next
      /\ main' = [main EXCEPT !.yields = Most(0, yields - 1), !.more = next # <<>>,
                              !.pc = IF yields > 0 THEN "yielded" ELSE "body"]
      /\ UNCHANGED <<asked, limit, running, requests, results, failed, faults>>
  BY DEF ExecuteWork
<1>2. work' = [w \in Works |-> IF w \in S THEN [work[w] EXCEPT !.state = "posted"]
                               ELSE work[w]]
  BY DEF ExecuteWork
<1>3. /\ asked \in Asked /\ work_queue \in Seq(Works) /\ Once(work_queue)
      /\ Range(work_queue) = InState("queued") /\ CancelAll \notin Works
      /\ Len(work_queue) \in Nat /\ limit \in Nat \ {0} /\ main.yields \in Nat
      /\ in_progress \in SUBSET Works /\ Cardinality(in_progress) <= limit
  BY WorksFinite, LenProperties, ActionsAssumption DEF IInv, Types, Lists, MainRecord
<1>4. IsFiniteSet(in_progress) /\ Cardinality(in_progress) \in Nat
  BY <1>3, SubsetCount
<1>5. room = limit - Cardinality(in_progress) /\ room \in Nat
  BY <1>3, <1>4 DEF Most
<1>. HIDE DEF room
<1>6. /\ n \in 0 .. Len(work_queue) /\ n \in Nat /\ n <= room
      /\ n < Len(work_queue) => n = room
      /\ room > 0 /\ Len(work_queue) > 0 => n > 0
  BY <1>3, <1>5, ExecuteNumbers
<1>. HIDE DEF n
<1>7. /\ next \in Seq(Works) /\ Len(next) = n /\ Once(next)
      /\ work_queue' \in Seq(Works) /\ Len(work_queue') = Len(work_queue) - n
      /\ Once(work_queue')
      /\ S \cup Range(work_queue') = Range(work_queue)
      /\ S \cap Range(work_queue') = {}
  <2>1. work_queue' = SubSeq(work_queue, n + 1, Len(work_queue)) \/ Len(next) # n
    BY <1>1
  <2>2. Len(next) = n
    BY <1>3, <1>6, OnceSplit
  <2>3. work_queue' = SubSeq(work_queue, n + 1, Len(work_queue))
    BY <2>1, <2>2
  <2>. QED  BY <1>3, <1>6, <2>3, OnceSplit
<1>. HIDE DEF next
<1>8. /\ S \subseteq InState("queued") /\ S \in SUBSET Works
      /\ IsFiniteSet(S) /\ Cardinality(S) = n
      /\ Range(work_queue') = InState("queued") \ S
  <2>1. IsFiniteSet(S) /\ Cardinality(S) = n
    BY <1>3, <1>7, OnceCardinality
  <2>. QED  BY <1>3, <1>7, <2>1, BusyStates
<1>9. n = 0 <=> next = <<>>
  BY <1>6, <1>7, EmptySeq
<1>. HIDE DEF S
<1>10. /\ yields = main.yields + n /\ yields \in Nat
       /\ main' \in MainRecord /\ main'.keys = main.keys /\ main'.phase = main.phase
       /\ main'.cancelled = main.cancelled
       /\ yields > 0 => main'.yields + 1 = yields
       /\ yields = 0 => main'.yields = 0
       /\ main'.more = (n # 0)
       /\ main'.pc = IF yields > 0 THEN "yielded" ELSE "body"
  <2>1. main \in MainRecord
    BY DEF IInv, Types
  <2>2. yields = main.yields + n /\ yields \in Nat
    BY <1>3, <1>6, <1>7
  <2>3. (next # <<>>) \in BOOLEAN /\ (next # <<>>) = (n # 0)
    BY <1>9
  <2>. HIDE DEF yields
  <2>4. /\ Most(0, yields - 1) \in Nat
        /\ yields > 0 => Most(0, yields - 1) + 1 = yields
        /\ yields = 0 => Most(0, yields - 1) = 0
    BY <2>2, ExecuteYields
  <2>. QED  BY <1>1, <2>1, <2>2, <2>3, <2>4 DEF MainRecord
<1>. HIDE DEF yields
<1>11. work \in [Works -> WorkRecord] /\ \A w \in Works : work[w].state \in States
  BY DEF IInv, Types, WorkRecord
<1>12. Works' = Works
  BY <1>1 DEF Works
<1>13. \A r \in WorkRecord : /\ [r EXCEPT !.state = "posted"] \in WorkRecord
                             /\ [r EXCEPT !.state = "posted"].state = "posted"
                             /\ [r EXCEPT !.state = "posted"].waits = r.waits
                             /\ [r EXCEPT !.state = "posted"].cancelled = r.cancelled
                             /\ [r EXCEPT !.state = "posted"].got = r.got
  BY DEF WorkRecord, States
<1>14. \A w \in Works : /\ work'[w] \in WorkRecord
                        /\ work'[w].state = IF w \in S THEN "posted" ELSE work[w].state
                        /\ work'[w].waits = work[w].waits
                        /\ work'[w].cancelled = work[w].cancelled
                        /\ work'[w].got = work[w].got
  <2>. TAKE w \in Works
  <2>1. work[w] \in WorkRecord
    BY <1>11
  <2>2. CASE w \in S
    <3>1. work'[w] = [work[w] EXCEPT !.state = "posted"]
      BY <1>2, <2>2
    <3>. QED  BY <1>13, <2>1, <2>2, <3>1
  <2>3. CASE w \notin S
    <3>1. work'[w] = work[w]
      BY <1>2, <2>3
    <3>. QED  BY <2>1, <2>3, <3>1
  <2>. QED  BY <2>2, <2>3
<1>15. work' \in [Works -> WorkRecord]
  BY <1>2, <1>14
<1>16. \A s \in States : InState(s)' = IF s = "posted" THEN InState(s) \cup S
                                       ELSE InState(s) \ S
  <2>1. S \in SUBSET Works /\ "posted" \in States /\ UNCHANGED asked
    BY <1>1, <1>8 DEF States
  <2>. QED  BY <1>11, <1>14, <2>1, StatesMove
<1>17. /\ \A s : s # "queued" => S \cap InState(s) = {}
       /\ InState("queued")' = InState("queued") \ S
       /\ InState("posted")' = InState("posted") \cup S
       /\ \A s \in States \ {"queued", "posted"} : InState(s)' = InState(s)
  <2>1. \A s : s # "queued" => S \cap InState(s) = {}
    BY <1>8, BusyStates
  <2>2. ASSUME NEW s \in States \ {"queued", "posted"}  PROVE InState(s)' = InState(s)
    BY <1>16, <2>1
  <2>. QED  BY <1>16, <2>1, <2>2 DEF States
<1>18. /\ Pending' = Pending \cup S /\ Busy' = Busy \cup S
       /\ S \cap Pending = {} /\ S \cap Busy = {}
  BY <1>17, BusyStates DEF Pending, States
<1>19. /\ posted' \in Seq(Works \cup {CancelAll}) /\ Once(posted')
       /\ Range(posted') = Range(posted) \cup S
       /\ Fenced(posted, Pending) => Fenced(posted', Pending')
  <2>. DEFINE T == Works \cup {CancelAll}
  <2>1. posted \in Seq(T) /\ Once(posted) /\ next \in Seq(T) /\ Once(next)
    <3>1. next \in Seq(T)
      BY <1>7, SeqMonotonic
    <3>. QED  BY <1>7, <3>1 DEF IInv, Types, Lists
  <2>2. Range(posted) \cap Range(next) \subseteq {CancelAll}
    BY <1>17 DEF IInv, Lists, S
  <2>. HIDE DEF T
  <2>3. /\ posted \o next \in Seq(T) /\ Once(posted \o next)
        /\ Range(posted \o next) = Range(posted) \cup Range(next)
    BY <2>1, <2>2, OnceConcat
  <2>4. Fenced(posted, Pending) => Fenced(posted \o next, Pending \cup Range(next))
    BY <2>1, FencedGrows
  <2>. QED  BY <1>1, <1>18, <2>3, <2>4 DEF T, S
<1>20. /\ Cardinality(in_progress') = Cardinality(in_progress) + n
       /\ IsFiniteSet(in_progress')
  <2>1. in_progress \cap S = {}
    BY <1>18 DEF IInv, Lists
  <2>2. /\ IsFiniteSet(in_progress \cup S)
        /\ Cardinality(in_progress \cup S)
           = Cardinality(in_progress) + Cardinality(S) - Cardinality(in_progress \cap S)
    BY <1>4, <1>8, FS_Union
  <2>3. Cardinality({}) = 0
    BY FS_EmptySet
  <2>4. Cardinality(in_progress \cup S) = Cardinality(in_progress) + n - 0
    BY <1>8, <2>1, <2>2, <2>3
  <2>. QED  BY <1>1, <1>4, <1>6, <2>2, <2>4
<1>21. Types'
  <2>1. RequestRecord' = RequestRecord /\ MainRecord' = MainRecord
    BY <1>12 DEF RequestRecord, MainRecord
  <2>2. in_progress' \subseteq Works
    BY <1>1, <1>3, <1>8
  <2>. QED  BY <1>1, <1>7, <1>10, <1>12, <1>15, <1>19, <2>1, <2>2 DEF IInv, Types
<1>22. RequestsOK'
  BY <1>1, <1>14, <1>17, RequestsKept DEF IInv, States
<1>23. Keys'
  BY <1>1, <1>10, <1>14, <1>17, KeysKept DEF IInv, States
<1>24. Lists'
  <2>1. Range(work_queue') = InState("queued")' /\ Once(work_queue')
    BY <1>7, <1>8, <1>17
  <2>2. /\ Range(posted') \ {CancelAll} = InState("posted")' /\ Once(posted')
        /\ CancelAll \in Range(posted') => main'.cancelled
    BY <1>3, <1>8, <1>10, <1>17, <1>19 DEF IInv, Lists
  <2>3. InState("running")' \cup InState("returned")' = {running'} \ {None}
    BY <1>1, <1>17 DEF IInv, Lists, States
  <2>4. \A w \in Busy' \ in_progress' : work'[w].cancelled /\ main'.cancelled
    BY <1>1, <1>10, <1>14, <1>18, BusyStates DEF IInv, Lists, Pending
  <2>5. Cardinality(in_progress') <= limit'
    BY <1>1, <1>3, <1>4, <1>5, <1>6, <1>20
  <2>6. in_progress' \subseteq Busy'
    BY <1>1, <1>18 DEF IInv, Lists
  <2>. QED  BY <2>1, <2>2, <2>3, <2>4, <2>5, <2>6 DEF Lists
<1>25. running = None =>
          Busy = {} /\ in_progress = {} /\ Len(work_queue) = 1 /\ n = 1
  <2>. SUFFICES ASSUME running = None
                PROVE  Busy = {} /\ in_progress = {} /\ Len(work_queue) = 1 /\ n = 1
    OBVIOUS
  <2>1. Busy = {} /\ Len(work_queue) = 1
    BY <1>1 DEF IInv, Stack
  <2>2. in_progress = {}
    BY <2>1 DEF IInv, Lists
  <2>3. Cardinality(in_progress) = 0
    BY <2>2, FS_EmptySet
  <2>4. room > 0
    BY <1>3, <1>5, <2>3
  <2>. QED  BY <1>6, <2>1, <2>2, <2>4
<1>26. Stack'
  <2>1. Cardinality(Pending) = main.yields
    BY <1>1 DEF IInv, Stack, Owed
  <2>2. Cardinality(Pending') = yields
    <3>1. Pending \in SUBSET Works
      BY DEF Pending, InState
    <3>2. IsFiniteSet(Pending) /\ Cardinality(Pending) \in Nat
      BY <1>3, <3>1, SubsetCount
    <3>3. Cardinality(Pending \cup S)
          = Cardinality(Pending) + Cardinality(S) - Cardinality(Pending \cap S)
      BY <1>8, <3>2, FS_Union
    <3>4. Cardinality(Pending \cap S) = 0
      BY <1>18, FS_EmptySet
    <3>5. Cardinality(Pending \cup S) = main.yields + n - 0
      BY <1>8, <2>1, <3>3, <3>4
    <3>. QED  BY <1>3, <1>6, <1>10, <1>18, <3>5
  <2>3. Owed' = yields
    <3>1. yields \in Nat
      BY <1>3, <1>6, <1>10
    <3>2. CASE yields > 0
      <4>1. Owed' = main'.yields + 1
        BY <1>10, <3>2 DEF Owed
      <4>. QED  BY <1>10, <3>2, <4>1
    <3>3. CASE yields = 0
      <4>1. Owed' = 0
        BY <1>10, <3>3 DEF Owed
      <4>. QED  BY <3>3, <4>1
    <3>. QED  BY <3>1, <3>2, <3>3
  <2>4. running # None => running' \in InState("returned")'
    BY <1>1, <1>17 DEF IInv, Stack, MainRuns, States
  <2>5. running = None => main'.pc = "yielded"
    BY <1>3, <1>10, <1>25
  <2>6. main'.pc # "new" /\ main'.pc # "execute" /\ main'.pc # "ended"
    BY <1>10
  <2>7. main'.pc = "body" => main'.yields = 0
    BY <1>10
  <2>. QED  BY <1>1, <2>2, <2>3, <2>4, <2>5, <2>6, <2>7 DEF Stack
<1>27. Room'
  <2>. SUFFICES ASSUME work_queue' # <<>>  PROVE Room'
    BY DEF Room
  <2>1. Len(work_queue') \in Nat /\ Len(work_queue') # 0
    BY <1>7, EmptySeq, LenProperties
  <2>2. n < Len(work_queue) /\ n = room /\ work_queue # <<>>
    <3>1. n < Len(work_queue)
      BY <1>3, <1>6, <1>7, <2>1
    <3>2. work_queue # <<>>
      BY <1>3, <1>6, <3>1, EmptySeq
    <3>. QED  BY <1>6, <3>1, <3>2
  <2>3. Cardinality(in_progress') = limit
    BY <1>3, <1>4, <1>5, <1>20, <2>2
  <2>4. running # None
    <3>1. n = 1 /\ Len(work_queue) = 1 => FALSE
      BY <2>2
    <3>. QED  BY <1>25, <3>1
  <2>5. running \in InState("returned") /\ running \in Busy
    BY <1>1, <2>4, BusyStates DEF IInv, Stack, MainRuns
  <2>6. ASSUME ~Fenced(posted', Pending')
        PROVE  Busy' \subseteq in_progress' /\ Cardinality(in_progress' \cap Pending') < limit'
    <3>1. Busy \subseteq in_progress
      BY <1>19, <2>2, <2>6 DEF IInv, Room
    <3>2. Busy' \subseteq in_progress'
      BY <1>1, <1>18, <3>1
    <3>3. running \in in_progress' /\ running \notin Pending'
      <4>1. running \notin Pending
        BY <2>5, BusyStates DEF Pending
      <4>. QED  BY <1>1, <1>18, <2>5, <3>1, <4>1
    <3>. DEFINE A == in_progress' \ {running}
                B == in_progress' \cap Pending'
    <3>4. Cardinality(A) = limit - 1 /\ IsFiniteSet(A)
      BY <1>20, <2>3, <3>3, FS_RemoveElement
    <3>5. B \subseteq A
      BY <3>3
    <3>. HIDE DEF A, B
    <3>6. IsFiniteSet(B) /\ Cardinality(B) <= Cardinality(A)
      BY <3>4, <3>5, FS_Subset
    <3>7. Cardinality(B) \in Nat
      BY <3>6, FS_CardinalityType
    <3>8. Cardinality(B) < limit
      BY <1>3, <3>4, <3>6, <3>7
    <3>. QED  BY <1>1, <3>2, <3>8 DEF B
  <2>7. limit > 1 => main'.pc = "yielded" /\ main'.more
    <3>. SUFFICES ASSUME limit > 1  PROVE main'.pc = "yielded" /\ main'.more
      OBVIOUS
    <3>1. Cardinality(in_progress) < limit
      BY <1>1, <2>2 DEF IInv, Room
    <3>2. n > 0
      BY <1>3, <1>4, <1>5, <2>2, <3>1
    <3>3. yields > 0 /\ n # 0
      BY <1>3, <1>6, <1>10, <3>2
    <3>. QED  BY <1>10, <3>3
  <2>. QED  BY <1>1, <2>6, <2>7 DEF Room
<1>. QED  BY <1>21, <1>22, <1>23, <1>24, <1>26, <1>27 DEF IInv

\* While main runs its body nothing is owed, and no work is under way but the
\* one that has resumed it.
LEMMA BodyQuiet ==
  ASSUME IInv, main.pc = "body"
  PROVE  /\ main.yields = 0 /\ Pending = {}
         /\ Busy = {running} \ {None}
         /\ running = None => First
<1>1. main.yields = 0 /\ Cardinality(Pending) = 0 /\ (running = None => First)
  BY DEF IInv, Stack, Owed
<1>2. Pending = {}
  <2>1. Pending \in SUBSET Works /\ asked \in Asked
    BY DEF IInv, Types, Pending, InState
  <2>. QED  BY <1>1, <2>1, SubsetCount
<1>3. InState("running") = {} /\ Busy = InState("returned")
  BY <1>2, BusyStates DEF Pending
<1>. QED  BY <1>1, <1>2, <1>3 DEF IInv, Lists

\* main queues new works, once each.
LEMMA QueueKeeps ==
  ASSUME IInv, main.pc = "body",
         NEW works \in Seq(InState("new")), Once(works), QueueWork(works),
         UNCHANGED <<asked, limit, running, in_progress, requests, results, failed, faults>>,
         main' \in MainRecord, main'.yields = main.yields,
         main'.cancelled = main.cancelled,
         \/ main'.pc = "execute" /\ (running = None => Len(works) = 1)
         \/ main'.pc = "ended" /\ main'.keys # <<>>
  PROVE  /\ Types' /\ RequestsOK' /\ Lists' /\ Stack' /\ Room'
         /\ InState("new")' = InState("new") \ Range(works)
         /\ \A s \in {"returned", "done"} : InState(s)' = InState(s)
         /\ \A w \in Works : work'[w].got = work[w].got
<1>. DEFINE S == Range(works)
<1>1. /\ work_queue' = work_queue \o works
      /\ posted' = IF main.cancelled THEN Append(posted, CancelAll) ELSE posted
      /\ work' = [w \in Works |-> IF w \in S THEN [work[w] EXCEPT !.state = "queued"]
                                  ELSE work[w]]
  BY DEF QueueWork
<1>2. /\ main.yields = 0 /\ Pending = {} /\ Busy = {running} \ {None}
      /\ running = None => First
  BY BodyQuiet
<1>3. /\ InState("new") \subseteq Works /\ works \in Seq(Works) /\ S \subseteq InState("new")
      /\ S \in SUBSET Works /\ DOMAIN works = 1 .. Len(works)
      /\ \A i \in 1 .. Len(works) : works[i] \in InState("new")
  <2>1. InState("new") \subseteq Works
    BY BusyStates
  <2>2. DOMAIN works = 1 .. Len(works) /\ \A i \in 1 .. Len(works) : works[i] \in InState("new")
    BY LenProperties, ElementOfSeq
  <2>3. S \subseteq InState("new")
    BY <2>2 DEF Range
  <2>. QED  BY <2>1, <2>2, <2>3, SeqMonotonic
<1>4. /\ asked \in Asked /\ work_queue \in Seq(Works) /\ Once(work_queue)
      /\ Range(work_queue) = InState("queued")
  BY DEF IInv, Types, Lists
<1>5. /\ work_queue' \in Seq(Works) /\ Once(work_queue')
      /\ Range(work_queue') = InState("queued") \cup S
  <2>1. Range(work_queue) \cap Range(works) \subseteq {CancelAll}
    BY <1>3, <1>4, BusyStates
  <2>. QED  BY <1>1, <1>3, <1>4, <2>1, OnceConcat
<1>. HIDE DEF S
<1>6. work \in [Works -> WorkRecord] /\ (\A w \in Works : work[w].state \in States)
  BY DEF IInv, Types, WorkRecord
<1>7. Works' = Works
  BY DEF Works
<1>8. \A r \in WorkRecord : /\ [r EXCEPT !.state = "queued"] \in WorkRecord
                            /\ [r EXCEPT !.state = "queued"].state = "queued"
                            /\ [r EXCEPT !.state = "queued"].waits = r.waits
                            /\ [r EXCEPT !.state = "queued"].cancelled = r.cancelled
                            /\ [r EXCEPT !.state = "queued"].got = r.got
  BY DEF WorkRecord, States
<1>9. \A w \in Works : /\ work'[w] \in WorkRecord
                       /\ work'[w].state = IF w \in S THEN "queued" ELSE work[w].state
                       /\ work'[w].waits = work[w].waits
                       /\ work'[w].cancelled = work[w].cancelled
                       /\ work'[w].got = work[w].got
  <2>. TAKE w \in Works
  <2>1. work[w] \in WorkRecord
    BY <1>6
  <2>2. CASE w \in S
    <3>1. work'[w] = [work[w] EXCEPT !.state = "queued"]
      BY <1>1, <2>2
    <3>. QED  BY <1>8, <2>1, <2>2, <3>1
  <2>3. CASE w \notin S
    <3>1. work'[w] = work[w]
      BY <1>1, <2>3
    <3>. QED  BY <2>1, <2>3, <3>1
  <2>. QED  BY <2>2, <2>3
<1>10. work' \in [Works -> WorkRecord]
  BY <1>1, <1>9
<1>11. \A s \in States : InState(s)' = IF s = "queued" THEN InState(s) \cup S
                                       ELSE InState(s) \ S
  <2>1. "queued" \in States
    BY DEF States
  <2>. QED  BY <1>3, <1>6, <1>9, <2>1, StatesMove
<1>12. /\ InState("new")' = InState("new") \ S
       /\ InState("queued")' = InState("queued") \cup S
       /\ \A s \in States \ {"new", "queued"} : InState(s)' = InState(s)
  <2>1. \A s : s # "new" => S \cap InState(s) = {}
    BY <1>3, BusyStates
  <2>2. ASSUME NEW s \in States \ {"new", "queued"}  PROVE InState(s)' = InState(s)
    BY <1>11, <2>1
  <2>. QED  BY <1>11, <2>1, <2>2 DEF States
<1>13. Pending' = {} /\ Busy' = Busy
  BY <1>2, <1>12, BusyStates DEF Pending, States
<1>14. /\ posted' \in Seq(Works \cup {CancelAll}) /\ Once(posted')
       /\ Range(posted') \ {CancelAll} = Range(posted) \ {CancelAll}
       /\ main.cancelled => CancelAll \in Range(posted')
       /\ CancelAll \in Range(posted') => main.cancelled
  <2>1. /\ posted \in Seq(Works \cup {CancelAll}) /\ Once(posted)
        /\ CancelAll \in Range(posted) => main.cancelled
    BY DEF IInv, Types, Lists
  <2>2. CASE ~main.cancelled
    BY <1>1, <2>1, <2>2
  <2>3. CASE main.cancelled
    <3>. DEFINE T == Works \cup {CancelAll}
                q == <<CancelAll>>
    <3>1. posted \in Seq(T) /\ q \in Seq(T) /\ CancelAll \in T
      BY <2>1
    <3>2. Once(q) /\ Range(q) = {CancelAll}
      BY DEF Once, Range
    <3>. HIDE DEF T
    <3>3. posted' = posted \o q
      BY <1>1, <2>3, <3>1, AppendIsConcat
    <3>. HIDE DEF q
    <3>4. /\ posted \o q \in Seq(T) /\ Once(posted \o q)
          /\ Range(posted \o q) = Range(posted) \cup Range(q)
      BY <2>1, <3>1, <3>2, OnceConcat
    <3>. QED  BY <2>3, <3>2, <3>3, <3>4 DEF T
  <2>. QED  BY <2>2, <2>3
<1>15. Types'
  <2>1. RequestRecord' = RequestRecord /\ MainRecord' = MainRecord
    BY <1>7 DEF RequestRecord, MainRecord
  <2>. QED  BY <1>5, <1>7, <1>10, <1>14, <2>1 DEF IInv, Types
<1>16. RequestsOK'
  BY <1>9, <1>12, RequestsKept DEF IInv, States
<1>17. Lists'
  <2>1. InState("running")' \cup InState("returned")' = {running'} \ {None}
    BY <1>12 DEF IInv, Lists, States
  <2>2. \A w \in Busy' \ in_progress' : work'[w].cancelled /\ main'.cancelled
    <3>1. Busy \subseteq Works
      BY BusyStates DEF Pending
    <3>. QED  BY <1>9, <1>13, <3>1 DEF IInv, Lists
  <2>3. InState("posted")' = InState("posted")
    BY <1>12 DEF States
  <2>. QED  BY <1>5, <1>12, <1>13, <1>14, <2>1, <2>2, <2>3 DEF IInv, Lists
<1>18. Stack'
  <2>1. Cardinality(Pending') = 0
    BY <1>13, FS_EmptySet
  <2>2. Owed' = 0
    BY <1>2 DEF Owed
  <2>3. running # None => running' \in InState("returned")'
    BY <1>12 DEF IInv, Stack, MainRuns, States
  <2>4. main'.pc = "execute" /\ running = None => Len(work_queue') = 1 /\ Busy' = {}
    <3>. SUFFICES ASSUME main'.pc = "execute", running = None
                  PROVE  Len(work_queue') = 1 /\ Busy' = {}
      OBVIOUS
    <3>1. work_queue = <<>> /\ Busy = {}
      BY <1>2, AllNew DEF IInv, First
    <3>2. work_queue' = works
      BY <1>1, <1>3, <3>1, ConcatEmptySeq
    <3>. QED  BY <1>13, <3>1, <3>2
  <2>. QED  BY <1>2, <2>1, <2>2, <2>3, <2>4 DEF Stack
<1>19. Room'
  <2>1. limit \in Nat \ {0}
    BY ActionsAssumption DEF IInv, Types
  <2>2. ASSUME ~Fenced(posted', Pending')
        PROVE  Busy' \subseteq in_progress' /\ Cardinality(in_progress' \cap Pending') < limit'
    <3>1. ~main.cancelled
      BY <1>13, <1>14, <2>2 DEF Fenced
    <3>2. Busy \subseteq in_progress
      BY <3>1 DEF IInv, Lists
    <3>3. Cardinality(in_progress' \cap Pending') = 0
      BY <1>13, FS_EmptySet
    <3>. QED  BY <1>13, <2>1, <3>2, <3>3
  <2>3. limit > 1 => Cardinality(in_progress) < limit
    <3>1. in_progress \subseteq {running}
      BY <1>2 DEF IInv, Lists
    <3>2. IsFiniteSet({running}) /\ Cardinality({running}) = 1
      BY FS_Singleton
    <3>3. IsFiniteSet(in_progress) /\ Cardinality(in_progress) <= 1
      BY <3>1, <3>2, FS_Subset
    <3>4. Cardinality(in_progress) \in Nat
      BY <3>3, FS_CardinalityType
    <3>. QED  BY <2>1, <3>3, <3>4
  <2>. QED  BY <2>2, <2>3 DEF Room
<1>. QED  BY <1>9, <1>12, <1>15, <1>16, <1>17, <1>18, <1>19 DEF S, States

\* main calls its callback and ends.
LEMMA EndKeeps ==
  ASSUME IInv, main.pc = "body", main' = [main EXCEPT !.pc = "ended"],
         UNCHANGED <<asked, limit, work, running, work_queue, in_progress, posted,
                     requests, results, failed, faults>>
  PROVE  IInv'
<1>1. /\ main'.pc = "ended" /\ main'.keys = main.keys /\ main'.phase = main.phase
      /\ main'.cancelled = main.cancelled /\ main'.yields = main.yields
      /\ main' \in MainRecord
  BY DEF IInv, Types, MainRecord
<1>2. /\ Works' = Works /\ Busy' = Busy /\ Pending' = Pending
      /\ \A s : InState(s)' = InState(s)
  BY DEF Works, Busy, Pending, InState
<1>3. Types'
  BY <1>1, <1>2 DEF IInv, Types, MainRecord, RequestRecord
<1>4. RequestsOK' /\ Keys'
  BY <1>1, <1>2, RequestsKept, KeysKept DEF IInv
<1>5. Lists'
  BY <1>1, <1>2 DEF IInv, Lists
<1>6. Stack'
  <2>1. main.yields = 0 /\ Pending = {}
    BY BodyQuiet
  <2>2. Owed' = 0 /\ Cardinality(Pending') = 0
    BY <1>1, <1>2, <2>1, FS_EmptySet DEF Owed
  <2>. QED  BY <1>1, <2>1, <2>2 DEF Stack, MainRuns
<1>7. Room'
  BY <1>1, <1>2 DEF IInv, Room
<1>. QED  BY <1>3, <1>4, <1>5, <1>6, <1>7 DEF IInv

\* The loop of CloneCloudTree.
LEMMA CloneBodyKeeps ==
  ASSUME IInv, CloneBody
  PROVE  IInv'
<1>. DEFINE room == MAX_LOOP_ITERATIONS + 1 - main.iterations
            n == Least(room, Len(main.keys))
            now == SubSeq(main.keys, 1, n)
            rest == SubSeq(main.keys, Len(now) + 1, Len(main.keys))
<1>1. /\ main.pc = "body" /\ asked.kind = "clone"
      /\ UNCHANGED <<asked, limit, running, in_progress, requests, results, failed, faults>>
  BY DEF CloneBody
<1>2. IF now = <<>>
      THEN main' = [main EXCEPT !.pc = "ended"] /\ UNCHANGED <<work, work_queue, posted>>
      ELSE /\ QueueWork(now)
           /\ main' = [main EXCEPT !.keys = rest, !.iterations = @ + Len(now),
                                   !.pc = IF now = main.keys THEN "execute" ELSE "ended"]
  BY DEF CloneBody
<1>3. /\ main \in MainRecord /\ main.keys \in Seq(Works) /\ Once(main.keys)
      /\ Range(main.keys) \subseteq InState("new") /\ InState("new") \subseteq Works
      /\ asked \in Asked /\ CancelAll \notin Works /\ room \in Nat
      /\ Len(main.keys) \in Nat
      /\ main.iterations \in Nat /\ main.iterations + room = MAX_LOOP_ITERATIONS + 1
      /\ MAX_LOOP_ITERATIONS \in Nat
  <2>1. /\ main \in MainRecord /\ asked \in Asked
        /\ Once(main.keys) /\ Range(main.keys) \subseteq InState("new")
    BY <1>1 DEF IInv, Types, Keys
  <2>2. main.keys \in Seq(Works) /\ main.iterations \in 0 .. MAX_LOOP_ITERATIONS + 1
    BY <2>1 DEF MainRecord
  <2>3. MAX_LOOP_ITERATIONS \in Nat
    BY ActionsAssumption
  <2>4. /\ main.iterations \in Nat /\ room \in Nat
        /\ main.iterations + room = MAX_LOOP_ITERATIONS + 1
    BY <2>2, <2>3
  <2>. QED  BY <2>1, <2>2, <2>3, <2>4, WorksFinite, BusyStates, LenProperties
<1>. HIDE DEF room
<1>4. n \in 0 .. Len(main.keys) /\ n \in Nat /\ n <= room
  BY <1>3, ExecuteNumbers
<1>. HIDE DEF n
<1>5. /\ now \in Seq(Works) /\ Len(now) = n /\ Once(now)
      /\ rest \in Seq(Works) /\ Len(rest) = Len(main.keys) - n /\ Once(rest)
      /\ Range(now) \cup Range(rest) = Range(main.keys)
      /\ Range(now) \cap Range(rest) = {}
  <2>1. Len(now) = n
    BY <1>3, <1>4, OnceSplit
  <2>2. rest = SubSeq(main.keys, n + 1, Len(main.keys))
    BY <2>1
  <2>. HIDE DEF rest
  <2>. QED  BY <1>3, <1>4, <2>2, OnceSplit
<1>. HIDE DEF now, rest
<1>6. CASE now = <<>>
  BY <1>1, <1>2, <1>6, EndKeeps
<1>7. CASE now # <<>>
  <2>1. /\ QueueWork(now)
        /\ main' = [main EXCEPT !.keys = rest, !.iterations = @ + Len(now),
                                !.pc = IF now = main.keys THEN "execute" ELSE "ended"]
    BY <1>2, <1>7
  <2>2. /\ main' \in MainRecord /\ main'.keys = rest /\ main'.yields = main.yields
        /\ main'.cancelled = main.cancelled
        /\ main'.pc = IF now = main.keys THEN "execute" ELSE "ended"
    <3>1. main.iterations + Len(now) \in 0 .. MAX_LOOP_ITERATIONS + 1
      BY <1>3, <1>4, <1>5
    <3>. QED  BY <1>3, <1>5, <2>1, <3>1 DEF MainRecord
  <2>3. now \in Seq(InState("new"))
    <3>1. Range(now) \subseteq InState("new")
      BY <1>3, <1>5
    <3>2. /\ DOMAIN now = 1 .. Len(now) /\ Len(now) \in Nat
          /\ now \in [1 .. Len(now) -> Works]
      BY <1>5, LenProperties
    <3>3. now \in [1 .. Len(now) -> InState("new")]
      BY <3>1, <3>2 DEF Range
    <3>. QED  BY <3>2, <3>3, SeqDef
  <2>4. ASSUME now = main.keys  PROVE main'.pc = "execute" /\ (running = None => Len(now) = 1)
    <3>1. running = None => Len(now) = 1
      <4>1. running = None => main.keys = <<0>>
        BY <1>1, BodyQuiet DEF First
      <4>. QED  BY <2>4, <4>1
    <3>. QED  BY <2>2, <2>4, <3>1
  <2>5. ASSUME now # main.keys  PROVE main'.pc = "ended" /\ main'.keys # <<>>
    <3>1. rest # <<>>
      <4>. SUFFICES ASSUME rest = <<>>  PROVE FALSE
        OBVIOUS
      <4>1. Len(rest) = 0
        BY <1>5, EmptySeq
      <4>2. n = Len(main.keys)
        BY <1>3, <1>4, <1>5, <4>1
      <4>3. now = SubSeq(main.keys, 1, Len(main.keys))
        BY <4>2 DEF now
      <4>4. now = main.keys
        BY <1>3, <4>3, SubSeqFull
      <4>. QED  BY <2>5, <4>4
    <3>. QED  BY <2>2, <2>5, <3>1
  <2>6. \/ main'.pc = "execute" /\ (running = None => Len(now) = 1)
        \/ main'.pc = "ended" /\ main'.keys # <<>>
    BY <2>4, <2>5
  <2>7. /\ Types' /\ RequestsOK' /\ Lists' /\ Stack' /\ Room'
        /\ InState("new")' = InState("new") \ Range(now)
        /\ \A s \in {"returned", "done"} : InState(s)' = InState(s)
        /\ \A w \in Works : work'[w].got = work[w].got
    BY <1>1, <1>5, <2>1, <2>2, <2>3, <2>6, QueueKeeps
  <2>8. Works' = Works
    BY <1>1 DEF Works
  <2>9. \A w \in Works' : work'[w].got \subseteq Obtainable(w)'
    <3>1. \A w : Obtainable(w)' = Obtainable(w)
      BY <1>1 DEF Obtainable, Latest
    <3>. QED  BY <2>7, <2>8, <3>1 DEF IInv, Keys
  <2>10. InState("new")' \ Range(rest) = InState("new") \ Range(main.keys)
    BY <1>5, <2>7
  <2>11. Once(rest) /\ Range(rest) \subseteq InState("new")'
    BY <1>3, <1>5, <2>7
  <2>12. ASSUME NEW w \in Works, NEW m \in DOMAIN asked.subfolders[w],
                NEW v \in asked.subfolders[w][m], v \notin InState("new")' \ Range(rest)
         PROVE  work'[w].state \in {"returned", "done"}
    <3>1. work[w].state \in {"returned", "done"}
      BY <1>1, <2>10, <2>12 DEF IInv, Keys
    <3>2. w \in InState(work[w].state)
      BY DEF InState
    <3>3. \E s \in {"returned", "done"} : w \in InState(s)'
      BY <2>7, <3>1, <3>2
    <3>. QED  BY <3>3 DEF InState
  <2>13. Keys'
    BY <1>1, <2>2, <2>8, <2>9, <2>11, <2>12 DEF Keys
  <2>. QED  BY <2>7, <2>13 DEF IInv
<1>. QED  BY <1>6, <1>7

\* The phases of PollChanges and PollForeignChanges.
LEMMA PollBodyKeeps ==
  ASSUME IInv, PollBody
  PROVE  IInv'
<1>1. /\ main.pc = "body" /\ asked.kind # "clone"
      /\ UNCHANGED <<asked, limit, running, in_progress, requests, results, failed, faults>>
  BY DEF PollBody
<1>2. CASE main.phase = 4
  <2>1. main' = [main EXCEPT !.pc = "ended"] /\ UNCHANGED <<work, work_queue, posted>>
    BY <1>2 DEF PollBody
  <2>. QED  BY <1>1, <2>1, EndKeeps
<1>3. CASE main.phase # 4
  <2>. DEFINE works == CASE main.phase = 1 -> <<0>>
                         [] main.phase = 2 -> SetToSeq(Of("file"))
                         [] main.phase = 3 -> SetToSeq(Of("folder"))
  <2>1. QueueWork(works) /\ main' = [main EXCEPT !.pc = "execute", !.phase = @ + 1]
    BY <1>3 DEF PollBody
  <2>2. main \in MainRecord /\ main.phase \in {1, 2, 3}
    <3>1. main \in MainRecord
      BY DEF IInv, Types
    <3>2. main.phase \in 1 .. 4
      BY <3>1 DEF MainRecord
    <3>. QED  BY <1>3, <3>1, <3>2
  <2>3. /\ main' \in MainRecord /\ main'.keys = main.keys /\ main'.yields = main.yields
        /\ main'.cancelled = main.cancelled /\ main'.pc = "execute"
        /\ main'.phase = main.phase + 1
    <3>1. main.phase + 1 \in 1 .. 4
      BY <2>2
    <3>. QED  BY <2>1, <2>2, <3>1 DEF MainRecord
  <2>4. /\ main.keys = <<>> /\ results.got \subseteq 1 .. Latest
        /\ \A w \in Works : PhaseOf(w) >= main.phase => w \in InState("new")
    BY <1>1 DEF IInv, Keys
  <2>5. Works = 0 .. Latest /\ Latest \in Nat /\ IsFiniteSet(Works)
    <3>1. asked \in Asked /\ asked.changed \in Seq(Changes)
      BY <1>1, ActionsAssumption DEF IInv, Types
    <3>. QED  BY <1>1, <3>1, WorksFinite, LenProperties DEF Works, Latest
  <2>6. ASSUME NEW c
        PROVE  /\ SetToSeq(Of(c)) \in Seq(Of(c)) /\ Once(SetToSeq(Of(c)))
               /\ Range(SetToSeq(Of(c))) = Of(c)
               /\ \A v \in Of(c) : v \in Works /\ v # 0 /\ asked.changed[v] = c
    <3>1. Of(c) \subseteq Works /\ \A v \in Of(c) : v # 0 /\ asked.changed[v] = c
      BY <2>4, <2>5 DEF Of
    <3>2. IsFiniteSet(Of(c))
      BY <2>5, <3>1, FS_Subset
    <3>. QED  BY <3>1, <3>2, OnceSet
  <2>7. /\ works \in Seq(Range(works)) /\ Once(works)
        /\ \A v \in Range(works) : v \in Works /\ PhaseOf(v) = main.phase
        /\ main.phase = 1 => Len(works) = 1
    <3>1. CASE main.phase = 1
      <4>1. works = <<0>>
        BY <3>1
      <4>2. Range(<<0>>) = {0} /\ Once(<<0>>) /\ <<0>> \in Seq({0}) /\ Len(<<0>>) = 1
        BY DEF Range, Once
      <4>3. 0 \in Works /\ PhaseOf(0) = 1
        BY <2>5 DEF PhaseOf
      <4>. QED  BY <3>1, <4>1, <4>2, <4>3
    <3>2. CASE main.phase = 2
      <4>1. works = SetToSeq(Of("file"))
        BY <3>2
      <4>2. \A v \in Of("file") : v \in Works /\ PhaseOf(v) = 2
        BY <2>6 DEF PhaseOf
      <4>. HIDE DEF works
      <4>. QED  BY <2>6, <3>2, <4>1, <4>2
    <3>3. CASE main.phase = 3
      <4>1. works = SetToSeq(Of("folder"))
        BY <3>3
      <4>2. \A v \in Of("folder") : v \in Works /\ PhaseOf(v) = 3
        BY <2>6 DEF PhaseOf
      <4>. HIDE DEF works
      <4>. QED  BY <2>6, <3>3, <4>1, <4>2
    <3>. QED  BY <2>2, <3>1, <3>2, <3>3
  <2>. HIDE DEF works
  <2>8. Range(works) \subseteq InState("new") /\ works \in Seq(InState("new"))
    <3>1. Range(works) \subseteq InState("new")
      BY <2>2, <2>4, <2>7
    <3>. QED  BY <2>7, <3>1, SeqMonotonic
  <2>9. running = None => Len(works) = 1
    BY <1>1, <2>7, BodyQuiet DEF First
  <2>10. /\ Types' /\ RequestsOK' /\ Lists' /\ Stack' /\ Room'
         /\ InState("new")' = InState("new") \ Range(works)
         /\ \A w \in Works : work'[w].got = work[w].got
    BY <1>1, <2>1, <2>3, <2>7, <2>8, <2>9, QueueKeeps
  <2>11. Works' = Works /\ Latest' = Latest
    BY <1>1 DEF Works, Latest
  <2>12. \A w \in Works' : work'[w].got \subseteq Obtainable(w)'
    <3>1. \A w : Obtainable(w)' = Obtainable(w)
      BY <1>1 DEF Obtainable, Latest
    <3>. QED  BY <2>10, <2>11, <3>1 DEF IInv, Keys
  <2>13. ASSUME NEW w \in Works, PhaseOf(w)' >= main'.phase  PROVE w \in InState("new")'
    <3>1. PhaseOf(w)' = PhaseOf(w) /\ PhaseOf(w) \in {1, 2, 3}
      BY <1>1 DEF PhaseOf
    <3>2. PhaseOf(w) >= main.phase /\ PhaseOf(w) # main.phase
      BY <2>2, <2>3, <2>13, <3>1
    <3>. QED  BY <2>4, <2>7, <2>10, <3>2
  <2>14. Keys'
    BY <1>1, <2>3, <2>4, <2>11, <2>12, <2>13 DEF Keys
  <2>. QED  BY <2>10, <2>14 DEF IInv
<1>. QED  BY <1>2, <1>3

-----------------------------------------------------------------------------
(* Theorems *)

\* Nothing is queued at first.
LEMMA InitIInv ==
  ASSUME Init
  PROVE  IInv
<1>1. /\ asked \in Asked /\ limit \in Limits /\ running = None
      /\ main = [pc |-> "new", phase |-> 1, iterations |-> 0, yields |-> 0,
                 more |-> FALSE, cancelled |-> FALSE,
                 keys |-> IF asked.kind = "clone" THEN <<0>> ELSE <<>>]
      /\ work_queue = <<>> /\ in_progress = {} /\ posted = <<>> /\ requests = {}
      /\ results = [revision |-> 0, got |-> {}, info |-> <<>>, errors |-> {}]
      /\ faults = {}
  BY DEF Init
<1>2. PICK garbage \in Garbage :
         work = [w \in Works |->
                    LET kind == WorkKind(w)
                    IN [NewWork(asked.kind) EXCEPT
                          !.start = IF w = 0 /\ kind # "contents" THEN asked.known ELSE 0,
                          !.latest = CASE kind = "changes" -> garbage
                                       [] kind = "foreign" -> Modulus - 1
                                       [] OTHER -> 0]]
  BY DEF Init
<1>. DEFINE M == 0 .. Modulus - 1
            start(w) == IF w = 0 /\ WorkKind(w) # "contents" THEN asked.known ELSE 0
            latest(w) == CASE WorkKind(w) = "changes" -> garbage
                           [] WorkKind(w) = "foreign" -> Modulus - 1
                           [] OTHER -> 0
<1>3. work = [w \in Works |-> [NewWork(asked.kind) EXCEPT !.start = start(w),
                                                          !.latest = latest(w)]]
  BY <1>2
<1>4. garbage \in M /\ 0 \in M /\ Modulus - 1 \in M
  BY ActionsAssumption
<1>5. ASSUME NEW w \in Works  PROVE start(w) \in M /\ latest(w) \in M
  <2>1. asked.kind # "clone" => asked.known \in M
    BY <1>1, ActionsAssumption
  <2>2. WorkKind(w) # "contents" <=> asked.kind # "clone"
    BY DEF WorkKind
  <2>. HIDE DEF M
  <2>. QED  BY <1>4, <2>1, <2>2
<1>. HIDE DEF M, start, latest
<1>6. work \in [Works -> WorkRecord]
      /\ \A w \in Works : work[w].state = "new" /\ work[w].waits = 0 /\ work[w].got = {}
  <2>1. ASSUME NEW w \in Works
        PROVE  /\ work[w] \in WorkRecord
               /\ work[w].state = "new" /\ work[w].waits = 0 /\ work[w].got = {}
    <3>1. work[w] = [NewWork(asked.kind) EXCEPT !.start = start(w), !.latest = latest(w)]
      BY <1>3
    <3>2. /\ NewWork(asked.kind) \in WorkRecord /\ NewWork(asked.kind).state = "new"
          /\ NewWork(asked.kind).waits = 0 /\ NewWork(asked.kind).got = {}
      <4>1. 0 \in 0 .. Modulus - 1
        BY <1>4 DEF M
      <4>. QED  BY <4>1 DEF NewWork, WorkRecord, States
    <3>. QED  BY <1>5, <3>1, <3>2 DEF WorkRecord, M
  <2>. QED  BY <1>3, <2>1
<1>7. InState("new") = Works /\ \A s : s # "new" => InState(s) = {}
  BY <1>6 DEF InState
<1>8. Pending = {} /\ Busy = {}
  BY <1>7, BusyStates DEF Pending
<1>9. 0 \in Works /\ <<0>> \in Seq(Works) /\ Once(<<0>>) /\ Range(<<0>>) = {0}
      /\ Once(<<>>) /\ Range(<<>>) = {}
  <2>1. 0 \in Works
    BY <1>1, WorksFinite
  <2>. QED  BY <2>1 DEF Once, Range
<1>10. Types
  <2>1. main \in MainRecord
    <3>1. main.keys \in Seq(Works)
      BY <1>1, <1>9, EmptySeq
    <3>2. 0 \in 0 .. MAX_LOOP_ITERATIONS + 1 /\ 1 \in 1 .. 4
      BY ActionsAssumption
    <3>. QED  BY <1>1, <1>9, <3>1, <3>2 DEF MainRecord
  <2>2. results \in ResultRecord
    BY <1>1, <1>4 DEF ResultRecord, M
  <2>3. work_queue \in Seq(Works) /\ posted \in Seq(Works \cup {CancelAll})
    BY <1>1, EmptySeq
  <2>. QED  BY <1>1, <1>6, <2>1, <2>2, <2>3 DEF Types
<1>11. RequestsOK
  <2>1. \A w : KindsOf(w, requests) = {}
    BY <1>1 DEF KindsOf
  <2>2. Cardinality({}) = 0
    BY FS_EmptySet
  <2>. QED  BY <1>1, <1>6, <1>7, <2>1, <2>2 DEF RequestsOK, OneOfEach
<1>12. Lists
  <2>1. Cardinality({}) = 0 /\ limit \in Nat
    BY <1>1, FS_EmptySet, ActionsAssumption
  <2>2. InState("running") = {} /\ InState("returned") = {}
        /\ InState("queued") = {} /\ InState("posted") = {}
    BY <1>7
  <2>3. Range(work_queue) = {} /\ Range(posted) = {}
    BY <1>1, <1>9
  <2>4. Once(work_queue) /\ Once(posted)
    BY <1>1, <1>9
  <2>5. Cardinality(in_progress) <= limit
    BY <1>1, <2>1
  <2>. QED  BY <1>1, <1>8, <2>2, <2>3, <2>4, <2>5 DEF Lists
<1>13. Keys
  <2>1. \A w \in Works : work[w].got \subseteq Obtainable(w)
    BY <1>6
  <2>2. CASE asked.kind = "clone"
    <3>1. main.keys = <<0>>
      BY <1>1, <2>2
    <3>2. ASSUME NEW w \in Works, NEW n \in DOMAIN asked.subfolders[w],
                 NEW v \in asked.subfolders[w][n]
          PROVE  v \in InState("new") \ Range(main.keys)
      <4>1. IsTree(asked.subfolders) /\ Works = DOMAIN asked.subfolders
        BY <1>1, <2>2, ActionsAssumption DEF Works
      <4>2. asked.subfolders[w] \in Seq(SUBSET (Works \ {0}))
        BY <4>1 DEF IsTree
      <4>3. asked.subfolders[w][n] \in SUBSET (Works \ {0})
        BY <4>2, ElementOfSeq, LenProperties
      <4>. QED  BY <1>7, <1>9, <3>1, <4>3
    <3>. QED  BY <1>7, <1>9, <2>1, <2>2, <3>1, <3>2 DEF Keys
  <2>3. CASE asked.kind # "clone"
    BY <1>1, <1>7, <2>1, <2>3 DEF Keys
  <2>. QED  BY <2>2, <2>3
<1>14. Stack
  <2>1. First
    BY <1>1, <1>7 DEF First
  <2>2. Cardinality({}) = 0
    BY FS_EmptySet
  <2>. QED  BY <1>1, <1>8, <2>1, <2>2 DEF Stack, Owed, MainRuns
<1>15. Room
  BY <1>1 DEF Room
<1>. QED  BY <1>10, <1>11, <1>12, <1>13, <1>14, <1>15 DEF IInv

\* Every step keeps the invariant.
LEMMA NextIInv ==
  ASSUME IInv, [Next]_vars
  PROVE  IInv'
<1>1. CASE Next
  <2>1. \A r \in requests : RequestSent(r) \/ RequestLost(r) => IInv'
    BY RequestMovesKeeps
  <2>2. \A r \in requests, ok \in BOOLEAN : HandleResponse(r, ok) => IInv'
    BY HandleResponseKeeps
  <2>. QED  BY <1>1, <2>1, <2>2, ExecuteWorkKeeps, ManagerCancelKeeps, StartWorkKeeps,
               WorkCompletesKeeps, MakeCallsKeeps, WorkReturnsKeeps, CloneBodyKeeps,
               PollBodyKeeps, StartKeeps, CancelKeeps DEF Next, Io
<1>2. CASE UNCHANGED vars
  <2>1. UNCHANGED <<asked, limit, main, work, running, work_queue, in_progress, posted,
                    requests, results, failed, faults>>
    BY <1>2 DEF vars
  <2>2. /\ Works' = Works /\ Busy' = Busy /\ Pending' = Pending
        /\ \A s : InState(s)' = InState(s)
    BY <2>1 DEF Works, Busy, Pending, InState
  <2>3. Types'
    BY <2>1, <2>2 DEF IInv, Types, MainRecord, RequestRecord
  <2>4. RequestsOK' /\ Keys'
    BY <2>1, <2>2, RequestsKept, KeysKept DEF IInv
  <2>5. Lists' /\ Room'
    BY <2>1, <2>2 DEF IInv, Lists, Room
  <2>6. Stack'
    <3>1. First => First'
      BY <2>1, <2>2 DEF First
    <3>2. Owed' = Owed /\ MainRuns' = MainRuns
      BY <2>1 DEF Owed, MainRuns
    <3>. QED  BY <2>1, <2>2, <3>1, <3>2 DEF IInv, Stack
  <2>. QED  BY <2>3, <2>4, <2>5, <2>6 DEF IInv
<1>. QED  BY <1>1, <1>2

\* Places, yields and lists agree with the states of the works, through errors
\* and cancels (ExecuteWork, Cancel and the handlers of WorkManager).
THEOREM PlacesAndYields == Spec => []IInv
<1>1. Init => IInv
  BY InitIInv
<1>2. IInv /\ [Next]_vars => IInv'
  BY NextIInv
<1>. QED  BY <1>1, <1>2, PTL DEF Spec

\* What the invariant says of a state in which main may have ended.
LEMMA IInvNothingLeft ==
  ASSUME IInv
  PROVE  NothingLeft
<1>1. TypeOK
  <2>1. ASSUME NEW w \in Works
        PROVE  /\ work[w].state \in States
               /\ work[w].start \in 0 .. Modulus - 1
               /\ work[w].latest \in 0 .. Modulus - 1
               /\ work[w].waits = Cardinality({r \in requests : r.of = w})
    <3>1. work[w] \in WorkRecord
      BY DEF IInv, Types
    <3>2. Cardinality(KindsOf(w, requests)) = Cardinality({r \in requests : r.of = w})
      BY CountRequests DEF IInv
    <3>3. work[w].waits = Cardinality(KindsOf(w, requests))
      BY DEF IInv, RequestsOK
    <3>. QED  BY <3>1, <3>2, <3>3 DEF WorkRecord
  <2>2. main \in MainRecord /\ DOMAIN work = Works
    BY DEF IInv, Types
  <2>3. main.pc \in {"new", "body", "execute", "yielded", "ended"} /\ main.yields \in Nat
    BY <2>2 DEF MainRecord
  <2>. QED  BY <2>1, <2>2, <2>3 DEF IInv, Types, TypeOK, States
<1>2. /\ asked \in Asked /\ limit \in Nat \ {0} /\ Busy \in SUBSET Works
      /\ Pending \in SUBSET Works /\ in_progress \in SUBSET Works
  BY ActionsAssumption, BusyStates DEF IInv, Types, Pending
<1>3. WorkLimit
  <2>. SUFFICES ASSUME ~ \E w \in Works : work[w].cancelled
                PROVE  Cardinality(Busy) <= limit
    BY DEF WorkLimit
  <2>1. Busy \in SUBSET in_progress /\ Cardinality(in_progress) <= limit
    BY <1>2 DEF IInv, Lists
  <2>2. /\ Cardinality(Busy) <= Cardinality(in_progress)
        /\ Cardinality(Busy) \in Nat /\ Cardinality(in_progress) \in Nat
    BY <1>2, <2>1, SubsetCount
  <2>. QED  BY <1>2, <2>1, <2>2
<1>4. "resumed" \notin faults
  BY DEF IInv, Types
<1>5. ASSUME main.pc = "ended", limit > 1
      PROVE  (work_queue = <<>> \/ main.keys # <<>>) /\ Busy \subseteq {running}
  <2>1. Cardinality(Pending) = 0
    BY <1>5 DEF IInv, Stack, Owed
  <2>2. Pending = {}
    BY <1>2, <2>1, SubsetCount
  <2>3. Busy \subseteq {running}
    BY <2>2, BusyStates DEF IInv, Lists
  <2>. QED  BY <1>5, <2>3 DEF IInv, Room
<1>. QED  BY <1>1, <1>3, <1>4, <1>5 DEF NothingLeft

\* No more work runs than max_concurrent_work_ allows, main is never resumed
\* where it does not wait, and with more than one place its callback comes when
\* no work is left.
THEOREM NothingIsLeft == Spec => []NothingLeft
<1>1. IInv => NothingLeft
  BY IInvNothingLeft
<1>. QED  BY <1>1, PlacesAndYields, PTL

-----------------------------------------------------------------------------
(* What the works bring and main is told *)

\* The works that have called their callback.
Over == InState("returned") \cup InState("done")

\* What is asked of the server at the moment.
Asks(w, k, n) == \E r \in requests : r.of = w /\ r.kind = k /\ r.arg = n

\* Only a cancel drops or cancels works.
CancelNoted ==
    main.cancelled \/ (InState("dropped") = {} /\ \A w \in Works : ~work[w].cancelled)

\* A failure is kept by its work, and main knows it when the work is over.
FailuresKept ==
    /\ \A f \in failed : f[1] \in Works /\ f \in work[f[1]].errors
    /\ \A w \in Works : work[w].errors # {} => w \in Pending \cup Over
    /\ \A w \in Works : \A e \in work[w].errors : e[2] \in KindsFor(w)
    /\ \A w \in Over : \A e \in work[w].errors :
          e \in results.errors \/ (asked.kind = "foreign" /\ e[2] = "info")

\* The changes are there before a work is queued for one of them.
ChangesFirst == asked.kind # "clone" /\ main.phase >= 3 => 0 \in Over

ErrorsInv == CancelNoted /\ FailuresKept /\ ChangesFirst

\* The chunks of one kind that a work has got: without errors, those before the
\* next one, up to the last.
ChunksGot(w, k, next, last) ==
    /\ \A n \in Nat : Asks(w, k, n) => n = next
    /\ w \in Over => work[w].cancelled \/ next = 0
    /\ work[w].errors = {} =>
          /\ next <= last
          /\ \A n \in Nat : <<k, n>> \in work[w].got
                            <=> n \in 1 .. (IF next = 0 THEN last ELSE next - 1)

LastFiles(w) == Most(1, asked.files[w])
LastFolders(w) == Most(1, Len(asked.subfolders[w]))

AllChunks(w) ==
    /\ ChunksGot(w, "files", work[w].files, LastFiles(w))
    /\ ChunksGot(w, "folders", work[w].folders, LastFolders(w))

\* main has what the works over have got, and will queue the folders in it.
ContentsKnown ==
    /\ results.got = UNION {{<<w, x>> : x \in work[w].got} : w \in Over}
    /\ 0 \in InState("new") => 0 \in Range(main.keys)
    /\ \A w \in Over : \A n \in Nat :
          <<"folders", n>> \in work[w].got =>
             Subfolders(w, n) \cap InState("new") \subseteq Range(main.keys)

\* The loop counts the works it queues.
Counted ==
    /\ main.iterations + Cardinality(InState("new")) <= Cardinality(Works)
    /\ main.pc = "ended" =>
          main.keys = <<>> \/ Cardinality(Works) > MAX_LOOP_ITERATIONS + 1

CloneInv == (\A w \in Works : AllChunks(w)) /\ ContentsKnown /\ Counted

\* The pages the first work of a poll has got: without errors, the changes after
\* the revision that was known, up to the one it asks from next.
PagesGot ==
    LET w == work[0]
    IN  /\ \A n \in Nat : Asks(0, "changes", n) =>
              n = w.start /\ (w.errors = {} => n + 1 + Page < Modulus)
        /\ w.errors = {} =>
              /\ w.start >= asked.known
              /\ \A v \in 1 .. Latest : v \in w.got <=> asked.known < v /\ v <= w.start
              /\ asked.kind = "poll" =>
                    w.first \/ w.latest = Latest \/ \E n \in Nat : Asks(0, "status", n)
              /\ asked.kind = "foreign" =>
                    w.latest = Latest \/ (w.latest = Modulus - 1 /\ w.start = asked.known)
        /\ 0 \in Over =>
              /\ w.cancelled \/ w.start >= w.latest
              /\ asked.kind = "poll" => ~w.first

\* The info that a later work of a poll has got.
InfoGot(w) ==
    /\ ~work[w].first =>
          \/ work[w].errors # {} \/ work[w].got = {w}
          \/ \E k \in RequestKinds, n \in Nat : Asks(w, k, n)
    /\ w \in Over => ~work[w].first

\* main has the changes when the first work is over, and has queued a work for
\* each file when it goes on to the folders, and then one for each folder.
ChangesKnown ==
    /\ 0 \notin Over => results.got = {} /\ results.info = <<>> /\ results.errors = {}
    /\ 0 \in Over =>
          /\ results.got = {v \in work[0].got : asked.changed[v] # "trash"}
          /\ asked.kind = "poll" => results.revision = work[0].latest
    /\ \A w \in Works \ {0} : w \notin InState("new") =>
          w \in results.got /\ asked.changed[w] \in {"file", "folder"}
    /\ main.phase >= 3 => Of("file") \cap InState("new") = {}
    /\ main.phase = 4 => Of("folder") \cap InState("new") = {}
    /\ main.pc = "ended" => main.phase = 4

\* One info for each work that is over.
InfoKnown ==
    /\ asked.kind = "foreign" \/ results.errors = {} =>
          Len(results.info) = Cardinality(Over \ {0})
    /\ asked.kind = "poll" /\ results.errors = {} =>
          Range(results.info) = {{w} : w \in Over \ {0}}

PollInv ==
    /\ PagesGot
    /\ \A w \in Works \ {0} : InfoGot(w)
    /\ ChangesKnown
    /\ InfoKnown

ResultInv ==
    /\ ErrorsInv
    /\ asked.kind = "clone" => CloneInv
    /\ asked.kind # "clone" => PollInv

\* The revisions of a poll do not come round.
RevisionsFit ==
    \A a \in Asked : a.kind # "clone" =>
        Len(a.changed) + Page < Modulus /\ a.known + 1 + Page < Modulus

\* A step in which nothing fails: no work is over that was not, and no error is
\* noted.
NothingFails ==
    /\ UNCHANGED <<asked, results, failed>>
    /\ main.cancelled => main'.cancelled
    /\ Over' = Over /\ Pending \cup Over \subseteq Pending' \cup Over'
    /\ InState("dropped")' = InState("dropped") \/ main'.cancelled
    /\ \A w \in Works :
          /\ work'[w].errors = work[w].errors
          /\ work'[w].cancelled = work[w].cancelled
             \/ (main'.cancelled /\ work'[w].cancelled)

\* A step in which no work asks or gets an answer.
WorksWait ==
    /\ NothingFails
    /\ \A w, k, n : Asks(w, k, n)' <=> Asks(w, k, n)
    /\ \A w \in Works :
          /\ work'[w].first = work[w].first
          /\ work'[w].files = work[w].files /\ work'[w].folders = work[w].folders
          /\ work'[w].start = work[w].start /\ work'[w].latest = work[w].latest
          /\ work'[w].got = work[w].got

\* A step in which main does not go on and no work that is over changes.
MainWaits ==
    /\ UNCHANGED <<asked, results>>
    /\ main'.phase = main.phase /\ main'.keys = main.keys
    /\ main'.iterations = main.iterations
    /\ main'.pc = "ended" => main.pc = "ended"
    /\ InState("new")' = InState("new") /\ Over' = Over
    /\ \A w \in Over : work'[w].got = work[w].got /\ work'[w].latest = work[w].latest

AllWait == WorksWait /\ MainWaits

\* The works that are over are works.
LEMMA OverWorks == Over \subseteq Works
BY DEF Over, InState

\* A step in which nothing fails keeps what is known of failures and cancels.
LEMMA NothingFailsKeeps ==
  ASSUME CancelNoted, FailuresKept, NothingFails
  PROVE  CancelNoted' /\ FailuresKept'
<1>1. asked' = asked /\ Works' = Works /\ Over \subseteq Works
  BY DEF NothingFails, Works, Over, InState
<1>2. CancelNoted'
  BY <1>1 DEF CancelNoted, NothingFails
<1>3. \A w : KindsFor(w)' = KindsFor(w)
  BY <1>1 DEF KindsFor, WorkKind
<1>4. \A f \in failed' : f[1] \in Works' /\ f \in work'[f[1]].errors
  BY <1>1 DEF FailuresKept, NothingFails
<1>5. \A w \in Works' : work'[w].errors # {} => w \in Pending' \cup Over'
  BY <1>1 DEF FailuresKept, NothingFails
<1>6. \A w \in Works' : \A e \in work'[w].errors : e[2] \in KindsFor(w)'
  BY <1>1, <1>3 DEF FailuresKept, NothingFails
<1>7. \A w \in Over' : \A e \in work'[w].errors :
          e \in results'.errors \/ (asked'.kind = "foreign" /\ e[2] = "info")
  BY <1>1 DEF FailuresKept, NothingFails
<1>. QED  BY <1>2, <1>4, <1>5, <1>6, <1>7 DEF FailuresKept

\* What the works have got stays what it was.
LEMMA WorksWaitKeeps ==
  ASSUME Types, WorksWait
  PROVE  /\ \A w \in Works : AllChunks(w) => AllChunks(w)'
         /\ PagesGot => PagesGot'
         /\ \A w \in Works : InfoGot(w) => InfoGot(w)'
         /\ InfoKnown => InfoKnown'
<1>1. asked' = asked /\ Works' = Works /\ Latest' = Latest
  BY DEF WorksWait, NothingFails, Works, Latest
<1>2. /\ Over' = Over /\ results' = results
      /\ \A w, k, n : Asks(w, k, n)' <=> Asks(w, k, n)
      /\ \A w \in Works :
          /\ work'[w].first = work[w].first
          /\ work'[w].files = work[w].files /\ work'[w].folders = work[w].folders
          /\ work'[w].start = work[w].start /\ work'[w].latest = work[w].latest
          /\ work'[w].got = work[w].got /\ work'[w].errors = work[w].errors
          /\ work[w].cancelled => work'[w].cancelled
  BY DEF WorksWait, NothingFails
<1>3. ASSUME NEW w \in Works, AllChunks(w)  PROVE AllChunks(w)'
  <2>1. /\ LastFiles(w)' = LastFiles(w) /\ LastFolders(w)' = LastFolders(w)
        /\ work'[w].files = work[w].files /\ work'[w].folders = work[w].folders
    BY <1>1, <1>2 DEF LastFiles, LastFolders
  <2>2. ASSUME NEW k, NEW next, NEW last, ChunksGot(w, k, next, last)
        PROVE  /\ \A n \in Nat : Asks(w, k, n)' => n = next
               /\ w \in Over' => work'[w].cancelled \/ next = 0
               /\ work'[w].errors = {} =>
                    /\ next <= last
                    /\ \A n \in Nat : <<k, n>> \in work'[w].got
                          <=> n \in 1 .. (IF next = 0 THEN last ELSE next - 1)
    BY <1>2, <2>2 DEF ChunksGot
  <2>3. /\ ChunksGot(w, "files", work[w].files, LastFiles(w))
        /\ ChunksGot(w, "folders", work[w].folders, LastFolders(w))
    BY <1>3 DEF AllChunks
  <2>4. ChunksGot(w, "files", work[w].files, LastFiles(w))'
    BY <2>1, <2>2, <2>3 DEF ChunksGot
  <2>5. ChunksGot(w, "folders", work[w].folders, LastFolders(w))'
    BY <2>1, <2>2, <2>3 DEF ChunksGot
  <2>. QED  BY <2>4, <2>5 DEF AllChunks
<1>4. ASSUME PagesGot  PROVE PagesGot'
  <2>1. 0 \in Works
    BY WorksFinite DEF Types
  <2>. QED  BY <1>1, <1>2, <1>4, <2>1 DEF PagesGot
<1>5. ASSUME NEW w \in Works, InfoGot(w)  PROVE InfoGot(w)'
  BY <1>1, <1>2, <1>5 DEF InfoGot
<1>6. ASSUME InfoKnown  PROVE InfoKnown'
  BY <1>1, <1>2, <1>6 DEF InfoKnown
<1>. QED  BY <1>3, <1>4, <1>5, <1>6

\* What main knows stays what it was.
LEMMA MainWaitsKeeps ==
  ASSUME MainWaits
  PROVE  /\ ChangesFirst => ChangesFirst'
         /\ ContentsKnown => ContentsKnown'
         /\ Counted => Counted'
         /\ ChangesKnown => ChangesKnown'
         /\ InfoKnown => InfoKnown'
<1>1. /\ asked' = asked /\ Works' = Works
      /\ Over' = Over /\ InState("new")' = InState("new")
      /\ results' = results /\ main'.phase = main.phase /\ main'.keys = main.keys
      /\ main'.iterations = main.iterations
      /\ main'.pc = "ended" => main.pc = "ended"
      /\ \A w \in Over : work'[w].got = work[w].got /\ work'[w].latest = work[w].latest
  BY DEF MainWaits, Works
<1>2. ASSUME ContentsKnown  PROVE ContentsKnown'
  <2>1. \A w, n : Subfolders(w, n)' = Subfolders(w, n)
    BY <1>1 DEF Subfolders
  <2>2. results'.got = UNION {{<<w, x>> : x \in work'[w].got} : w \in Over'}
    BY <1>1, <1>2 DEF ContentsKnown
  <2>3. 0 \in InState("new")' => 0 \in Range(main'.keys)
    BY <1>1, <1>2 DEF ContentsKnown
  <2>4. \A w \in Over' : \A n \in Nat :
          <<"folders", n>> \in work'[w].got =>
           Subfolders(w, n)' \cap InState("new")' \subseteq Range(main'.keys)
    BY <1>1, <1>2, <2>1 DEF ContentsKnown
  <2>. QED  BY <2>2, <2>3, <2>4 DEF ContentsKnown
<1>3. ASSUME ChangesKnown  PROVE ChangesKnown'
  <2>1. \A c : Of(c)' = Of(c)
    BY <1>1 DEF Of
  <2>. QED  BY <1>1, <1>3, <2>1 DEF ChangesKnown
<1>. QED  BY <1>1, <1>2, <1>3 DEF ChangesFirst, Counted, InfoKnown

\* A step in which works and main wait keeps what the works bring.
LEMMA AllWaitKeeps ==
  ASSUME Types, ResultInv, AllWait
  PROVE  ResultInv'
<1>1. asked' = asked /\ Works' = Works /\ WorksWait /\ MainWaits /\ NothingFails
  BY DEF AllWait, WorksWait, MainWaits, Works
<1>2. ErrorsInv'
  BY <1>1, NothingFailsKeeps, MainWaitsKeeps DEF ResultInv, ErrorsInv
<1>3. asked.kind = "clone" => CloneInv'
  BY <1>1, WorksWaitKeeps, MainWaitsKeeps DEF ResultInv, CloneInv
<1>4. asked.kind # "clone" => PollInv'
  BY <1>1, WorksWaitKeeps, MainWaitsKeeps DEF ResultInv, PollInv
<1>. QED  BY <1>1, <1>2, <1>3, <1>4 DEF ResultInv

\* What is asked stays the same when requests only change their state.
LEMMA SameAsked ==
  ASSUME UNCHANGED requests
  PROVE  \A w, k, n : Asks(w, k, n)' <=> Asks(w, k, n)
BY DEF Asks

\* The start of the action asks for nothing.
LEMMA StartWaits ==
  ASSUME IInv, Start
  PROVE  AllWait
<1>1. /\ UNCHANGED <<asked, results, failed, work, requests>>
      /\ main' = [main EXCEPT !.pc = "body"] /\ main \in MainRecord
  BY DEF IInv, Types, Start
<1>2. /\ main'.phase = main.phase /\ main'.keys = main.keys
      /\ main'.iterations = main.iterations /\ main'.pc = "body"
      /\ main'.cancelled = main.cancelled
  BY <1>1 DEF MainRecord
<1>3. \A s : InState(s)' = InState(s)
  BY <1>1 DEF InState, Works
<1>. QED  BY <1>1, <1>2, <1>3, SameAsked DEF AllWait, WorksWait, NothingFails, MainWaits, Over, Pending

\* A cancel of the action only notes that it was cancelled.
LEMMA CancelWaits ==
  ASSUME IInv, Cancel
  PROVE  AllWait
<1>1. /\ UNCHANGED <<asked, results, failed, work, requests>>
      /\ main' = [main EXCEPT !.cancelled = TRUE] /\ main \in MainRecord
  BY DEF IInv, Types, Cancel
<1>2. /\ main'.phase = main.phase /\ main'.keys = main.keys
      /\ main'.iterations = main.iterations /\ main'.pc = main.pc
      /\ main'.cancelled
  BY <1>1 DEF MainRecord
<1>3. \A s : InState(s)' = InState(s)
  BY <1>1 DEF InState, Works
<1>. QED  BY <1>1, <1>2, <1>3, SameAsked DEF AllWait, WorksWait, NothingFails, MainWaits, Over, Pending

\* Only the state of one work changes.
LEMMA OneStateMembers ==
  ASSUME NEW to \in States, NEW w \in Works,
         work \in [Works -> WorkRecord], work' = [work EXCEPT ![w].state = to]
  PROVE  \A v \in Works :
            /\ work'[v].first = work[v].first
            /\ work'[v].files = work[v].files /\ work'[v].folders = work[v].folders
            /\ work'[v].start = work[v].start /\ work'[v].latest = work[v].latest
            /\ work'[v].got = work[v].got /\ work'[v].errors = work[v].errors
            /\ work'[v].cancelled = work[v].cancelled
<1>. TAKE v \in Works
<1>1. CASE v = w
  <2>1. work[w] \in WorkRecord /\ work'[w] = [work[w] EXCEPT !.state = to]
    OBVIOUS
  <2>. QED  BY <1>1, <2>1 DEF WorkRecord
<1>2. CASE v # w
  <2>1. work'[v] = work[v]
    BY <1>2
  <2>. QED  BY <2>1
<1>. QED  BY <1>1, <1>2

\* A work that is started asks for nothing yet.
LEMMA StartWorkWaits ==
  ASSUME IInv, StartWork
  PROVE  AllWait
<1>. DEFINE w == Head(posted)
<1>1. /\ UNCHANGED <<asked, results, failed, main, requests>>
      /\ work' = [work EXCEPT ![w].state = "running"]
      /\ work \in [Works -> WorkRecord]
      /\ posted # <<>> /\ w # CancelAll
  BY DEF IInv, Types, StartWork
<1>2. w \in InState("posted")
  <2>1. posted \in Seq(Works \cup {CancelAll}) /\ Once(posted)
        /\ Range(posted) \ {CancelAll} = InState("posted")
    BY DEF IInv, Types, Lists
  <2>. QED  BY <1>1, <2>1, OnceTail
<1>. HIDE DEF w
<1>3. w \in Works /\ "running" \in States /\ "posted" \in States
  BY <1>2 DEF InState, States
<1>4. /\ InState("posted")' = InState("posted") \ {w}
      /\ InState("running")' = InState("running") \cup {w}
      /\ \A s \in States \ {"posted", "running"} : InState(s)' = InState(s)
  BY <1>1, <1>2, <1>3, StateMoves
<1>5. /\ InState("new")' = InState("new") /\ InState("dropped")' = InState("dropped")
      /\ InState("returned")' = InState("returned") /\ InState("done")' = InState("done")
      /\ InState("suspended")' = InState("suspended")
  BY <1>4 DEF States
<1>6. Over' = Over /\ Pending \subseteq Pending'
  BY <1>4, <1>5 DEF Over, Pending
<1>. QED  BY <1>1, <1>3, <1>5, <1>6, OneStateMembers, SameAsked DEF AllWait, WorksWait, NothingFails, MainWaits

\* A work that completes was over before.
LEMMA WorkCompletesWaits ==
  ASSUME IInv, WorkCompletes
  PROVE  AllWait
<1>1. /\ UNCHANGED <<asked, results, failed, main, requests>>
      /\ work' = [work EXCEPT ![running].state = "done"]
      /\ work \in [Works -> WorkRecord]
      /\ running \in InState("returned")
  BY DEF IInv, Types, WorkCompletes, InState
<1>3. running \in Works /\ "returned" \in States /\ "done" \in States
  BY <1>1 DEF InState, States
<1>4. /\ InState("returned")' = InState("returned") \ {running}
      /\ InState("done")' = InState("done") \cup {running}
      /\ \A s \in States \ {"returned", "done"} : InState(s)' = InState(s)
  BY <1>1, <1>3, StateMoves
<1>5. /\ InState("new")' = InState("new") /\ InState("dropped")' = InState("dropped")
      /\ InState("running")' = InState("running") /\ InState("posted")' = InState("posted")
      /\ InState("suspended")' = InState("suspended")
  BY <1>4 DEF States
<1>6. Over' = Over /\ Pending' = Pending
  BY <1>1, <1>4, <1>5 DEF Over, Pending
<1>. QED  BY <1>1, <1>3, <1>5, <1>6, OneStateMembers, SameAsked DEF AllWait, WorksWait, NothingFails, MainWaits

\* Requests that are cancelled, or whose state changes otherwise, are still the
\* requests that are under way.
LEMMA CancelRequestsAsked ==
  ASSUME NEW works, NEW rs \in SUBSET RequestRecord, CancelRequests(works, rs)
  PROVE  \A w, k, n : Asks(w, k, n)' <=>
            \E r \in rs : r.of = w /\ r.kind = k /\ r.arg = n
<1>. DEFINE f(r) == IF r.of \in works /\ r.state = "sent"
                    THEN [r EXCEPT !.state = "cancelled"] ELSE r
<1>1. requests' = {f(r) : r \in rs}
  BY DEF CancelRequests
<1>2. \A r \in rs : f(r).of = r.of /\ f(r).kind = r.kind /\ f(r).arg = r.arg
  BY DEF RequestRecord
<1>. HIDE DEF f
<1>. QED  BY <1>1, <1>2 DEF Asks

\* The handler of the cancel drops works and cancels works, and fails none.
LEMMA ManagerCancelWaits ==
  ASSUME IInv, ManagerCancel
  PROVE  AllWait
<1>1. /\ UNCHANGED <<asked, results, failed, main>>
      /\ work' = [w \in Works |->
                  IF w \in Range(work_queue)
                  THEN [work[w] EXCEPT !.cancelled = TRUE, !.state = "dropped"]
                  ELSE [work[w] EXCEPT !.cancelled = @ \/ w \in in_progress]]
      /\ CancelRequests(in_progress, requests)
      /\ posted # <<>> /\ Head(posted) = CancelAll
      /\ work \in [Works -> WorkRecord] /\ requests \in SUBSET RequestRecord
  BY DEF IInv, Types, ManagerCancel
<1>2. main.cancelled
  <2>1. posted \in Seq(Works \cup {CancelAll}) /\ Once(posted)
        /\ (CancelAll \in Range(posted) => main.cancelled)
    BY DEF IInv, Types, Lists
  <2>. QED  BY <1>1, <2>1, OnceTail
<1>3. /\ Works' = Works
      /\ \A w \in Works :
            work'[w] = IF w \in Range(work_queue)
                       THEN [work[w] EXCEPT !.cancelled = TRUE, !.state = "dropped"]
                       ELSE [work[w] EXCEPT !.cancelled = @ \/ w \in in_progress]
  BY <1>1 DEF Works
<1>4. \A w \in Works :
          /\ work'[w].state = IF w \in Range(work_queue) THEN "dropped" ELSE work[w].state
          /\ work'[w].first = work[w].first
          /\ work'[w].files = work[w].files /\ work'[w].folders = work[w].folders
          /\ work'[w].start = work[w].start /\ work'[w].latest = work[w].latest
          /\ work'[w].got = work[w].got /\ work'[w].errors = work[w].errors
  <2>. TAKE w \in Works
  <2>1. work[w] \in WorkRecord
    BY <1>1
  <2>2. CASE w \in Range(work_queue)
    BY <1>3, <2>1, <2>2 DEF WorkRecord
  <2>3. CASE w \notin Range(work_queue)
    BY <1>3, <2>1, <2>3 DEF WorkRecord
  <2>. QED  BY <2>2, <2>3
<1>5. \A w \in Works : work'[w].cancelled = work[w].cancelled
                       \/ (main'.cancelled /\ work'[w].cancelled)
  <2>. TAKE w \in Works
  <2>1. work[w] \in WorkRecord
    BY <1>1
  <2>2. CASE w \in Range(work_queue)
    BY <1>1, <1>2, <1>3, <2>1, <2>2 DEF WorkRecord
  <2>3. CASE w \notin Range(work_queue)
    <3>1. work'[w].cancelled = (work[w].cancelled \/ w \in in_progress)
          /\ work[w].cancelled \in BOOLEAN
      BY <1>3, <2>1, <2>3 DEF WorkRecord
    <3>. QED  BY <1>1, <1>2, <3>1
  <2>. QED  BY <2>2, <2>3
<1>6. \A s : s \notin {"queued", "dropped"} => InState(s)' = InState(s)
  <2>1. Range(work_queue) = InState("queued")
    BY DEF IInv, Lists
  <2>. QED  BY <1>3, <1>4, <2>1 DEF InState
<1>7. /\ InState("new")' = InState("new") /\ Over' = Over /\ Pending' = Pending
  BY <1>6 DEF Over, Pending
<1>8. \A w, k, n : Asks(w, k, n)' <=> Asks(w, k, n)
  <2>1. \A w, k, n : Asks(w, k, n)' <=>
           \E r \in requests : r.of = w /\ r.kind = k /\ r.arg = n
    <3>1. requests \in SUBSET RequestRecord /\ CancelRequests(in_progress, requests)
      BY <1>1
    <3>. QED  BY <3>1, CancelRequestsAsked
  <2>. QED  BY <2>1 DEF Asks
<1>. QED  BY <1>1, <1>2, <1>4, <1>5, <1>7, <1>8, OverWorks DEF AllWait, WorksWait, NothingFails, MainWaits

\* A request that is sent or lost was asked before.
LEMMA RequestMovesWaits ==
  ASSUME IInv, NEW r \in requests, RequestSent(r) \/ RequestLost(r)
  PROVE  AllWait
<1>1. PICK state \in {"sent", "lost"} :
      /\ UNCHANGED <<asked, results, failed, work, main>>
      /\ requests' = (requests \ {r}) \cup {[r EXCEPT !.state = state]}
      /\ r \in RequestRecord
  BY DEF IInv, Types, RequestSent, RequestLost
<1>. DEFINE q == [r EXCEPT !.state = state]
<1>2. q.of = r.of /\ q.kind = r.kind /\ q.arg = r.arg
  BY <1>1 DEF RequestRecord
<1>. HIDE DEF q
<1>3. \A w, k, n : Asks(w, k, n)' <=> Asks(w, k, n)
  <2>1. /\ requests' = (requests \ {r}) \cup {q} /\ r \in requests
        /\ q.of = r.of /\ q.kind = r.kind /\ q.arg = r.arg
    BY <1>1, <1>2 DEF q
  <2>. QED  BY <2>1 DEF Asks
<1>4. \A s : InState(s)' = InState(s)
  BY <1>1 DEF InState, Works
<1>. QED  BY <1>1, <1>3, <1>4 DEF AllWait, WorksWait, NothingFails, MainWaits, Over, Pending

\* main posts works, which wait.
LEMMA ExecuteWorkWaits ==
  ASSUME IInv, ExecuteWork
  PROVE  AllWait
<1>. DEFINE room == Most(0, limit - Cardinality(in_progress))
            next == SubSeq(work_queue, 1, Least(room, Len(work_queue)))
            S == Range(next)
<1>1. /\ UNCHANGED <<asked, results, failed, requests>>
      /\ work' = [w \in Works |-> IF w \in S
                                  THEN [work[w] EXCEPT !.state = "posted"] ELSE work[w]]
      /\ work \in [Works -> WorkRecord] /\ main \in MainRecord
  BY DEF IInv, Types, ExecuteWork
<1>2. \E y \in {main.yields + Len(next)} :
        main' = [main EXCEPT !.yields = Most(0, y - 1), !.more = next # <<>>,
                             !.pc = IF y > 0 THEN "yielded" ELSE "body"]
  BY DEF ExecuteWork
<1>3. /\ main'.phase = main.phase /\ main'.keys = main.keys
      /\ main'.iterations = main.iterations /\ main'.pc # "ended"
      /\ main'.cancelled = main.cancelled
  BY <1>1, <1>2 DEF MainRecord
<1>4. S \subseteq InState("queued")
  <2>1. /\ asked \in Asked /\ limit \in Nat /\ work_queue \in Seq(Works)
        /\ Once(work_queue) /\ Range(work_queue) = InState("queued")
        /\ in_progress \in SUBSET Works
    BY ActionsAssumption DEF IInv, Types, Lists
  <2>2. Cardinality(in_progress) \in Nat /\ CancelAll \notin Works /\ Len(work_queue) \in Nat
    BY <2>1, WorksFinite, SubsetCount, LenProperties
  <2>3. room \in Nat
    BY <2>1, <2>2 DEF Most
  <2>. HIDE DEF room
  <2>4. Least(room, Len(work_queue)) \in 0 .. Len(work_queue)
    BY <2>2, <2>3, ExecuteNumbers
  <2>. QED  BY <2>1, <2>2, <2>4, OnceSplit
<1>. HIDE DEF S
<1>5. /\ Works' = Works
      /\ \A w \in Works : work'[w] = IF w \in S THEN [work[w] EXCEPT !.state = "posted"]
                                     ELSE work[w]
  BY <1>1 DEF Works
<1>6. \A w \in Works :
          /\ work'[w].state = IF w \in S THEN "posted" ELSE work[w].state
          /\ work'[w].first = work[w].first
          /\ work'[w].files = work[w].files /\ work'[w].folders = work[w].folders
          /\ work'[w].start = work[w].start /\ work'[w].latest = work[w].latest
          /\ work'[w].got = work[w].got /\ work'[w].errors = work[w].errors
          /\ work'[w].cancelled = work[w].cancelled
  BY <1>1, <1>5 DEF WorkRecord
<1>7. \A s : s \notin {"queued", "posted"} => InState(s)' = InState(s)
  BY <1>4, <1>5, <1>6 DEF InState
<1>8. InState("posted") \subseteq InState("posted")'
  BY <1>5, <1>6 DEF InState
<1>9. /\ InState("new")' = InState("new") /\ InState("dropped")' = InState("dropped")
      /\ Over' = Over /\ Pending \subseteq Pending'
  BY <1>7, <1>8 DEF Over, Pending
<1>. QED  BY <1>1, <1>3, <1>6, <1>9, SameAsked, OverWorks DEF AllWait, WorksWait, NothingFails, MainWaits

\* main queues new works.
LEMMA QueueWaits ==
  ASSUME IInv, NEW works \in Seq(InState("new")), QueueWork(works),
         UNCHANGED <<asked, requests, results, failed>>, main'.cancelled = main.cancelled
  PROVE  /\ WorksWait
         /\ InState("new")' = InState("new") \ Range(works)
<1>. DEFINE S == Range(works)
<1>1. /\ Works' = Works /\ work \in [Works -> WorkRecord]
      /\ \A w \in Works : work'[w] = IF w \in S THEN [work[w] EXCEPT !.state = "queued"]
                                     ELSE work[w]
  BY DEF QueueWork, IInv, Types, Works
<1>2. S \subseteq InState("new")
  <2>1. /\ DOMAIN works = 1 .. Len(works)
        /\ \A i \in 1 .. Len(works) : works[i] \in InState("new")
    BY LenProperties, ElementOfSeq
  <2>. QED  BY <2>1 DEF Range
<1>. HIDE DEF S
<1>3. \A w \in Works :
          /\ work'[w].state = IF w \in S THEN "queued" ELSE work[w].state
          /\ work'[w].first = work[w].first
          /\ work'[w].files = work[w].files /\ work'[w].folders = work[w].folders
          /\ work'[w].start = work[w].start /\ work'[w].latest = work[w].latest
          /\ work'[w].got = work[w].got /\ work'[w].errors = work[w].errors
          /\ work'[w].cancelled = work[w].cancelled
  BY <1>1 DEF WorkRecord
<1>4. \A s : s \notin {"new", "queued"} => InState(s)' = InState(s)
  BY <1>1, <1>2, <1>3 DEF InState
<1>5. InState("new")' = InState("new") \ S
  BY <1>1, <1>3 DEF InState
<1>6. Over' = Over /\ Pending' = Pending /\ InState("dropped")' = InState("dropped")
  BY <1>4 DEF Over, Pending
<1>. QED  BY <1>3, <1>5, <1>6, SameAsked DEF WorksWait, NothingFails, S

\* main ends.
LEMMA EndWaits ==
  ASSUME IInv, main' = [main EXCEPT !.pc = "ended"],
         UNCHANGED <<asked, work, requests, results, failed>>
  PROVE  /\ WorksWait /\ InState("new")' = InState("new")
         /\ main'.phase = main.phase /\ main'.keys = main.keys
         /\ main'.iterations = main.iterations /\ main'.pc = "ended"
<1>1. main \in MainRecord
  BY DEF IInv, Types
<1>2. /\ main'.phase = main.phase /\ main'.keys = main.keys
      /\ main'.iterations = main.iterations /\ main'.pc = "ended"
      /\ main'.cancelled = main.cancelled
  BY <1>1 DEF MainRecord
<1>3. \A s : InState(s)' = InState(s)
  BY DEF InState, Works
<1>. QED  BY <1>2, <1>3, SameAsked DEF WorksWait, NothingFails, Over, Pending

\* What main knows of a tree does not change when it queues works.
LEMMA ContentsKept ==
  ASSUME Types, ContentsKnown, WorksWait, NEW S,
         InState("new")' = InState("new") \ S, Range(main.keys) \ S \subseteq Range(main'.keys)
  PROVE  ContentsKnown'
<1>1. /\ \A w, n : Subfolders(w, n)' = Subfolders(w, n)
      /\ results' = results /\ Over' = Over
      /\ \A w \in Over : work'[w].got = work[w].got
  BY DEF WorksWait, NothingFails, Subfolders, Over, InState
<1>2. results'.got = UNION {{<<w, x>> : x \in work'[w].got} : w \in Over'}
  BY <1>1 DEF ContentsKnown
<1>3. 0 \in InState("new")' => 0 \in Range(main'.keys)
  BY <1>1 DEF ContentsKnown
<1>4. ASSUME NEW w \in Over, NEW n \in Nat, <<"folders", n>> \in work'[w].got
      PROVE  Subfolders(w, n)' \cap InState("new")' \subseteq Range(main'.keys)
  <2>1. Subfolders(w, n) \cap InState("new") \subseteq Range(main.keys)
    BY <1>1, <1>4 DEF ContentsKnown
  <2>. QED  BY <1>1, <2>1
<1>. QED  BY <1>1, <1>2, <1>3, <1>4 DEF ContentsKnown

\* Nothing fails while a clone queues works or ends.
LEMMA CloneBodyErrors ==
  ASSUME IInv, ErrorsInv, CloneBody
  PROVE  ErrorsInv' /\ WorksWait
<1>. DEFINE n == Least(MAX_LOOP_ITERATIONS + 1 - main.iterations, Len(main.keys))
            now == SubSeq(main.keys, 1, n)
            rest == SubSeq(main.keys, Len(now) + 1, Len(main.keys))
<1>1. /\ main.pc = "body" /\ asked.kind = "clone"
      /\ UNCHANGED <<asked, limit, running, in_progress, requests, results, failed, faults>>
      /\ IF now = <<>>
         THEN main' = [main EXCEPT !.pc = "ended"] /\ UNCHANGED <<work, work_queue, posted>>
         ELSE /\ QueueWork(now)
              /\ main' = [main EXCEPT !.keys = rest, !.iterations = @ + Len(now),
                                      !.pc = IF now = main.keys THEN "execute" ELSE "ended"]
  BY DEF CloneBody
<1>2. main \in MainRecord /\ main.keys \in Seq(Works) /\ Range(main.keys) \subseteq InState("new")
  BY <1>1 DEF IInv, Types, Keys, MainRecord
<1>3. main.keys \in Seq(InState("new")) /\ Len(main.keys) \in Nat
  BY <1>2, SeqOfRange, SeqMonotonic, LenProperties
<1>4. n \in 0 .. Len(main.keys)
  <2>1. main.iterations \in 0 .. MAX_LOOP_ITERATIONS + 1 /\ MAX_LOOP_ITERATIONS \in Nat
    BY <1>2, ActionsAssumption DEF MainRecord
  <2>. QED  BY <1>3, <2>1 DEF Least
<1>. HIDE DEF n
<1>5. now \in Seq(InState("new"))
  <2>1. n \in Nat /\ n <= Len(main.keys)
    BY <1>3, <1>4
  <2>. QED  BY <1>3, <2>1, SubSeqProperties
<1>. HIDE DEF now, rest
<1>6. WorksWait
  <2>1. CASE now = <<>>
    BY <1>1, <2>1, EndWaits
  <2>2. CASE now # <<>>
    <3>1. main'.cancelled = main.cancelled
      BY <1>1, <1>2, <2>2 DEF MainRecord
    <3>. QED  BY <1>1, <1>5, <2>2, <3>1, QueueWaits
  <2>. QED  BY <2>1, <2>2
<1>. QED  BY <1>1, <1>6, NothingFailsKeeps DEF WorksWait, ErrorsInv, ChangesFirst

\* A clone that queues works still knows of every folder that is left, and it ends
\* with none left or at the limit of its loop.
LEMMA CloneBodyResult ==
  ASSUME IInv, ResultInv, CloneBody
  PROVE  ResultInv'
<1>. DEFINE room == MAX_LOOP_ITERATIONS + 1 - main.iterations
            n == Least(room, Len(main.keys))
            now == SubSeq(main.keys, 1, n)
            rest == SubSeq(main.keys, Len(now) + 1, Len(main.keys))
            new == InState("new")
<1>1. /\ main.pc = "body" /\ asked.kind = "clone"
      /\ UNCHANGED <<asked, limit, running, in_progress, requests, results, failed, faults>>
  BY DEF CloneBody
<1>2. IF now = <<>>
      THEN main' = [main EXCEPT !.pc = "ended"] /\ UNCHANGED <<work, work_queue, posted>>
      ELSE /\ QueueWork(now)
           /\ main' = [main EXCEPT !.keys = rest, !.iterations = @ + Len(now),
                                   !.pc = IF now = main.keys THEN "execute" ELSE "ended"]
  BY DEF CloneBody
<1>3. /\ main \in MainRecord /\ main.keys \in Seq(Works) /\ Once(main.keys)
      /\ Range(main.keys) \subseteq new /\ new \in SUBSET Works
      /\ asked \in Asked /\ CancelAll \notin Works /\ room \in Nat
      /\ Len(main.keys) \in Nat
      /\ main.iterations \in Nat /\ main.iterations + room = MAX_LOOP_ITERATIONS + 1
      /\ MAX_LOOP_ITERATIONS \in Nat
  <2>1. /\ main \in MainRecord /\ asked \in Asked
        /\ Once(main.keys) /\ Range(main.keys) \subseteq InState("new")
    BY <1>1 DEF IInv, Types, Keys
  <2>2. main.keys \in Seq(Works) /\ main.iterations \in 0 .. MAX_LOOP_ITERATIONS + 1
    BY <2>1 DEF MainRecord
  <2>3. MAX_LOOP_ITERATIONS \in Nat
    BY ActionsAssumption
  <2>4. /\ main.iterations \in Nat /\ room \in Nat
        /\ main.iterations + room = MAX_LOOP_ITERATIONS + 1
    BY <2>2, <2>3
  <2>. QED  BY <2>1, <2>2, <2>3, <2>4, WorksFinite, BusyStates, LenProperties
<1>. HIDE DEF room
<1>4. n \in 0 .. Len(main.keys) /\ n \in Nat /\ n <= room
      /\ (n < Len(main.keys) => n = room)
  BY <1>3, ExecuteNumbers
<1>. HIDE DEF n
<1>5. /\ now \in Seq(Works) /\ Len(now) = n /\ Once(now)
      /\ rest \in Seq(Works) /\ Len(rest) = Len(main.keys) - n
      /\ Range(now) \cup Range(rest) = Range(main.keys)
      /\ Range(now) \cap Range(rest) = {}
  <2>1. Len(now) = n
    BY <1>3, <1>4, OnceSplit
  <2>2. rest = SubSeq(main.keys, n + 1, Len(main.keys))
    BY <2>1
  <2>3. /\ CancelAll \notin Works /\ main.keys \in Seq(Works) /\ Once(main.keys)
        /\ n \in 0 .. Len(main.keys)
    BY <1>3, <1>4
  <2>. HIDE DEF rest
  <2>. QED  BY <2>2, <2>3, OnceSplit
<1>6. n = Len(main.keys) => now = main.keys
  BY <1>3, SubSeqFull
<1>. HIDE DEF now, rest
<1>7. /\ Cardinality(new) \in Nat /\ Cardinality(Works) \in Nat
      /\ main.iterations + Cardinality(new) <= Cardinality(Works)
      /\ Cardinality(Range(main.keys)) = Len(main.keys)
      /\ Cardinality(Range(main.keys)) <= Cardinality(new)
      /\ Cardinality(new \ Range(now)) = Cardinality(new) - n
      /\ ErrorsInv /\ ContentsKnown /\ \A w \in Works : AllChunks(w)
  <2>1. Cardinality(new) \in Nat /\ Cardinality(Works) \in Nat
        /\ Cardinality(Range(main.keys)) <= Cardinality(new) /\ IsFiniteSet(new)
    BY <1>3, WorksFinite, SubsetCount, FS_CardinalityType
  <2>2. Cardinality(Range(main.keys)) = Len(main.keys) /\ Cardinality(Range(now)) = n
        /\ IsFiniteSet(Range(now))
    BY <1>3, <1>5, OnceCardinality
  <2>3. Cardinality(new \ Range(now)) = Cardinality(new) - n
    <3>1. new \cap Range(now) = Range(now)
      BY <1>3, <1>5
    <3>2. Cardinality(new \ Range(now)) = Cardinality(new) - Cardinality(new \cap Range(now))
      BY <2>1, FS_Difference
    <3>. QED  BY <2>2, <3>1, <3>2
  <2>. QED  BY <1>1, <2>1, <2>2, <2>3 DEF ResultInv, CloneInv, Counted
<1>8. CASE now = <<>>
  <2>1. /\ WorksWait /\ new' = new
        /\ main'.phase = main.phase /\ main'.keys = main.keys
        /\ main'.iterations = main.iterations /\ main'.pc = "ended"
    BY <1>1, <1>2, <1>8, EndWaits
  <2>2. main.keys = <<>> \/ Cardinality(Works) > MAX_LOOP_ITERATIONS + 1
    <3>. SUFFICES ASSUME main.keys # <<>>  PROVE Cardinality(Works) > MAX_LOOP_ITERATIONS + 1
      OBVIOUS
    <3>1. n = 0 /\ Len(main.keys) # 0
      BY <1>3, <1>5, <1>8, EmptySeq
    <3>2. room = 0
      BY <1>3, <1>4, <3>1
    <3>. QED  BY <1>3, <1>7, <3>1, <3>2
  <2>4. Works' = Works
    BY <1>1 DEF Works
  <2>5. Counted'
    BY <1>7, <2>1, <2>2, <2>4 DEF Counted
  <2>6. ContentsKnown'
    <3>1. new' = new \ {} /\ Range(main.keys) \ {} \subseteq Range(main'.keys)
      BY <2>1
    <3>. QED  BY <1>7, <2>1, <3>1, ContentsKept DEF IInv
  <2>7. \A w \in Works' : AllChunks(w)'
    BY <1>7, <2>1, <2>4, WorksWaitKeeps DEF IInv
  <2>. QED  BY <1>1, <1>7, <2>5, <2>6, <2>7, CloneBodyErrors DEF ResultInv, CloneInv
<1>9. CASE now # <<>>
  <2>1. /\ QueueWork(now)
        /\ main' = [main EXCEPT !.keys = rest, !.iterations = @ + Len(now),
                                !.pc = IF now = main.keys THEN "execute" ELSE "ended"]
    BY <1>2, <1>9
  <2>2. /\ main'.keys = rest /\ main'.cancelled = main.cancelled
        /\ main'.iterations = main.iterations + n
        /\ main'.pc = IF now = main.keys THEN "execute" ELSE "ended"
    BY <1>3, <1>5, <2>1 DEF MainRecord
  <2>3. now \in Seq(new)
    <3>1. Range(now) \subseteq new
      BY <1>3, <1>5
    <3>2. /\ DOMAIN now = 1 .. Len(now) /\ Len(now) \in Nat
          /\ now \in [1 .. Len(now) -> Works]
      BY <1>5, LenProperties
    <3>3. now \in [1 .. Len(now) -> new]
      BY <3>1, <3>2 DEF Range
    <3>. QED  BY <3>2, <3>3, SeqDef
  <2>4. WorksWait /\ new' = new \ Range(now)
    BY <1>1, <2>1, <2>2, <2>3, QueueWaits
  <2>5. Works' = Works
    BY <1>1 DEF Works
  <2>6. main'.iterations + Cardinality(new)' <= Cardinality(Works)
    <3>1. Cardinality(new)' = Cardinality(new) - n
      BY <1>7, <2>4
    <3>. HIDE DEF new
    <3>. QED  BY <1>3, <1>4, <1>7, <2>2, <3>1
  <2>7. main'.pc = "ended" => Cardinality(Works) > MAX_LOOP_ITERATIONS + 1
    <3>. SUFFICES ASSUME now # main.keys  PROVE Cardinality(Works) > MAX_LOOP_ITERATIONS + 1
      BY <2>2
    <3>1. n = room /\ n < Len(main.keys)
      BY <1>3, <1>4, <1>6
    <3>2. Len(main.keys) <= Cardinality(new)
      BY <1>7
    <3>3. /\ main.iterations + n = MAX_LOOP_ITERATIONS + 1 /\ n < Cardinality(new)
          /\ main.iterations \in Nat /\ MAX_LOOP_ITERATIONS \in Nat /\ n \in Nat
          /\ Cardinality(new) \in Nat /\ Cardinality(Works) \in Nat
          /\ main.iterations + Cardinality(new) <= Cardinality(Works)
      <4>. HIDE DEF new
      <4>. QED  BY <1>3, <1>4, <1>7, <3>1, <3>2
    <3>. HIDE DEF new
    <3>. QED  BY <3>3
  <2>8. Counted'
    BY <2>5, <2>6, <2>7 DEF Counted
  <2>9. ContentsKnown'
    <3>1. Range(main.keys) \ Range(now) \subseteq Range(main'.keys)
      BY <1>5, <2>2
    <3>. QED  BY <1>7, <2>4, <3>1, ContentsKept DEF IInv
  <2>11. \A w \in Works' : AllChunks(w)'
    BY <1>7, <2>4, <2>5, WorksWaitKeeps DEF IInv
  <2>. QED  BY <1>1, <1>7, <2>8, <2>9, <2>11, CloneBodyErrors DEF ResultInv, CloneInv
<1>. QED  BY <1>8, <1>9

\* When main is resumed in the phase in which it queues the files, the changes
\* have come.
LEMMA ChangesCame ==
  ASSUME IInv, main.pc = "body", asked.kind # "clone", main.phase = 2
  PROVE  0 \in Over
<1>1. running # None
  BY BodyQuiet DEF First
<1>2. running \in InState("returned")
  BY <1>1 DEF IInv, Stack, MainRuns
<1>3. running \in Works /\ running \notin InState("new")
  BY <1>2, BusyStates
<1>4. ~(PhaseOf(running) >= 2)
  BY <1>3 DEF IInv, Keys
<1>5. running = 0
  BY <1>4 DEF PhaseOf
<1>. QED  BY <1>2, <1>5 DEF Over

\* main queues the works of its phase, which are new.
LEMMA PollQueues ==
  ASSUME IInv, PollBody, main.phase # 4
  PROVE  /\ main.phase \in {1, 2, 3}
         /\ main'.cancelled = main.cancelled /\ main'.pc = "execute"
         /\ main'.phase = main.phase + 1
         /\ \E works \in Seq(InState("new")) :
               /\ QueueWork(works)
               /\ Range(works) = CASE main.phase = 1 -> {0}
                                   [] main.phase = 2 -> Of("file")
                                   [] main.phase = 3 -> Of("folder")
<1>0. main.pc = "body" /\ asked.kind # "clone" /\ 0 \in Works
  BY WorksFinite DEF PollBody, IInv, Types
<1>. DEFINE works == CASE main.phase = 1 -> <<0>>
                       [] main.phase = 2 -> SetToSeq(Of("file"))
                       [] main.phase = 3 -> SetToSeq(Of("folder"))
<1>1. QueueWork(works) /\ main' = [main EXCEPT !.pc = "execute", !.phase = @ + 1]
  BY DEF PollBody
<1>2. main \in MainRecord /\ main.phase \in {1, 2, 3}
  <2>1. main \in MainRecord
    BY DEF IInv, Types
  <2>2. main.phase \in 1 .. 4
    BY <2>1 DEF MainRecord
  <2>. QED  BY <2>1, <2>2
<1>3. /\ main'.cancelled = main.cancelled /\ main'.pc = "execute"
      /\ main'.phase = main.phase + 1
  BY <1>1, <1>2 DEF MainRecord
<1>4. /\ results.got \subseteq 1 .. Latest
      /\ \A w \in Works : PhaseOf(w) >= main.phase => w \in InState("new")
  BY <1>0 DEF IInv, Keys
<1>5. Works = 0 .. Latest /\ Latest \in Nat /\ IsFiniteSet(Works)
  <2>1. asked \in Asked /\ asked.changed \in Seq(Changes)
    BY <1>0, ActionsAssumption DEF IInv, Types
  <2>. QED  BY <1>0, <2>1, WorksFinite, LenProperties DEF Works, Latest
<1>6. ASSUME NEW c
      PROVE  /\ SetToSeq(Of(c)) \in Seq(Of(c)) /\ Range(SetToSeq(Of(c))) = Of(c)
             /\ \A v \in Of(c) : v \in Works /\ v # 0 /\ asked.changed[v] = c
  <2>1. Of(c) \subseteq Works /\ \A v \in Of(c) : v # 0 /\ asked.changed[v] = c
    BY <1>4, <1>5 DEF Of
  <2>2. IsFiniteSet(Of(c))
    BY <1>5, <2>1, FS_Subset
  <2>. QED  BY <2>1, <2>2, OnceSet
<1>7. /\ works \in Seq(Range(works))
      /\ Range(works) = CASE main.phase = 1 -> {0}
                          [] main.phase = 2 -> Of("file")
                          [] main.phase = 3 -> Of("folder")
  <2>1. CASE main.phase = 1
    <3>1. works = <<0>>
      BY <2>1
    <3>2. Range(<<0>>) = {0} /\ <<0>> \in Seq({0})
      BY DEF Range
    <3>. QED  BY <2>1, <3>1, <3>2
  <2>2. CASE main.phase = 2
    <3>1. works = SetToSeq(Of("file"))
      BY <2>2
    <3>. HIDE DEF works
    <3>. QED  BY <1>6, <2>2, <3>1
  <2>3. CASE main.phase = 3
    <3>1. works = SetToSeq(Of("folder"))
      BY <2>3
    <3>. HIDE DEF works
    <3>. QED  BY <1>6, <2>3, <3>1
  <2>. QED  BY <1>2, <2>1, <2>2, <2>3
<1>. HIDE DEF works
<1>8. \A v \in Range(works) : v \in Works /\ PhaseOf(v) = main.phase
  BY <1>0, <1>2, <1>6, <1>7 DEF PhaseOf
<1>9. works \in Seq(InState("new"))
  <2>1. Range(works) \subseteq InState("new")
    BY <1>2, <1>4, <1>8
  <2>. QED  BY <1>7, <2>1, SeqMonotonic
<1>. QED  BY <1>1, <1>2, <1>3, <1>7, <1>9

\* Nothing fails while main queues works or ends.
LEMMA PollBodyErrors ==
  ASSUME IInv, ErrorsInv, PollBody
  PROVE  ErrorsInv' /\ WorksWait
<1>1. /\ main.pc = "body" /\ asked.kind # "clone"
      /\ UNCHANGED <<asked, limit, running, in_progress, requests, results, failed, faults>>
  BY DEF PollBody
<1>2. CASE main.phase = 4
  <2>1. main' = [main EXCEPT !.pc = "ended"] /\ UNCHANGED <<work, work_queue, posted>>
    BY <1>2 DEF PollBody
  <2>2. WorksWait /\ main'.phase = main.phase
    BY <1>1, <2>1, EndWaits
  <2>. QED  BY <2>2, NothingFailsKeeps DEF WorksWait, NothingFails, ErrorsInv, ChangesFirst
<1>3. CASE main.phase # 4
  <2>1. main.phase \in {1, 2, 3} /\ main'.phase = main.phase + 1
        /\ main'.cancelled = main.cancelled
    BY <1>3, PollQueues
  <2>2. WorksWait
    BY <1>1, <1>3, <2>1, PollQueues, QueueWaits
  <2>3. main.phase = 2 => 0 \in Over
    BY <1>1, ChangesCame
  <2>4. main'.phase >= 3 => 0 \in Over
    BY <1>1, <2>1, <2>3 DEF ErrorsInv, ChangesFirst
  <2>5. ChangesFirst'
    BY <2>2, <2>4 DEF ChangesFirst, WorksWait, NothingFails
  <2>. QED  BY <2>2, <2>5, NothingFailsKeeps DEF WorksWait, ErrorsInv
<1>. QED  BY <1>2, <1>3

\* A poll queues each change in the phase of its kind, and ends after the last.
LEMMA PollBodyResult ==
  ASSUME IInv, ResultInv, PollBody
  PROVE  ResultInv'
<1>. DEFINE new == InState("new")
<1>1. /\ main.pc = "body" /\ asked.kind # "clone"
      /\ UNCHANGED <<asked, limit, running, in_progress, requests, results, failed, faults>>
  BY DEF PollBody
<1>2. /\ Works' = Works
      /\ ErrorsInv /\ PagesGot /\ (\A w \in Works \ {0} : InfoGot(w))
      /\ ChangesKnown /\ InfoKnown
      /\ \A c : Of(c)' = Of(c)
      /\ 0 \in Works
  BY <1>1, WorksFinite DEF ResultInv, PollInv, Works, Of, IInv, Types
<1>3. ASSUME WorksWait
      PROVE  /\ PagesGot' /\ (\A w \in Works' \ {0} : InfoGot(w)') /\ InfoKnown'
             /\ Over' = Over
             /\ work'[0].got = work[0].got /\ work'[0].latest = work[0].latest
  <2>1. PagesGot' /\ (\A w \in Works' \ {0} : InfoGot(w)') /\ InfoKnown'
    BY <1>2, <1>3, WorksWaitKeeps DEF IInv
  <2>. QED  BY <1>2, <1>3, <2>1 DEF WorksWait, NothingFails
<1>4. CASE main.phase = 4
  <2>1. main' = [main EXCEPT !.pc = "ended"] /\ UNCHANGED <<work, work_queue, posted>>
    BY <1>4 DEF PollBody
  <2>2. WorksWait /\ new' = new /\ main'.phase = 4 /\ main'.pc = "ended"
    BY <1>1, <1>4, <2>1, EndWaits
  <2>4. ChangesKnown'
    BY <1>1, <1>2, <1>3, <1>4, <2>2 DEF ChangesKnown
  <2>. QED  BY <1>1, <1>2, <1>3, <2>2, <2>4, PollBodyErrors DEF ResultInv, PollInv
<1>5. CASE main.phase # 4
  <2>1. PICK works \in Seq(InState("new")) :
          /\ QueueWork(works)
          /\ Range(works) = CASE main.phase = 1 -> {0}
                              [] main.phase = 2 -> Of("file")
                              [] main.phase = 3 -> Of("folder")
    BY <1>5, PollQueues
  <2>2. /\ main.phase \in {1, 2, 3} /\ main'.phase = main.phase + 1
        /\ main'.cancelled = main.cancelled /\ main'.pc = "execute"
    BY <1>5, PollQueues
  <2>10. WorksWait /\ new' = new \ Range(works)
    BY <1>1, <2>1, <2>2, QueueWaits
  <2>13. ChangesKnown'
    <3>1. /\ 0 \notin Over' => results'.got = {} /\ results'.info = <<>> /\ results'.errors = {}
          /\ 0 \in Over' =>
               /\ results'.got = {v \in work'[0].got : asked'.changed[v] # "trash"}
               /\ asked'.kind = "poll" => results'.revision = work'[0].latest
      BY <1>1, <1>2, <1>3, <2>10 DEF ChangesKnown
    <3>2. ASSUME NEW w \in Works \ {0}, w \notin new'
          PROVE  w \in results.got /\ asked.changed[w] \in {"file", "folder"}
      <4>1. CASE w \notin new
        BY <1>2, <3>2, <4>1 DEF ChangesKnown
      <4>2. CASE w \in new
        <5>1. w \in Range(works)
          BY <2>10, <3>2, <4>2
        <5>2. w \in Of("file") \/ w \in Of("folder")
          BY <2>1, <2>2, <3>2, <5>1
        <5>. QED  BY <5>2 DEF Of
      <4>. QED  BY <4>1, <4>2
    <3>3. main'.phase >= 3 => Of("file") \cap new' = {}
      BY <1>2, <2>1, <2>2, <2>10 DEF ChangesKnown
    <3>4. main'.phase = 4 => Of("folder") \cap new' = {}
      BY <2>1, <2>2, <2>10
    <3>. QED  BY <1>1, <1>2, <2>2, <3>1, <3>2, <3>3, <3>4 DEF ChangesKnown
  <2>. QED  BY <1>1, <1>2, <1>3, <2>10, <2>13, PollBodyErrors DEF ResultInv, PollInv
<1>. QED  BY <1>4, <1>5

\* A work that asks: its requests are added to those under way, and nothing but
\* its first changes.
LEMMA MakeCallsAsks ==
  ASSUME IInv, MakeCalls
  PROVE  /\ running \in Works /\ running \in InState("running") /\ running \notin Over
         /\ Round(running) # {}
         /\ NothingFails /\ MainWaits
         /\ \A k, n : ~Asks(running, k, n)
         /\ \A w, k, n : Asks(w, k, n)' <=>
               \/ Asks(w, k, n)
               \/ w = running /\ k \in Round(running) /\ n = Argument(running, k)
         /\ \A w \in Works :
               /\ work'[w].first = (w # running /\ work[w].first)
               /\ work'[w].files = work[w].files /\ work'[w].folders = work[w].folders
               /\ work'[w].start = work[w].start /\ work'[w].latest = work[w].latest
               /\ work'[w].got = work[w].got /\ work'[w].errors = work[w].errors
               /\ work'[w].cancelled = work[w].cancelled
<1>. DEFINE v == running
            m == Cardinality(Round(v))
<1>1. /\ v # None /\ work[v].state = "running" /\ Round(v) # {}
      /\ work' = [work EXCEPT ![v] = [@ EXCEPT !.state = "suspended", !.first = FALSE,
                                               !.waits = m]]
      /\ UNCHANGED <<asked, limit, main, work_queue, in_progress, posted, results, failed>>
  BY DEF MakeCalls, managerVars
<1>2. PICK sent \in [Round(v) -> {"waiting", "sent"}] :
         LET new == {[of |-> v, kind |-> k, arg |-> Argument(v, k), state |-> sent[k]] :
                        k \in Round(v)}
         IN  IF work[v].cancelled
             THEN CancelRequests({v}, requests \cup new)
             ELSE requests' = requests \cup new /\ UNCHANGED faults
  BY DEF MakeCalls
<1>. DEFINE call(k) == [of |-> v, kind |-> k, arg |-> Argument(v, k), state |-> sent[k]]
            new == {call(k) : k \in Round(v)}
            rs == requests \cup new
<1>3. v \in Works /\ v \in InState("running") /\ work \in [Works -> WorkRecord]
      /\ requests \in SUBSET RequestRecord
  BY <1>1 DEF IInv, Types, InState
<1>4. \A s : s # "running" => v \notin InState(s)
  BY <1>3, BusyStates
<1>5. \A k, n : ~Asks(v, k, n)
  <2>1. KindsOf(v, requests) = {}
    BY <1>3, <1>4 DEF IInv, RequestsOK
  <2>. QED  BY <2>1 DEF KindsOf, Asks
<1>6. /\ \A k \in Round(v) : call(k) \in RequestRecord
      /\ \A k \in Round(v) : call(k).of = v /\ call(k).kind = k /\ call(k).arg = Argument(v, k)
  BY <1>3, RoundKinds DEF IInv, RequestRecord
<1>. HIDE DEF call
<1>7. \A w, k, n : (\E r \in rs : r.of = w /\ r.kind = k /\ r.arg = n) <=>
               \/ Asks(w, k, n)
               \/ w = v /\ k \in Round(v) /\ n = Argument(v, k)
  BY <1>6 DEF Asks
<1>8. \A w, k, n : Asks(w, k, n)' <=> \E r \in rs : r.of = w /\ r.kind = k /\ r.arg = n
  <2>0. rs \in SUBSET RequestRecord
    BY <1>3, <1>6
  <2>. HIDE DEF new, rs
  <2>1. CASE work[v].cancelled
    <3>1. CancelRequests({v}, rs)
      BY <1>2, <2>1 DEF new, call, rs
    <3>. QED  BY <2>0, <3>1, CancelRequestsAsked
  <2>2. CASE ~work[v].cancelled
    <3>1. requests' = rs
      BY <1>2, <2>2 DEF new, call, rs
    <3>. QED  BY <3>1 DEF Asks
  <2>. QED  BY <2>1, <2>2
<1>. HIDE DEF new, rs, m
<1>9. \A w \in Works :
         /\ work'[w].state = IF w = v THEN "suspended" ELSE work[w].state
         /\ work'[w].first = (w # v /\ work[w].first)
         /\ work'[w].files = work[w].files /\ work'[w].folders = work[w].folders
         /\ work'[w].start = work[w].start /\ work'[w].latest = work[w].latest
         /\ work'[w].got = work[w].got /\ work'[w].errors = work[w].errors
         /\ work'[w].cancelled = work[w].cancelled
  <2>. TAKE w \in Works
  <2>1. CASE w = v
    <3>1. work[v] \in WorkRecord
          /\ work'[v] = [work[v] EXCEPT !.state = "suspended", !.first = FALSE, !.waits = m]
      BY <1>1, <1>3
    <3>. QED  BY <2>1, <3>1 DEF WorkRecord
  <2>2. CASE w # v
    <3>1. work'[w] = work[w] /\ work[w] \in WorkRecord
      BY <1>1, <1>3, <2>2
    <3>2. work[w].first \in BOOLEAN
      BY <3>1 DEF WorkRecord
    <3>. QED  BY <2>2, <3>1, <3>2
  <2>. QED  BY <2>1, <2>2
<1>10. Works' = Works
  BY <1>1 DEF Works
<1>11. /\ \A s : s \notin {"running", "suspended"} => InState(s)' = InState(s)
       /\ InState("suspended")' = InState("suspended") \cup {v}
       /\ InState("running")' = InState("running") \ {v}
  BY <1>1, <1>3, <1>9, <1>10 DEF InState
<1>12. /\ Over' = Over /\ v \notin Over /\ InState("new")' = InState("new")
       /\ InState("dropped")' = InState("dropped") /\ Pending' = Pending
  BY <1>3, <1>4, <1>11 DEF Over, Pending
<1>13. NothingFails
  BY <1>1, <1>9, <1>12 DEF NothingFails
<1>14. MainWaits
  BY <1>1, <1>9, <1>12, OverWorks DEF MainWaits
<1>15. Round(v) # {}
  BY <1>1
<1>16. \A w, k, n : Asks(w, k, n)' <=>
               \/ Asks(w, k, n)
               \/ w = v /\ k \in Round(v) /\ n = Argument(v, k)
  BY <1>7, <1>8
<1>17. \A w \in Works :
         /\ work'[w].first = (w # v /\ work[w].first)
         /\ work'[w].files = work[w].files /\ work'[w].folders = work[w].folders
         /\ work'[w].start = work[w].start /\ work'[w].latest = work[w].latest
         /\ work'[w].got = work[w].got /\ work'[w].errors = work[w].errors
         /\ work'[w].cancelled = work[w].cancelled
  BY <1>9
<1>. QED  BY <1>3, <1>5, <1>12, <1>13, <1>14, <1>15, <1>16, <1>17

\* The kinds of works.
LEMMA WorkKinds ==
  ASSUME asked \in Asked, NEW w \in Works
  PROVE  /\ asked.kind = "clone" => WorkKind(w) = "contents"
         /\ asked.kind = "poll" => WorkKind(w) = IF w = 0 THEN "changes" ELSE "info"
         /\ asked.kind = "foreign" => WorkKind(w) = IF w = 0 THEN "foreign" ELSE "info"
         /\ asked.kind \in {"clone", "poll", "foreign"}
BY ActionsAssumption DEF WorkKind

\* A work asks for what it has not got yet.
LEMMA MakeCallsResult ==
  ASSUME RevisionsFit, IInv, ResultInv, MakeCalls
  PROVE  ResultInv'
<1>0. PICK v : v = running
  OBVIOUS
<1>1. /\ v \in Works /\ v \in InState("running") /\ v \notin Over /\ Round(v) # {}
      /\ NothingFails /\ MainWaits
      /\ \A k, n : ~Asks(v, k, n)
      /\ \A w, k, n : Asks(w, k, n)' <=>
            Asks(w, k, n) \/ (w = v /\ k \in Round(v) /\ n = Argument(v, k))
      /\ \A w \in Works :
            /\ work'[w].first = (w # v /\ work[w].first)
            /\ work'[w].files = work[w].files /\ work'[w].folders = work[w].folders
            /\ work'[w].start = work[w].start /\ work'[w].latest = work[w].latest
            /\ work'[w].got = work[w].got /\ work'[w].errors = work[w].errors
            /\ work'[w].cancelled = work[w].cancelled
  BY <1>0, MakeCallsAsks
<1>2. /\ asked' = asked /\ Works' = Works /\ Latest' = Latest /\ Over' = Over
      /\ asked \in Asked /\ 0 \in Works
  BY <1>1, WorksFinite DEF MainWaits, Works, Latest, IInv, Types
<1>3. ErrorsInv'
  BY <1>1, NothingFailsKeeps, MainWaitsKeeps DEF ResultInv, ErrorsInv
<1>4. ASSUME asked.kind = "clone"  PROVE CloneInv'
  <2>1. CloneInv
    BY <1>4 DEF ResultInv
  <2>2. ASSUME NEW w \in Works  PROVE AllChunks(w)'
    <3>1. /\ LastFiles(w)' = LastFiles(w) /\ LastFolders(w)' = LastFolders(w)
      BY <1>2 DEF LastFiles, LastFolders
    <3>2. /\ Argument(v, "files") = work[v].files
          /\ Argument(v, "folders") = work[v].folders
      BY DEF Argument
    <3>3. AllChunks(w)
      BY <2>1 DEF CloneInv
    <3>4. ASSUME NEW k, NEW next, NEW last, ChunksGot(w, k, next, last),
                 w = v => Argument(v, k) = next
          PROVE  /\ \A n \in Nat : Asks(w, k, n)' => n = next
                 /\ w \in Over' => work'[w].cancelled \/ next = 0
                 /\ work'[w].errors = {} =>
                      /\ next <= last
                      /\ \A n \in Nat : <<k, n>> \in work'[w].got
                            <=> n \in 1 .. (IF next = 0 THEN last ELSE next - 1)
      BY <1>1, <1>2, <3>4 DEF ChunksGot
    <3>5. ChunksGot(w, "files", work[w].files, LastFiles(w))'
      <4>1. ChunksGot(w, "files", work[w].files, LastFiles(w)) /\ work'[w].files = work[w].files
        BY <1>1, <3>3 DEF AllChunks
      <4>. QED  BY <3>1, <3>2, <3>4, <4>1 DEF ChunksGot
    <3>6. ChunksGot(w, "folders", work[w].folders, LastFolders(w))'
      <4>1. /\ ChunksGot(w, "folders", work[w].folders, LastFolders(w))
            /\ work'[w].folders = work[w].folders
        BY <1>1, <3>3 DEF AllChunks
      <4>. QED  BY <3>1, <3>2, <3>4, <4>1 DEF ChunksGot
    <3>. QED  BY <3>5, <3>6 DEF AllChunks
  <2>. QED  BY <1>1, <1>2, <2>1, <2>2, MainWaitsKeeps DEF CloneInv
<1>5. ASSUME asked.kind # "clone"  PROVE PollInv'
  <2>1. /\ PagesGot /\ (\A w \in Works \ {0} : InfoGot(w))
        /\ ChangesKnown /\ InfoKnown
    BY <1>5 DEF ResultInv, PollInv
  <2>2. ChangesKnown' /\ InfoKnown'
    BY <1>1, <2>1, MainWaitsKeeps
  <2>3. ASSUME NEW w \in Works \ {0}  PROVE InfoGot(w)'
    <3>1. CASE w = v
      <4>1. Round(v) = {"info"}
        BY <1>1, <1>2, <1>5, <3>1, WorkKinds DEF Round
      <4>2. Argument(v, "info") = 0
        BY DEF Argument
      <4>3. Asks(w, "info", 0)'
        BY <1>1, <3>1, <4>1, <4>2
      <4>4. "info" \in RequestKinds /\ w \notin Over'
        BY <1>1, <1>2, <3>1 DEF RequestKinds
      <4>. QED  BY <4>3, <4>4 DEF InfoGot
    <3>2. CASE w # v
      BY <1>1, <1>2, <2>1, <3>2 DEF InfoGot
    <3>. QED  BY <3>1, <3>2
  <2>4. PagesGot'
    <3>1. CASE v # 0
      <4>1. /\ \A k, n : Asks(0, k, n)' <=> Asks(0, k, n)
            /\ work'[0].first <=> work[0].first
            /\ work'[0].start = work[0].start /\ work'[0].latest = work[0].latest
            /\ work'[0].got = work[0].got /\ work'[0].errors = work[0].errors
            /\ work'[0].cancelled = work[0].cancelled
        BY <1>1, <1>2, <3>1
      <4>. QED  BY <1>2, <2>1, <4>1 DEF PagesGot
    <3>2. CASE v = 0
      <4>. DEFINE w == work[0]
                  x == work'[0]
      <4>1. /\ ~x.first /\ x.start = w.start /\ x.latest = w.latest
            /\ x.got = w.got /\ x.errors = w.errors
        BY <1>1, <1>2, <3>2
      <4>2. /\ w.start \in Nat /\ w.latest \in Nat /\ Latest \in Nat
            /\ asked.known \in Nat
            /\ Page \in Nat /\ Modulus \in Nat
            /\ Latest + Page < Modulus /\ asked.known + 1 + Page < Modulus
        <5>1. work[0] \in WorkRecord /\ Modulus \in Nat /\ Page \in Nat
          BY <1>2, ActionsAssumption DEF IInv, Types
        <5>2. /\ w.start \in 0 .. Modulus - 1 /\ w.latest \in 0 .. Modulus - 1
          BY <5>1 DEF WorkRecord
        <5>3. asked.known \in 0 .. Modulus - 1 /\ asked.changed \in Seq(Changes)
          BY <1>2, <1>5, ActionsAssumption
        <5>4. Latest + Page < Modulus /\ asked.known + 1 + Page < Modulus
          BY <1>2, <1>5 DEF RevisionsFit, Latest
        <5>. QED  BY <5>1, <5>2, <5>3, <5>4, LenProperties DEF Latest
      <4>3. Round(0) = IF asked.kind = "poll" /\ w.first THEN {"status"} ELSE {"changes"}
        BY <1>1, <1>2, <1>5, <3>2, WorkKinds DEF Round
      <4>4. "changes" \in Round(0) => w.start < w.latest
        BY <1>1, <1>2, <1>5, <3>2, <4>3, WorkKinds DEF Round
      <4>5. Argument(0, "changes") = w.start /\ Argument(0, "status") = 0
        BY DEF Argument
      <4>6. ASSUME w.errors = {}, "changes" \in Round(0)
            PROVE  w.start + 1 + Page < Modulus
        <5>1. w.latest = Latest \/ w.start = asked.known
          BY <1>1, <1>2, <1>5, <2>1, <3>2, <4>3, <4>6, WorkKinds DEF PagesGot
        <5>. HIDE DEF w
        <5>. QED  BY <4>2, <4>4, <4>6, <5>1
      <4>7. \A n \in Nat : Asks(0, "changes", n)' =>
              n = x.start /\ (x.errors = {} => n + 1 + Page < Modulus)
        <5>. HIDE DEF x, w
        <5>. QED  BY <1>1, <3>2, <4>1, <4>5, <4>6
      <4>8. ASSUME asked.kind = "poll", w.errors = {}
            PROVE  x.latest = Latest \/ \E n \in Nat : Asks(0, "status", n)'
        <5>1. CASE w.first
          <6>1. Asks(0, "status", 0)'
            BY <1>1, <3>2, <4>3, <4>5, <4>8, <5>1
          <6>. QED  BY <6>1
        <5>2. CASE ~w.first
          <6>1. w.latest = Latest
            BY <1>1, <2>1, <3>2, <4>8, <5>2 DEF PagesGot
          <6>. QED  BY <4>1, <6>1
        <5>. QED  BY <5>1, <5>2
      <4>9. w.errors = {} =>
               /\ x.start >= asked.known
               /\ \A u \in 1 .. Latest : u \in x.got <=> asked.known < u /\ u <= x.start
               /\ asked.kind = "foreign" =>
                    x.latest = Latest \/ (x.latest = Modulus - 1 /\ x.start = asked.known)
        <5>1. w.errors = {} =>
               /\ w.start >= asked.known
               /\ \A u \in 1 .. Latest : u \in w.got <=> asked.known < u /\ u <= w.start
               /\ asked.kind = "foreign" =>
                    w.latest = Latest \/ (w.latest = Modulus - 1 /\ w.start = asked.known)
          BY <2>1 DEF PagesGot
        <5>. HIDE DEF x, w
        <5>. QED  BY <4>1, <5>1
      <4>10. 0 \notin Over'
        BY <1>1, <1>2, <3>2
      <4>. QED  BY <1>2, <4>1, <4>7, <4>8, <4>9, <4>10 DEF PagesGot
    <3>. QED  BY <3>1, <3>2
  <2>. QED  BY <1>2, <2>2, <2>3, <2>4 DEF PollInv
<1>. QED  BY <1>2, <1>3, <1>4, <1>5 DEF ResultInv

\* The next page starts later, if the revisions do not come round.
LEMMA MaxRevisionLater ==
  ASSUME NEW n \in Nat, n + 1 + Page < Modulus
  PROVE  MaxRevision(n) \in Nat /\ MaxRevision(n) > n
<1>1. Modulus \in Nat \ {0} /\ Page \in Nat \ {0}
  BY ActionsAssumption
<1>2. \A a \in Nat, m \in Nat \ {0} : a < m => a % m = a
  OBVIOUS
<1>3. \A a \in Nat, m \in Nat \ {0} :
         a \div m \in Nat /\ (a \div m) * m <= a /\ a < (a \div m) * m + m
  OBVIOUS
<1>4. (n + 1) % Modulus = n + 1
  BY <1>1, <1>2
<1>. DEFINE b == (n + 1) \div Page
            c == b * Page
<1>5. b \in Nat /\ c <= n + 1 /\ n + 1 < c + Page
  BY <1>1, <1>3
<1>6. (b + 1) * Page = c + Page /\ c \in Nat
  BY <1>1, <1>5
<1>. HIDE DEF c, b
<1>7. c + Page \in Nat /\ c + Page < Modulus /\ c + Page > n
  BY <1>1, <1>5, <1>6
<1>8. (c + Page) % Modulus = c + Page
  BY <1>1, <1>2, <1>7
<1>9. MaxRevision(n) = c + Page
  BY <1>4, <1>6, <1>8 DEF MaxRevision, b
<1>. QED  BY <1>7, <1>9

\* What an answer to request r changes in the members of its work w.
AnswerChanges(w, r, ok, a) ==
    /\ a.first = w.first
    /\ a.errors = IF ok THEN w.errors ELSE w.errors \cup {<<r.of, r.kind, r.arg>>}
    /\ r.kind # "files" => a.files = w.files
    /\ r.kind # "folders" => a.folders = w.folders
    /\ r.kind # "changes" => a.start = w.start
    /\ ~ok => a.got = w.got
    /\ ok /\ r.kind = "files" =>
         /\ a.files = IF r.arg >= asked.files[r.of] THEN 0 ELSE w.files + 1
         /\ a.got = w.got \cup {<<"files", r.arg>>}
    /\ ok /\ r.kind = "folders" =>
         /\ a.folders = IF r.arg >= Len(asked.subfolders[r.of]) THEN 0 ELSE w.folders + 1
         /\ a.got = w.got \cup {<<"folders", r.arg>>}
    /\ ok /\ r.kind = "status" => a.latest = Latest /\ a.got = w.got
    /\ ok /\ r.kind = "changes" =>
         /\ a.start = MaxRevision(r.arg)
         /\ a.latest = IF asked.kind = "foreign" THEN Latest ELSE w.latest
         /\ a.got = w.got \cup PageAfter(r.arg)
    /\ ok /\ r.kind = "info" => a.got = {r.of}

\* The members of a work after an answer.
LEMMA AnswerMembers ==
  ASSUME NEW w \in WorkRecord, NEW r \in RequestRecord, NEW ok \in BOOLEAN
  PROVE  AnswerChanges(w, r, ok, IF ok THEN Answered(w, r) ELSE Refused(w, r))
<1>. DEFINE e == [w EXCEPT !.errors = @ \cup {<<r.of, r.kind, r.arg>>}]
<1>1. r.kind \in RequestKinds
  BY DEF RequestRecord
<1>2. CASE ok /\ r.kind = "files"
  BY <1>2 DEF AnswerChanges, Answered, WorkRecord
<1>3. CASE ok /\ r.kind = "folders"
  BY <1>3 DEF AnswerChanges, Answered, WorkRecord
<1>4. CASE ok /\ r.kind = "status"
  BY <1>4 DEF AnswerChanges, Answered, WorkRecord
<1>5. CASE ok /\ r.kind = "changes"
  BY <1>5 DEF AnswerChanges, Answered, WorkRecord
<1>6. CASE ok /\ r.kind = "info"
  BY <1>6 DEF AnswerChanges, Answered, WorkRecord
<1>7. CASE ~ok
  <2>1. /\ e.first = w.first /\ e.errors = w.errors \cup {<<r.of, r.kind, r.arg>>}
        /\ e.files = w.files /\ e.folders = w.folders /\ e.start = w.start
        /\ e.got = w.got /\ DOMAIN e = DOMAIN w
    BY DEF WorkRecord
  <2>2. /\ "first" \in DOMAIN e /\ "errors" \in DOMAIN e /\ "files" \in DOMAIN e
        /\ "folders" \in DOMAIN e /\ "start" \in DOMAIN e
        /\ "got" \in DOMAIN e
    BY <2>1 DEF WorkRecord
  <2>3. Refused(w, r) = CASE r.kind \in {"files", "folders"} -> [e EXCEPT ![r.kind] = Least(@ + 1, MaxChunk)]
                          [] r.kind = "changes" -> [e EXCEPT !.start = MaxRevision(r.arg)]
                          [] OTHER -> e
    BY DEF Refused
  <2>. HIDE DEF e
  <2>4. CASE r.kind = "files"
    <3>1. Refused(w, r) = [e EXCEPT !.files = Least(@ + 1, MaxChunk)]
      BY <2>3, <2>4
    <3>. QED  BY <1>7, <2>1, <2>2, <2>4, <3>1 DEF AnswerChanges
  <2>5. CASE r.kind = "folders"
    <3>1. Refused(w, r) = [e EXCEPT !.folders = Least(@ + 1, MaxChunk)]
      BY <2>3, <2>5
    <3>. QED  BY <1>7, <2>1, <2>2, <2>5, <3>1 DEF AnswerChanges
  <2>6. CASE r.kind = "changes"
    <3>1. Refused(w, r) = [e EXCEPT !.start = MaxRevision(r.arg)]
      BY <2>3, <2>6
    <3>. QED  BY <1>7, <2>1, <2>2, <2>6, <3>1 DEF AnswerChanges
  <2>7. CASE r.kind \notin {"files", "folders", "changes"}
    <3>1. Refused(w, r) = e
      BY <2>3, <2>7
    <3>. QED  BY <1>7, <2>1, <2>7, <3>1 DEF AnswerChanges
  <2>. QED  BY <2>4, <2>5, <2>6, <2>7
<1>. QED  BY <1>1, <1>2, <1>3, <1>4, <1>5, <1>6, <1>7 DEF RequestKinds

\* The answer to a request: the request is gone, and its work has changed.
LEMMA HandleResponseAsks ==
  ASSUME IInv, NEW r \in requests, NEW ok \in BOOLEAN, HandleResponse(r, ok)
  PROVE  LET w == work[r.of]
             x == work'[r.of]
         IN  /\ r \in RequestRecord /\ r.of \in Works /\ r.of \notin Over
             /\ r.of \in InState("suspended") /\ w \in WorkRecord
             /\ UNCHANGED <<asked, results, main>>
             /\ MainWaits
             /\ Pending' = Pending /\ InState("dropped")' = InState("dropped")
             /\ failed' = IF ok THEN failed ELSE failed \cup {<<r.of, r.kind, r.arg>>}
             /\ \A v, k, n : Asks(v, k, n)' <=> Asks(v, k, n) /\ ~(v = r.of /\ k = r.kind)
             /\ \A n : Asks(r.of, r.kind, n) <=> n = r.arg
             /\ \A v \in Works : v # r.of => work'[v] = work[v]
             /\ AnswerChanges(w, r, ok, x) /\ x.cancelled = w.cancelled
<1>. DEFINE v == r.of
            a == IF ok THEN Answered(work[r.of], r) ELSE Refused(work[r.of], r)
            last == a.waits = 1
            to == IF last THEN "running" ELSE a.state
            b == [a EXCEPT !.waits = @ - 1, !.state = to]
<1>1. /\ requests' = requests \ {r}
      /\ failed' = IF ok THEN failed ELSE failed \cup {<<r.of, r.kind, r.arg>>}
      /\ work' = [work EXCEPT ![v] = b]
      /\ UNCHANGED <<asked, limit, main, work_queue, in_progress, posted, results, faults>>
  BY DEF HandleResponse, managerVars
<1>2. a \in WorkRecord /\ a.state = work[v].state /\ a.cancelled = work[v].cancelled
  BY AnswerRecord DEF IInv
<1>. HIDE DEF a
<1>3. /\ v \in Works /\ r \in RequestRecord /\ work \in [Works -> WorkRecord]
      /\ work[v] \in WorkRecord
  BY DEF IInv, Types, RequestRecord
<1>4. v \in InState("suspended") /\ OneOfEach(requests)
  <2>1. r.kind \in KindsOf(v, requests)
    BY DEF KindsOf
  <2>. QED  BY <1>3, <2>1 DEF IInv, RequestsOK
<1>5. to = IF last THEN "running" ELSE "suspended"
  BY <1>2, <1>4 DEF InState
<1>6. /\ b.state = to /\ b.cancelled = a.cancelled
      /\ b.first = a.first /\ b.files = a.files /\ b.folders = a.folders
      /\ b.start = a.start /\ b.latest = a.latest
      /\ b.got = a.got /\ b.errors = a.errors
  <2>. HIDE DEF to, last
  <2>. QED  BY <1>2 DEF WorkRecord
<1>. HIDE DEF b, to, last
<1>7. Works' = Works /\ \A w \in Works : work'[w] = IF w = v THEN b ELSE work[w]
  BY <1>1, <1>3 DEF Works
<1>8. /\ \A s : s # "suspended" => v \notin InState(s)
      /\ \A s : s \notin {"running", "suspended"} => InState(s)' = InState(s)
      /\ InState("suspended") \cup InState("running")
            = InState("suspended")' \cup InState("running")'
  <2>1. \A s : s # "suspended" => v \notin InState(s)
    BY <1>4, BusyStates
  <2>2. \A w \in Works : work'[w].state = IF w = v THEN to ELSE work[w].state
    BY <1>6, <1>7
  <2>3. work[v].state = "suspended"
    BY <1>4 DEF InState
  <2>. QED  BY <1>3, <1>5, <1>7, <2>1, <2>2, <2>3 DEF InState
<1>9. /\ Over' = Over /\ InState("new")' = InState("new") /\ Pending' = Pending
      /\ InState("dropped")' = InState("dropped") /\ v \notin Over
  BY <1>8 DEF Over, Pending
<1>10. MainWaits
  BY <1>1, <1>3, <1>7, <1>9, OverWorks DEF MainWaits
<1>11. \A w, k, n : Asks(w, k, n)' <=> Asks(w, k, n) /\ ~(w = v /\ k = r.kind)
  BY <1>1, <1>4 DEF Asks, OneOfEach
<1>12. \A n : Asks(v, r.kind, n) <=> n = r.arg
  BY <1>4 DEF Asks, OneOfEach
<1>13. AnswerChanges(work[v], r, ok, a)
  BY <1>3, AnswerMembers DEF a
<1>14. AnswerChanges(work[v], r, ok, work'[v]) /\ work'[v].cancelled = work[v].cancelled
  <2>1. /\ work'[v].first = a.first /\ work'[v].files = a.files
        /\ work'[v].folders = a.folders
        /\ work'[v].start = a.start /\ work'[v].latest = a.latest
        /\ work'[v].got = a.got /\ work'[v].errors = a.errors
        /\ work'[v].cancelled = work[v].cancelled
    BY <1>2, <1>3, <1>6, <1>7
  <2>. QED  BY <1>13, <2>1 DEF AnswerChanges
<1>15. \A w \in Works : w # v => work'[w] = work[w]
  BY <1>7
<1>. QED  BY <1>1, <1>3, <1>4, <1>9, <1>10, <1>11, <1>12, <1>14, <1>15

\* A failure is noted by the work whose request failed.
LEMMA HandleResponseErrors ==
  ASSUME IInv, ErrorsInv, NEW r \in requests, NEW ok \in BOOLEAN, HandleResponse(r, ok)
  PROVE  ErrorsInv'
<1>. DEFINE e == <<r.of, r.kind, r.arg>>
<1>1. /\ r \in RequestRecord /\ r.of \in Works /\ r.of \notin Over
      /\ r.of \in InState("suspended") /\ work[r.of] \in WorkRecord
      /\ UNCHANGED <<asked, results, main>> /\ MainWaits
      /\ Pending' = Pending /\ InState("dropped")' = InState("dropped")
      /\ failed' = IF ok THEN failed ELSE failed \cup {e}
      /\ \A v \in Works : v # r.of => work'[v] = work[v]
      /\ AnswerChanges(work[r.of], r, ok, work'[r.of])
      /\ work'[r.of].cancelled = work[r.of].cancelled
  BY HandleResponseAsks
<1>2. work'[r.of].errors = IF ok THEN work[r.of].errors ELSE work[r.of].errors \cup {e}
  BY <1>1 DEF AnswerChanges
<1>3. /\ Works' = Works /\ Over' = Over
      /\ \A w : KindsFor(w)' = KindsFor(w)
  BY <1>1 DEF Works, MainWaits, KindsFor, WorkKind
<1>4. e[1] = r.of /\ e[2] \in KindsFor(r.of)
  BY DEF IInv, RequestsOK, Fits
<1>. HIDE DEF e
<1>5. CancelNoted'
  <2>1. \A w \in Works : work'[w].cancelled = work[w].cancelled
    BY <1>1
  <2>. QED  BY <1>1, <1>3, <2>1 DEF ErrorsInv, CancelNoted
<1>6. \A f \in failed' : f[1] \in Works' /\ f \in work'[f[1]].errors
  <2>. SUFFICES ASSUME NEW f \in failed'  PROVE f[1] \in Works /\ f \in work'[f[1]].errors
    BY <1>3
  <2>1. CASE f \in failed
    <3>1. f[1] \in Works /\ f \in work[f[1]].errors
      BY <2>1 DEF ErrorsInv, FailuresKept
    <3>. QED  BY <1>1, <1>2, <3>1
  <2>2. CASE f \notin failed
    <3>1. ~ok /\ f = e
      BY <1>1, <2>2
    <3>. QED  BY <1>1, <1>2, <1>4, <3>1
  <2>. QED  BY <2>1, <2>2
<1>7. \A w \in Works' : work'[w].errors # {} => w \in Pending' \cup Over'
  <2>1. r.of \in Pending'
    BY <1>1 DEF Pending
  <2>. QED  BY <1>1, <1>3, <2>1 DEF ErrorsInv, FailuresKept
<1>8. \A w \in Works' : \A f \in work'[w].errors : f[2] \in KindsFor(w)'
  BY <1>1, <1>2, <1>3, <1>4 DEF ErrorsInv, FailuresKept
<1>9. \A w \in Over' : \A f \in work'[w].errors :
          f \in results'.errors \/ (asked'.kind = "foreign" /\ f[2] = "info")
  <2>1. \A w \in Over : work'[w] = work[w]
    BY <1>1, OverWorks
  <2>. QED  BY <1>1, <1>3, <2>1 DEF ErrorsInv, FailuresKept
<1>10. FailuresKept'
  BY <1>6, <1>7, <1>8, <1>9 DEF FailuresKept
<1>. QED  BY <1>1, <1>5, <1>10, MainWaitsKeeps DEF ErrorsInv

\* The kinds of requests a work makes.
LEMMA RequestsOfKind ==
  ASSUME Types, RequestsOK, NEW r \in requests
  PROVE  /\ asked.kind = "clone" => r.kind \in {"files", "folders"} /\ r.arg \in Nat \ {0}
         /\ asked.kind # "clone" /\ r.of = 0 => r.kind \in {"status", "changes"}
         /\ asked.kind # "clone" /\ r.of # 0 => r.kind = "info"
<1>1. r.of \in Works /\ asked \in Asked /\ r.arg \in Nat
  BY DEF Types, RequestRecord
<1>2. r.kind \in KindsFor(r.of) /\ (r.kind \in {"files", "folders"} => r.arg # 0)
  BY DEF RequestsOK, Fits
<1>. QED  BY <1>1, <1>2, WorkKinds DEF KindsFor

\* An answer brings the chunk that was asked for.
LEMMA HandleResponseClone ==
  ASSUME IInv, CloneInv, asked.kind = "clone",
         NEW r \in requests, NEW ok \in BOOLEAN, HandleResponse(r, ok)
  PROVE  CloneInv'
<1>. DEFINE w == work[r.of]
            a == work'[r.of]
<1>1. /\ r \in RequestRecord /\ r.of \in Works /\ r.of \notin Over
      /\ w \in WorkRecord
      /\ asked' = asked /\ MainWaits
      /\ \A v, k, n : Asks(v, k, n)' <=> Asks(v, k, n) /\ ~(v = r.of /\ k = r.kind)
      /\ \A n : Asks(r.of, r.kind, n) <=> n = r.arg
      /\ \A v \in Works : v # r.of => work'[v] = work[v]
      /\ AnswerChanges(w, r, ok, a)
  BY HandleResponseAsks
<1>2. /\ a.errors = IF ok THEN w.errors ELSE w.errors \cup {<<r.of, r.kind, r.arg>>}
      /\ r.kind # "files" => a.files = w.files
      /\ r.kind # "folders" => a.folders = w.folders
      /\ ~ok => a.got = w.got
      /\ ok /\ r.kind = "files" =>
           /\ a.files = IF r.arg >= asked.files[r.of] THEN 0 ELSE w.files + 1
           /\ a.got = w.got \cup {<<"files", r.arg>>}
      /\ ok /\ r.kind = "folders" =>
           /\ a.folders = IF r.arg >= Len(asked.subfolders[r.of]) THEN 0 ELSE w.folders + 1
           /\ a.got = w.got \cup {<<"folders", r.arg>>}
  BY <1>1 DEF AnswerChanges
<1>. HIDE DEF w
<1>3. /\ Works' = Works /\ Over' = Over
      /\ \A v : LastFiles(v)' = LastFiles(v) /\ LastFolders(v)' = LastFolders(v)
  BY <1>1 DEF Works, MainWaits, LastFiles, LastFolders
<1>4. r.kind \in {"files", "folders"} /\ r.arg \in Nat \ {0}
  BY RequestsOfKind DEF IInv
<1>5. asked.files[r.of] \in Nat /\ Len(asked.subfolders[r.of]) \in Nat
  <2>1. asked \in Asked /\ r.of \in DOMAIN asked.subfolders
    BY <1>1 DEF IInv, Types, Works
  <2>2. asked.files \in [DOMAIN asked.subfolders -> Nat] /\ IsTree(asked.subfolders)
    BY <2>1, ActionsAssumption
  <2>3. asked.subfolders[r.of] \in Seq(SUBSET (DOMAIN asked.subfolders \ {0}))
    BY <2>1, <2>2 DEF IsTree
  <2>. QED  BY <2>1, <2>2, <2>3, LenProperties
\* The chunks of the kind that was asked for.
<1>6. ASSUME NEW next \in Nat, NEW after, NEW total \in Nat,
             ChunksGot(r.of, r.kind, next, Most(1, total)),
             ok => /\ after = IF r.arg >= total THEN 0 ELSE next + 1
                   /\ a.got = w.got \cup {<<r.kind, r.arg>>}
      PROVE  /\ \A n \in Nat : ~Asks(r.of, r.kind, n)'
             /\ a.errors = {} =>
                   /\ after <= Most(1, total)
                   /\ \A n \in Nat : <<r.kind, n>> \in a.got <=>
                         n \in 1 .. (IF after = 0 THEN Most(1, total) ELSE after - 1)
  <2>1. \A n \in Nat : ~Asks(r.of, r.kind, n)'
    BY <1>1
  <2>2. r.arg = next
    BY <1>1, <1>4, <1>6 DEF ChunksGot
  <2>3. ASSUME a.errors = {}
        PROVE  /\ after <= Most(1, total)
               /\ \A n \in Nat : <<r.kind, n>> \in a.got <=>
                         n \in 1 .. (IF after = 0 THEN Most(1, total) ELSE after - 1)
    <3>1. ok /\ w.errors = {}
      BY <1>1, <1>2, <2>3
    <3>2. /\ next <= Most(1, total)
          /\ \A n \in Nat : <<r.kind, n>> \in w.got <=> n \in 1 .. next - 1
      BY <1>4, <1>6, <2>2, <3>1 DEF ChunksGot, w
    <3>3. Most(1, total) \in Nat
      BY DEF Most
    <3>4. /\ after = IF next >= total THEN 0 ELSE next + 1
          /\ a.got = w.got \cup {<<r.kind, next>>}
          /\ next \in Nat \ {0}
      BY <1>1, <1>4, <1>6, <2>2, <3>1
    <3>5. \A n \in Nat : <<r.kind, n>> \in a.got <=> n \in 1 .. next
      BY <3>2, <3>4
    <3>6. Most(1, total) = IF 1 < total THEN total ELSE 1
      BY DEF Most
    <3>7. CASE next >= total
      <4>1. next = Most(1, total) /\ after = 0
        BY <1>6, <3>2, <3>4, <3>6, <3>7
      <4>. QED  BY <3>3, <3>5, <4>1
    <3>8. CASE next < total
      <4>1. next + 1 <= Most(1, total) /\ after = next + 1
        BY <1>6, <3>4, <3>6, <3>8
      <4>. QED  BY <3>4, <3>5, <4>1
    <3>. QED  BY <1>6, <3>4, <3>7, <3>8
  <2>. QED  BY <2>1, <2>3
\* The chunks of the other kind.
<1>7. ASSUME NEW k, k # r.kind, NEW next, NEW last, ChunksGot(r.of, k, next, last),
             \A n \in Nat : <<k, n>> \in a.got <=> <<k, n>> \in w.got
      PROVE  /\ \A n \in Nat : Asks(r.of, k, n)' => n = next
             /\ a.errors = {} =>
                   /\ next <= last
                   /\ \A n \in Nat : <<k, n>> \in a.got <=>
                         n \in 1 .. (IF next = 0 THEN last ELSE next - 1)
  <2>1. a.errors = {} => w.errors = {}
    BY <1>1, <1>2
  <2>. QED  BY <1>1, <1>7, <2>1 DEF ChunksGot, w
<1>8. AllChunks(r.of)'
  <2>0. /\ ChunksGot(r.of, "files", w.files, LastFiles(r.of))
        /\ ChunksGot(r.of, "folders", w.folders, LastFolders(r.of))
        /\ w.files \in Nat /\ w.folders \in Nat /\ r.of \notin Over'
    BY <1>1, <1>3 DEF CloneInv, AllChunks, w, WorkRecord
  <2>1. CASE r.kind = "files"
    <3>1. ChunksGot(r.of, "files", work[r.of].files, LastFiles(r.of))'
      <4>1. ChunksGot(r.of, r.kind, w.files, Most(1, asked.files[r.of]))
        BY <2>0, <2>1 DEF LastFiles
      <4>2. ok => /\ a.files = IF r.arg >= asked.files[r.of] THEN 0 ELSE w.files + 1
                  /\ a.got = w.got \cup {<<r.kind, r.arg>>}
        BY <1>2, <2>1
      <4>3. /\ \A n \in Nat : ~Asks(r.of, r.kind, n)'
            /\ a.errors = {} =>
                 /\ a.files <= Most(1, asked.files[r.of])
                 /\ \A n \in Nat : <<r.kind, n>> \in a.got <=>
                       n \in 1 .. (IF a.files = 0 THEN Most(1, asked.files[r.of]) ELSE a.files - 1)
        BY <1>5, <1>6, <2>0, <4>1, <4>2
      <4>4. LastFiles(r.of)' = Most(1, asked.files[r.of])
        BY <1>1, <1>3 DEF LastFiles
      <4>. QED  BY <2>0, <2>1, <4>3, <4>4 DEF ChunksGot
    <3>2. ChunksGot(r.of, "folders", work[r.of].folders, LastFolders(r.of))'
      <4>1. \A n \in Nat : <<"folders", n>> \in a.got <=> <<"folders", n>> \in w.got
        BY <1>1, <1>2, <2>1
      <4>2. /\ \A n \in Nat : Asks(r.of, "folders", n)' => n = w.folders
            /\ a.errors = {} =>
                 /\ w.folders <= LastFolders(r.of)
                 /\ \A n \in Nat : <<"folders", n>> \in a.got <=>
                       n \in 1 .. (IF w.folders = 0 THEN LastFolders(r.of) ELSE w.folders - 1)
        BY <1>7, <2>0, <2>1, <4>1
      <4>3. a.folders = w.folders /\ LastFolders(r.of)' = LastFolders(r.of)
        BY <1>1, <1>2, <1>3, <2>1
      <4>. QED  BY <2>0, <4>2, <4>3 DEF ChunksGot
    <3>. QED  BY <3>1, <3>2 DEF AllChunks
  <2>2. CASE r.kind = "folders"
    <3>1. ChunksGot(r.of, "folders", work[r.of].folders, LastFolders(r.of))'
      <4>1. ChunksGot(r.of, r.kind, w.folders, Most(1, Len(asked.subfolders[r.of])))
        BY <2>0, <2>2 DEF LastFolders
      <4>2. ok => /\ a.folders = IF r.arg >= Len(asked.subfolders[r.of]) THEN 0 ELSE w.folders + 1
                  /\ a.got = w.got \cup {<<r.kind, r.arg>>}
        BY <1>2, <2>2
      <4>3. /\ \A n \in Nat : ~Asks(r.of, r.kind, n)'
            /\ a.errors = {} =>
                 /\ a.folders <= Most(1, Len(asked.subfolders[r.of]))
                 /\ \A n \in Nat : <<r.kind, n>> \in a.got <=>
                       n \in 1 .. (IF a.folders = 0 THEN Most(1, Len(asked.subfolders[r.of])) ELSE a.folders - 1)
        BY <1>5, <1>6, <2>0, <4>1, <4>2
      <4>4. LastFolders(r.of)' = Most(1, Len(asked.subfolders[r.of]))
        BY <1>1, <1>3 DEF LastFolders
      <4>. QED  BY <2>0, <2>2, <4>3, <4>4 DEF ChunksGot
    <3>2. ChunksGot(r.of, "files", work[r.of].files, LastFiles(r.of))'
      <4>1. \A n \in Nat : <<"files", n>> \in a.got <=> <<"files", n>> \in w.got
        BY <1>1, <1>2, <2>2
      <4>2. /\ \A n \in Nat : Asks(r.of, "files", n)' => n = w.files
            /\ a.errors = {} =>
                 /\ w.files <= LastFiles(r.of)
                 /\ \A n \in Nat : <<"files", n>> \in a.got <=>
                       n \in 1 .. (IF w.files = 0 THEN LastFiles(r.of) ELSE w.files - 1)
        BY <1>7, <2>0, <2>2, <4>1
      <4>3. a.files = w.files /\ LastFiles(r.of)' = LastFiles(r.of)
        BY <1>1, <1>2, <1>3, <2>2
      <4>. QED  BY <2>0, <4>2, <4>3 DEF ChunksGot
    <3>. QED  BY <3>1, <3>2 DEF AllChunks
  <2>. QED  BY <1>4, <2>1, <2>2
<1>9. ASSUME NEW v \in Works, v # r.of  PROVE AllChunks(v)'
  <2>1. AllChunks(v) /\ work'[v] = work[v] /\ \A k, n : Asks(v, k, n)' <=> Asks(v, k, n)
    BY <1>1, <1>9 DEF CloneInv
  <2>. QED  BY <1>3, <2>1 DEF AllChunks, ChunksGot
<1>. QED  BY <1>1, <1>3, <1>8, <1>9, MainWaitsKeeps DEF CloneInv

\* The numbers of a poll.
LEMMA PollNumbers ==
  ASSUME RevisionsFit, Types, asked.kind # "clone"
  PROVE  /\ asked.kind \in {"poll", "foreign"}
         /\ Works = 0 .. Latest /\ 0 \in Works /\ Latest \in Nat
         /\ asked.known \in Nat /\ Page \in Nat /\ Modulus \in Nat
         /\ Latest + Page < Modulus /\ asked.known + 1 + Page < Modulus
         /\ work[0].start \in Nat /\ work[0].latest \in Nat
<1>1. asked \in Asked /\ Page \in Nat /\ Modulus \in Nat
  BY ActionsAssumption DEF Types
<1>2. /\ asked.kind \in {"poll", "foreign"}
      /\ asked.known \in 0 .. Modulus - 1 /\ asked.changed \in Seq(Changes)
  BY <1>1, ActionsAssumption
<1>3. Latest + Page < Modulus /\ asked.known + 1 + Page < Modulus
  BY <1>1 DEF RevisionsFit, Latest
<1>4. work[0] \in WorkRecord /\ 0 \in Works
  BY <1>1, WorksFinite DEF Types
<1>5. work[0].start \in 0 .. Modulus - 1 /\ work[0].latest \in 0 .. Modulus - 1
  BY <1>4 DEF WorkRecord
<1>. QED  BY <1>1, <1>2, <1>3, <1>4, <1>5, LenProperties DEF Works, Latest

\* An answer to the first work of a poll.
LEMMA HandleResponsePages ==
  ASSUME RevisionsFit, IInv, PagesGot, asked.kind # "clone",
         NEW r \in requests, NEW ok \in BOOLEAN, HandleResponse(r, ok)
  PROVE  r.of = 0 => PagesGot'
<1>0. /\ r \in RequestRecord /\ r.of \in Works /\ r.of \notin Over
      /\ work[r.of] \in WorkRecord
      /\ asked' = asked /\ MainWaits
      /\ \A v, k, n : Asks(v, k, n)' <=> Asks(v, k, n) /\ ~(v = r.of /\ k = r.kind)
      /\ \A n : Asks(r.of, r.kind, n) <=> n = r.arg
      /\ AnswerChanges(work[r.of], r, ok, work'[r.of])
  BY HandleResponseAsks
<1>. SUFFICES ASSUME r.of = 0  PROVE PagesGot'
  OBVIOUS
<1>. DEFINE w == work[0]
            x == work'[0]
<1>1. /\ r \in RequestRecord /\ 0 \in Works /\ 0 \notin Over
      /\ w \in WorkRecord
      /\ asked' = asked /\ MainWaits
      /\ \A k, n : Asks(0, k, n)' <=> Asks(0, k, n) /\ k # r.kind
      /\ \A n : Asks(0, r.kind, n) <=> n = r.arg
      /\ AnswerChanges(w, r, ok, x)
  BY <1>0
<1>2. /\ x.first = w.first
      /\ x.errors = IF ok THEN w.errors ELSE w.errors \cup {<<r.of, r.kind, r.arg>>}
      /\ r.kind # "changes" => x.start = w.start
      /\ ok /\ r.kind = "status" => x.latest = Latest /\ x.got = w.got
      /\ ok /\ r.kind = "changes" =>
           /\ x.start = MaxRevision(r.arg)
           /\ x.latest = IF asked.kind = "foreign" THEN Latest ELSE w.latest
           /\ x.got = w.got \cup PageAfter(r.arg)
  BY <1>1 DEF AnswerChanges
<1>3. Latest' = Latest /\ 0 \notin Over'
  BY <1>1 DEF Latest, MainWaits
<1>4. r.kind \in {"status", "changes"} /\ r.arg \in Nat
  BY RequestsOfKind DEF IInv, Types, RequestRecord
<1>5. /\ \A n \in Nat : Asks(0, "changes", n) =>
            n = w.start /\ (w.errors = {} => n + 1 + Page < Modulus)
      /\ w.errors = {} =>
            /\ w.start >= asked.known
            /\ \A v \in 1 .. Latest : v \in w.got <=> asked.known < v /\ v <= w.start
            /\ asked.kind = "poll" =>
                  w.first \/ w.latest = Latest \/ \E n \in Nat : Asks(0, "status", n)
            /\ asked.kind = "foreign" =>
                  w.latest = Latest \/ (w.latest = Modulus - 1 /\ w.start = asked.known)
  BY DEF PagesGot
<1>6. /\ Latest \in Nat /\ asked.known \in Nat /\ w.start \in Nat
      /\ asked.kind \in {"poll", "foreign"}
  BY PollNumbers DEF IInv
<1>. HIDE DEF w, x
<1>7. \A n \in Nat : Asks(0, "changes", n)' =>
         n = x.start /\ (x.errors = {} => n + 1 + Page < Modulus)
  <2>1. CASE r.kind = "changes"
    BY <1>1, <2>1
  <2>2. CASE r.kind = "status"
    <3>1. x.start = w.start /\ (x.errors = {} => w.errors = {})
      BY <1>1, <1>2, <2>2
    <3>. QED  BY <1>1, <1>5, <3>1
  <2>. QED  BY <1>4, <2>1, <2>2
<1>8. ASSUME x.errors = {}
      PROVE  /\ x.start >= asked.known
             /\ \A v \in 1 .. Latest : v \in x.got <=> asked.known < v /\ v <= x.start
             /\ asked.kind = "poll" =>
                  x.first \/ x.latest = Latest \/ \E n \in Nat : Asks(0, "status", n)'
             /\ asked.kind = "foreign" =>
                  x.latest = Latest \/ (x.latest = Modulus - 1 /\ x.start = asked.known)
  <2>1. ok /\ w.errors = {}
    BY <1>1, <1>2, <1>8
  <2>2. CASE r.kind = "status"
    BY <1>1, <1>2, <1>5, <2>1, <2>2
  <2>3. CASE r.kind = "changes"
    <3>1. r.arg = w.start /\ w.start + 1 + Page < Modulus
      BY <1>1, <1>4, <1>5, <2>1, <2>3
    <3>2. MaxRevision(w.start) \in Nat /\ MaxRevision(w.start) > w.start
      BY <1>6, <3>1, MaxRevisionLater
    <3>3. /\ x.start = MaxRevision(w.start) /\ x.first = w.first
          /\ x.got = w.got \cup {v \in 1 .. Latest : w.start < v /\ v <= x.start}
          /\ x.latest = IF asked.kind = "foreign" THEN Latest ELSE w.latest
      BY <1>1, <1>2, <2>1, <2>3, <3>1 DEF PageAfter
    <3>4. x.start \in Nat /\ x.start >= asked.known /\ w.start >= asked.known /\ x.start > w.start
      BY <1>5, <1>6, <2>1, <3>2, <3>3
    <3>5. \A v \in 1 .. Latest : v \in x.got <=> asked.known < v /\ v <= x.start
      BY <1>5, <1>6, <2>1, <3>3, <3>4
    <3>6. asked.kind = "poll" =>
            x.first \/ x.latest = Latest \/ \E n \in Nat : Asks(0, "status", n)'
      BY <1>1, <1>5, <2>1, <2>3, <3>3
    <3>. QED  BY <3>3, <3>4, <3>5, <3>6
  <2>. QED  BY <1>4, <2>2, <2>3
<1>. QED  BY <1>1, <1>3, <1>7, <1>8 DEF PagesGot, x

\* An answer brings the changes or the info that was asked for.
LEMMA HandleResponsePoll ==
  ASSUME RevisionsFit, IInv, PollInv, asked.kind # "clone",
         NEW r \in requests, NEW ok \in BOOLEAN, HandleResponse(r, ok)
  PROVE  PollInv'
<1>1. /\ r \in RequestRecord /\ r.of \in Works /\ r.of \notin Over
      /\ work[r.of] \in WorkRecord
      /\ asked' = asked /\ MainWaits
      /\ \A v, k, n : Asks(v, k, n)' <=> Asks(v, k, n) /\ ~(v = r.of /\ k = r.kind)
      /\ \A n : Asks(r.of, r.kind, n) <=> n = r.arg
      /\ \A v \in Works : v # r.of => work'[v] = work[v]
  BY HandleResponseAsks
<1>2. Works' = Works /\ Latest' = Latest /\ Over' = Over
  BY <1>1 DEF Works, Latest, MainWaits
<1>3. 0 \in Works
  BY WorksFinite DEF IInv, Types
<1>4. PagesGot'
  <2>1. CASE r.of = 0
    BY <2>1, HandleResponsePages DEF PollInv
  <2>2. CASE r.of # 0
    <3>1. work'[0] = work[0] /\ \A k, n : Asks(0, k, n)' <=> Asks(0, k, n)
      BY <1>1, <1>3, <2>2
    <3>. QED  BY <1>1, <1>2, <3>1 DEF PollInv, PagesGot
  <2>. QED  BY <2>1, <2>2
<1>5. ASSUME NEW w \in Works \ {0}  PROVE InfoGot(w)'
  <2>1. CASE w # r.of
    <3>1. work'[w] = work[w] /\ \A k, n : Asks(w, k, n)' <=> Asks(w, k, n)
      BY <1>1, <2>1
    <3>. QED  BY <1>2, <1>5, <3>1 DEF PollInv, InfoGot
  <2>2. CASE w = r.of
    <3>1. r.kind = "info"
      BY <2>2, RequestsOfKind DEF IInv
    <3>2. AnswerChanges(work[r.of], r, ok, work'[r.of])
      BY HandleResponseAsks
    <3>3. work'[r.of].errors # {} \/ work'[r.of].got = {r.of}
      BY <3>1, <3>2 DEF AnswerChanges
    <3>. QED  BY <1>1, <1>2, <2>2, <3>3 DEF InfoGot
  <2>. QED  BY <2>1, <2>2
<1>6. ChangesKnown' /\ InfoKnown'
  BY <1>1, MainWaitsKeeps DEF PollInv
<1>. QED  BY <1>2, <1>4, <1>5, <1>6 DEF PollInv

\* An answer keeps what the works bring.
LEMMA HandleResponseResult ==
  ASSUME RevisionsFit, IInv, ResultInv, NEW r \in requests, NEW ok \in BOOLEAN,
         HandleResponse(r, ok)
  PROVE  ResultInv'
<1>1. asked' = asked
  BY DEF HandleResponse
<1>2. ErrorsInv'
  BY HandleResponseErrors DEF ResultInv
<1>3. asked.kind = "clone" => CloneInv'
  BY HandleResponseClone DEF ResultInv
<1>4. asked.kind # "clone" => PollInv'
  BY HandleResponsePoll DEF ResultInv
<1>. QED  BY <1>1, <1>2, <1>3, <1>4 DEF ResultInv

\* A work calls its callback: what main gets.
LEMMA WorkReturnsResults ==
  ASSUME IInv, WorkReturns
  PROVE  LET w == work[running]
         IN  /\ asked.kind = "clone" =>
                  /\ results'.got = results.got \cup {<<running, x>> : x \in w.got}
                  /\ results'.errors = results.errors \cup w.errors
             /\ asked.kind # "clone" /\ running = 0 =>
                  /\ results'.got = {u \in w.got : asked.changed[u] # "trash"}
                  /\ results'.errors = w.errors
                  /\ results'.info = results.info
                  /\ asked.kind = "poll" => results'.revision = w.latest
             /\ asked.kind # "clone" /\ running # 0 =>
                  /\ results'.got = results.got /\ results'.revision = results.revision
                  /\ IF asked.kind = "poll" /\ w.errors # {}
                     THEN /\ results'.errors = results.errors \cup w.errors
                          /\ results'.info = results.info
                     ELSE /\ results'.errors = results.errors
                          /\ results'.info = Append(results.info, w.got)
<1>. DEFINE v == running
            w == work[v]
            all == [results EXCEPT !.got = @ \cup {<<v, x>> : x \in w.got},
                                   !.errors = @ \cup w.errors]
            changes == [results EXCEPT
                          !.revision = IF asked.kind = "poll" THEN w.latest ELSE w.start,
                          !.got = {u \in w.got : asked.changed[u] # "trash"},
                          !.errors = w.errors]
<1>1. (CASE asked.kind = "clone" -> results' = all
         [] WorkKind(v) \in {"changes", "foreign"} -> results' = changes
         [] OTHER -> results' = HandleGetInfo(w))
  BY DEF WorkReturns
<1>2. v \in Works /\ results \in ResultRecord /\ asked \in Asked
  BY DEF WorkReturns, IInv, Types
<1>3. /\ asked.kind = "clone" => results' = all
      /\ asked.kind # "clone" /\ v = 0 => results' = changes
      /\ asked.kind # "clone" /\ v # 0 => results' = HandleGetInfo(w)
  <2>. HIDE DEF all, changes, w
  <2>1. /\ asked.kind # "clone" /\ v = 0 => WorkKind(v) \in {"changes", "foreign"}
        /\ asked.kind # "clone" /\ v # 0 => WorkKind(v) \notin {"changes", "foreign"}
    BY <1>2, WorkKinds
  <2>2. asked.kind = "clone" => WorkKind(v) \notin {"changes", "foreign"}
    BY <1>2, WorkKinds
  <2>3. CASE asked.kind = "clone"
    BY <1>1, <2>2, <2>3
  <2>4. CASE asked.kind # "clone" /\ v = 0
    BY <1>1, <2>1, <2>4
  <2>5. CASE asked.kind # "clone" /\ v # 0
    BY <1>1, <2>1, <2>5
  <2>. QED  BY <2>3, <2>4, <2>5
<1>4. /\ all.got = results.got \cup {<<v, x>> : x \in w.got}
      /\ all.errors = results.errors \cup w.errors
  BY <1>2 DEF ResultRecord
<1>5. /\ changes.got = {u \in w.got : asked.changed[u] # "trash"}
      /\ changes.errors = w.errors /\ changes.info = results.info
      /\ changes.revision = IF asked.kind = "poll" THEN w.latest ELSE w.start
  BY <1>2 DEF ResultRecord
<1>6. /\ HandleGetInfo(w).got = results.got /\ HandleGetInfo(w).revision = results.revision
      /\ IF asked.kind = "poll" /\ w.errors # {}
         THEN /\ HandleGetInfo(w).errors = results.errors \cup w.errors
              /\ HandleGetInfo(w).info = results.info
         ELSE /\ HandleGetInfo(w).errors = results.errors
              /\ HandleGetInfo(w).info = Append(results.info, w.got)
  <2>1. CASE asked.kind = "poll" /\ w.errors # {}
    BY <1>2, <2>1 DEF ResultRecord, HandleGetInfo
  <2>2. CASE ~(asked.kind = "poll" /\ w.errors # {})
    BY <1>2, <2>2 DEF ResultRecord, HandleGetInfo
  <2>. QED  BY <2>1, <2>2
<1>7. asked.kind = "clone" =>
         /\ results'.got = results.got \cup {<<v, x>> : x \in w.got}
         /\ results'.errors = results.errors \cup w.errors
  BY <1>3, <1>4
<1>8. asked.kind # "clone" /\ v = 0 =>
         /\ results'.got = {u \in w.got : asked.changed[u] # "trash"}
         /\ results'.errors = w.errors
         /\ results'.info = results.info
         /\ asked.kind = "poll" => results'.revision = w.latest
  <2>. HIDE DEF changes
  <2>. QED  BY <1>3, <1>5
<1>9. asked.kind # "clone" /\ v # 0 =>
         /\ results'.got = results.got /\ results'.revision = results.revision
         /\ IF asked.kind = "poll" /\ w.errors # {}
            THEN /\ results'.errors = results.errors \cup w.errors
                 /\ results'.info = results.info
            ELSE /\ results'.errors = results.errors
                 /\ results'.info = Append(results.info, w.got)
  BY <1>3, <1>6
<1>. QED  BY <1>7, <1>8, <1>9

\* A work calls its callback, which resumes main.
LEMMA WorkReturnsResumes ==
  ASSUME IInv, WorkReturns
  PROVE  \E keys :
            /\ Resume(keys)
            /\ asked.kind = "clone" =>
                 keys = main.keys \o SetToSeq(UNION {Subfolders(running, x[2]) :
                           x \in {x \in work[running].got : x[1] = "folders"}})
<1>. DEFINE v == running
            w == work[v]
            subfolders == UNION {Subfolders(v, x[2]) :
                                   x \in {x \in w.got : x[1] = "folders"}}
            more == main.keys \o SetToSeq(subfolders)
            all == [results EXCEPT !.got = @ \cup {<<v, x>> : x \in w.got},
                                   !.errors = @ \cup w.errors]
            changes == [results EXCEPT
                          !.revision = IF asked.kind = "poll" THEN w.latest ELSE w.start,
                          !.got = {u \in w.got : asked.changed[u] # "trash"},
                          !.errors = w.errors]
<1>1. (CASE asked.kind = "clone" -> results' = all /\ Resume(more)
         [] WorkKind(v) \in {"changes", "foreign"} -> results' = changes /\ Resume(<<>>)
         [] OTHER -> results' = HandleGetInfo(w) /\ Resume(<<>>))
  BY DEF WorkReturns
<1>. HIDE DEF more, all, changes, w
<1>2. asked.kind = "clone" => WorkKind(v) \notin {"changes", "foreign"}
  BY DEF WorkKind
<1>3. CASE asked.kind = "clone"
  <2>1. Resume(more)
    BY <1>1, <1>2, <1>3
  <2>. QED  BY <2>1 DEF more, w
<1>4. CASE asked.kind # "clone"
  <2>1. Resume(<<>>)
    BY <1>1, <1>4
  <2>. QED  BY <1>4, <2>1
<1>. QED  BY <1>3, <1>4

\* A work calls its callback: it is over, and main goes on.
LEMMA WorkReturnsOver ==
  ASSUME IInv, WorkReturns
  PROVE  /\ running \in Works /\ running \in InState("running") /\ running \notin Over
         /\ Round(running) = {}
         /\ asked' = asked /\ failed' = failed
         /\ Over' = Over \cup {running} /\ Pending' = Pending \ {running}
         /\ InState("new")' = InState("new") /\ InState("dropped")' = InState("dropped")
         /\ \A w, k, n : Asks(w, k, n)' <=> Asks(w, k, n)
         /\ \A k, n : ~Asks(running, k, n)
         /\ \A w \in Works :
               /\ work'[w].first = work[w].first
               /\ work'[w].files = work[w].files /\ work'[w].folders = work[w].folders
               /\ work'[w].start = work[w].start /\ work'[w].latest = work[w].latest
               /\ work'[w].got = work[w].got /\ work'[w].errors = work[w].errors
               /\ work'[w].cancelled = work[w].cancelled
         /\ main'.phase = main.phase /\ main'.iterations = main.iterations
         /\ main'.cancelled = main.cancelled /\ main'.pc # "ended"
<1>. DEFINE v == running
<1>1. /\ ~MainRuns /\ v # None /\ work[v].state = "running" /\ Round(v) = {}
      /\ work' = [work EXCEPT ![v].state = "returned"]
      /\ UNCHANGED <<asked, limit, running, work_queue, in_progress, posted, requests,
                     failed>>
  BY DEF WorkReturns, managerVars
<1>2. v \in Works /\ v \in InState("running") /\ v \in Pending
      /\ work \in [Works -> WorkRecord] /\ main \in MainRecord
  BY <1>1 DEF IInv, Types, InState, Pending
<1>3. main.pc = "yielded"
  BY <1>1, <1>2, MainYielded
<1>4. \E keys : Resume(keys)
  BY WorkReturnsResumes
<1>5. PICK keys : main' = [main EXCEPT !.keys = keys,
                                       !.pc = IF main.yields = 0 /\ ~main.more
                                              THEN "body" ELSE "execute"]
  BY <1>3, <1>4 DEF Resume
<1>6. /\ main'.phase = main.phase /\ main'.iterations = main.iterations
      /\ main'.cancelled = main.cancelled /\ main'.pc # "ended"
  BY <1>2, <1>5 DEF MainRecord
<1>7. "returned" \in States /\ "running" \in States
  BY DEF States
<1>8. /\ InState("running")' = InState("running") \ {v}
      /\ InState("returned")' = InState("returned") \cup {v}
      /\ \A s \in States \ {"running", "returned"} : InState(s)' = InState(s)
      /\ \A s : s # "running" => v \notin InState(s)
  BY <1>1, <1>2, <1>7, StateMoves
<1>9. /\ Over' = Over \cup {v} /\ Pending' = Pending \ {v} /\ v \notin Over
      /\ InState("new")' = InState("new") /\ InState("dropped")' = InState("dropped")
  BY <1>8 DEF Over, Pending, States
<1>10. \A k, n : ~Asks(v, k, n)
  <2>1. KindsOf(v, requests) = {}
    BY <1>2, <1>8 DEF IInv, RequestsOK
  <2>. QED  BY <2>1 DEF KindsOf, Asks
<1>. QED  BY <1>1, <1>2, <1>6, <1>7, <1>9, <1>10, OneStateMembers, SameAsked

\* The keys that main has when it goes on.
LEMMA WorkReturnsKeys ==
  ASSUME IInv, WorkReturns, asked.kind = "clone"
  PROVE  Range(main'.keys) = Range(main.keys) \cup
            UNION {Subfolders(running, x[2]) :
                     x \in {x \in work[running].got : x[1] = "folders"}}
<1>. DEFINE subfolders == UNION {Subfolders(running, x[2]) :
                                   x \in {x \in work[running].got : x[1] = "folders"}}
<1>1. /\ ~MainRuns /\ running # None /\ work[running].state = "running"
  BY DEF WorkReturns
<1>0. Resume(main.keys \o SetToSeq(subfolders))
  BY WorkReturnsResumes
<1>2. /\ running \in InState("running") /\ running \in Pending /\ main \in MainRecord
      /\ main.keys \in Seq(Works)
  BY <1>1 DEF IInv, Types, InState, Pending, MainRecord
<1>3. main.pc = "yielded"
  BY <1>1, <1>2, MainYielded
<1>4. main'.keys = main.keys \o SetToSeq(subfolders)
  <2>. HIDE DEF subfolders
  <2>. QED  BY <1>0, <1>2, <1>3 DEF Resume, MainRecord
<1>5. subfolders \subseteq Works /\ IsFiniteSet(subfolders)
  <2>1. subfolders \subseteq InState("new") /\ IsFiniteSet(subfolders)
    BY <1>2, SubfoldersNew DEF IInv
  <2>. QED  BY <2>1, BusyStates
<1>. HIDE DEF subfolders
<1>6. SetToSeq(subfolders) \in Seq(subfolders) /\ Range(SetToSeq(subfolders)) = subfolders
  BY <1>5, OnceSet
<1>7. SetToSeq(subfolders) \in Seq(Works)
  BY <1>5, <1>6, SeqMonotonic
<1>8. Range(main'.keys) = Range(main.keys) \cup subfolders
  BY <1>2, <1>4, <1>6, <1>7, RangeConcatenation
<1>. QED  BY <1>8 DEF subfolders

\* As long as the first work of a poll has not returned, no other has been queued.
LEMMA FirstWorkAlone ==
  ASSUME IInv, ChangesFirst, asked.kind # "clone", 0 \notin Over
  PROVE  \A w \in Works : w # 0 => w \in InState("new") /\ w \notin Over
<1>. TAKE w \in Works
<1>1. ASSUME w # 0  PROVE w \in InState("new")
  <2>1. main.phase \in 1 .. 4
    BY DEF IInv, Types, MainRecord
  <2>2. main.phase \in 1 .. 2
    BY <2>1 DEF ChangesFirst
  <2>3. PhaseOf(w) \in {2, 3}
    BY <1>1 DEF PhaseOf
  <2>4. PhaseOf(w) >= main.phase
    BY <2>2, <2>3
  <2>. QED  BY <2>4 DEF IInv, Keys
<1>. QED  BY <1>1 DEF Over, InState

\* main is told of every error when the work is over.
LEMMA WorkReturnsErrors ==
  ASSUME IInv, ErrorsInv, WorkReturns
  PROVE  ErrorsInv'
<1>. DEFINE w == work[running]
<1>1. /\ running \in Works /\ running \notin Over
      /\ asked' = asked /\ failed' = failed
      /\ Over' = Over \cup {running} /\ Pending' = Pending \ {running}
      /\ InState("dropped")' = InState("dropped")
      /\ \A v \in Works : work'[v].errors = work[v].errors /\ work'[v].cancelled = work[v].cancelled
      /\ main'.phase = main.phase /\ main'.cancelled = main.cancelled
  BY WorkReturnsOver
<1>2. /\ asked.kind = "clone" => results'.errors = results.errors \cup w.errors
      /\ asked.kind # "clone" /\ running = 0 => results'.errors = w.errors
      /\ asked.kind # "clone" /\ running # 0 =>
            IF asked.kind = "poll" /\ w.errors # {}
            THEN results'.errors = results.errors \cup w.errors
            ELSE results'.errors = results.errors
  BY WorkReturnsResults
<1>3. Works' = Works /\ \A v : KindsFor(v)' = KindsFor(v)
  BY <1>1 DEF Works, KindsFor, WorkKind
<1>4. CancelNoted'
  BY <1>1, <1>3 DEF ErrorsInv, CancelNoted
<1>5. ChangesFirst'
  BY <1>1 DEF ErrorsInv, ChangesFirst
<1>6. /\ \A f \in failed' : f[1] \in Works' /\ f \in work'[f[1]].errors
      /\ \A v \in Works' : work'[v].errors # {} => v \in Pending' \cup Over'
      /\ \A v \in Works' : \A e \in work'[v].errors : e[2] \in KindsFor(v)'
  BY <1>1, <1>3 DEF ErrorsInv, FailuresKept
<1>7. ASSUME NEW v \in Over', NEW e \in work'[v].errors
      PROVE  e \in results'.errors \/ (asked.kind = "foreign" /\ e[2] = "info")
  <2>1. v \in Works /\ e \in work[v].errors
    BY <1>1, <1>7, OverWorks
  <2>2. CASE v = running
    <3>1. CASE asked.kind = "foreign" /\ running # 0
      <4>1. KindsFor(running) = {"info"}
        BY <1>1, <3>1, WorkKinds DEF KindsFor, IInv, Types
      <4>. QED  BY <2>1, <2>2, <3>1, <4>1 DEF ErrorsInv, FailuresKept
    <3>2. CASE ~(asked.kind = "foreign" /\ running # 0)
      <4>1. asked.kind \in {"clone", "poll", "foreign"}
        BY <1>1, WorkKinds DEF IInv, Types
      <4>2. w.errors # {} /\ e \in w.errors
        BY <2>1, <2>2
      <4>. HIDE DEF w
      <4>. QED  BY <1>2, <3>2, <4>1, <4>2
    <3>. QED  BY <3>1, <3>2
  <2>3. CASE v # running
    <3>1. v \in Over
      BY <1>1, <2>3
    <3>2. e \in results.errors \/ (asked.kind = "foreign" /\ e[2] = "info")
      BY <2>1, <3>1 DEF ErrorsInv, FailuresKept
    <3>3. ~(asked.kind # "clone" /\ running = 0)
      <4>. SUFFICES ASSUME asked.kind # "clone", running = 0  PROVE FALSE
        OBVIOUS
      <4>1. v # 0 /\ 0 \notin Over
        BY <1>1, <2>3
      <4>. QED  BY <2>1, <3>1, <4>1, FirstWorkAlone DEF ErrorsInv
    <3>4. results.errors \subseteq results'.errors
      <4>. HIDE DEF w
      <4>. QED  BY <1>2, <3>3
    <3>. QED  BY <3>2, <3>4
  <2>. QED  BY <2>2, <2>3
<1>8. FailuresKept'
  <2>1. \A v \in Over' : \A e \in work'[v].errors :
          e \in results'.errors \/ (asked'.kind = "foreign" /\ e[2] = "info")
    BY <1>1, <1>7
  <2>. QED  BY <1>6, <2>1 DEF FailuresKept
<1>. QED  BY <1>4, <1>5, <1>8 DEF ErrorsInv

\* main gets all that a folder has brought, and the folders in it as keys.
LEMMA WorkReturnsClone ==
  ASSUME IInv, CloneInv, asked.kind = "clone", WorkReturns
  PROVE  CloneInv'
<1>. DEFINE subfolders == UNION {Subfolders(running, x[2]) :
                                   x \in {x \in work[running].got : x[1] = "folders"}}
<1>1. /\ running \in Works /\ running \notin Over
      /\ Round(running) = {}
      /\ asked' = asked
      /\ Over' = Over \cup {running}
      /\ InState("new")' = InState("new")
      /\ \A w, k, n : Asks(w, k, n)' <=> Asks(w, k, n)
      /\ \A w \in Works :
            /\ work'[w].files = work[w].files /\ work'[w].folders = work[w].folders
            /\ work'[w].got = work[w].got /\ work'[w].errors = work[w].errors
            /\ work'[w].cancelled = work[w].cancelled
      /\ main'.iterations = main.iterations /\ main'.pc # "ended"
  BY WorkReturnsOver
<1>2. results'.got = results.got \cup {<<running, x>> : x \in work[running].got}
  BY WorkReturnsResults
<1>3. Range(main'.keys) = Range(main.keys) \cup subfolders
  BY WorkReturnsKeys
<1>4. /\ Works' = Works
      /\ \A w : LastFiles(w)' = LastFiles(w) /\ LastFolders(w)' = LastFolders(w)
      /\ \A w, n : Subfolders(w, n)' = Subfolders(w, n)
  BY <1>1 DEF Works, LastFiles, LastFolders, Subfolders
<1>5. \A k \in {"files", "folders"} : work[running].cancelled \/ work[running][k] = 0
  <2>1. WorkKind(running) = "contents"
    BY <1>1, WorkKinds DEF IInv, Types
  <2>2. \A k \in {"files", "folders"} : ~(work[running][k] > 0 /\ ~work[running].cancelled)
    BY <1>1, <2>1 DEF Round
  <2>3. work[running].files \in Nat /\ work[running].folders \in Nat
    BY <1>1 DEF IInv, Types, WorkRecord
  <2>. QED  BY <2>2, <2>3
<1>6. ASSUME NEW w \in Works  PROVE AllChunks(w)'
  <2>1. AllChunks(w)
    BY DEF CloneInv
  <2>2. ChunksGot(w, "files", work[w].files, LastFiles(w))'
    <3>1. ChunksGot(w, "files", work[w].files, LastFiles(w))
      BY <2>1 DEF AllChunks
    <3>2. w = running => work[w].cancelled \/ work[w].files = 0
      BY <1>5
    <3>. QED  BY <1>1, <1>4, <3>1, <3>2 DEF ChunksGot
  <2>3. ChunksGot(w, "folders", work[w].folders, LastFolders(w))'
    <3>1. ChunksGot(w, "folders", work[w].folders, LastFolders(w))
      BY <2>1 DEF AllChunks
    <3>2. w = running => work[w].cancelled \/ work[w].folders = 0
      BY <1>5
    <3>. QED  BY <1>1, <1>4, <3>1, <3>2 DEF ChunksGot
  <2>. QED  BY <2>2, <2>3 DEF AllChunks
<1>7. ContentsKnown'
  <2>1. ContentsKnown
    BY DEF CloneInv
  <2>2. results'.got = UNION {{<<w, x>> : x \in work'[w].got} : w \in Over'}
    <3>1. results.got = UNION {{<<w, x>> : x \in work[w].got} : w \in Over}
      BY <2>1 DEF ContentsKnown
    <3>2. \A w \in Over' : work'[w].got = work[w].got
      BY <1>1, OverWorks
    <3>3. {{<<w, x>> : x \in work'[w].got} : w \in Over'}
            = {{<<w, x>> : x \in work[w].got} : w \in Over'}
      BY <3>2
    <3>4. {{<<w, x>> : x \in work[w].got} : w \in Over'}
            = {{<<w, x>> : x \in work[w].got} : w \in Over}
                \cup {{<<running, x>> : x \in work[running].got}}
      BY <1>1
    <3>5. UNION {{<<w, x>> : x \in work[w].got} : w \in Over'}
            = (UNION {{<<w, x>> : x \in work[w].got} : w \in Over})
                \cup {<<running, x>> : x \in work[running].got}
      BY <3>4
    <3>. QED  BY <1>2, <3>1, <3>3, <3>5
  <2>3. 0 \in InState("new")' => 0 \in Range(main'.keys)
    BY <1>1, <1>3, <2>1 DEF ContentsKnown
  <2>4. ASSUME NEW w \in Over', NEW n \in Nat, <<"folders", n>> \in work[w].got
        PROVE  Subfolders(w, n) \cap InState("new") \subseteq Range(main'.keys)
    <3>1. CASE w = running
      <4>1. Subfolders(running, n) \subseteq subfolders
        BY <2>4, <3>1
      <4>. QED  BY <1>3, <3>1, <4>1
    <3>2. CASE w # running
      <4>1. w \in Over
        BY <1>1, <3>2
      <4>2. Subfolders(w, n) \cap InState("new") \subseteq Range(main.keys)
        BY <2>1, <2>4, <4>1 DEF ContentsKnown
      <4>. QED  BY <1>3, <4>2
    <3>. QED  BY <3>1, <3>2
  <2>5. \A w \in Over' : w \in Works /\ work'[w].got = work[w].got
    BY <1>1, OverWorks
  <2>6. \A w \in Over' : \A n \in Nat :
          <<"folders", n>> \in work'[w].got =>
             Subfolders(w, n)' \cap InState("new")' \subseteq Range(main'.keys)
    BY <1>1, <1>4, <2>4, <2>5
  <2>. QED  BY <2>2, <2>3, <2>6 DEF ContentsKnown
<1>8. Counted'
  BY <1>1, <1>4 DEF CloneInv, Counted
<1>. QED  BY <1>4, <1>6, <1>7, <1>8 DEF CloneInv

\* One more element at the end of a sequence.
LEMMA AppendLonger ==
  ASSUME NEW S, NEW s \in Seq(S), NEW e \in S
  PROVE  Len(Append(s, e)) = Len(s) + 1 /\ Range(Append(s, e)) = Range(s) \cup {e}
<1>. DEFINE t == <<e>>
<1>1. Len(Append(s, e)) = Len(s) + 1
  BY AppendProperties
<1>2. Append(s, e) = s \o t
  BY AppendIsConcat
<1>3. t \in Seq(S) /\ Range(t) = {e}
  BY DEF Range
<1>. HIDE DEF t
<1>4. Range(s \o t) = Range(s) \cup Range(t)
  BY <1>3, RangeConcatenation
<1>. QED  BY <1>1, <1>2, <1>3, <1>4

\* main gets the changes from the first work and one info from each of the others.
LEMMA WorkReturnsPoll ==
  ASSUME IInv, ErrorsInv, PollInv, asked.kind # "clone", WorkReturns
  PROVE  PollInv'
<1>. DEFINE v == running
<1>1. /\ v \in Works /\ v \in InState("running") /\ v \notin Over
      /\ Round(v) = {}
      /\ asked' = asked
      /\ Over' = Over \cup {v}
      /\ InState("new")' = InState("new")
      /\ \A w, k, n : Asks(w, k, n)' <=> Asks(w, k, n)
      /\ \A k, n : ~Asks(v, k, n)
      /\ \A w \in Works :
            /\ work'[w].first = work[w].first
            /\ work'[w].start = work[w].start /\ work'[w].latest = work[w].latest
            /\ work'[w].got = work[w].got /\ work'[w].errors = work[w].errors
            /\ work'[w].cancelled = work[w].cancelled
      /\ main'.phase = main.phase /\ main'.pc # "ended"
  BY WorkReturnsOver
<1>2. /\ v = 0 =>
            /\ results'.got = {u \in work[0].got : asked.changed[u] # "trash"}
            /\ results'.errors = work[0].errors
            /\ results'.info = results.info
            /\ asked.kind = "poll" => results'.revision = work[0].latest
      /\ v # 0 =>
            /\ results'.got = results.got /\ results'.revision = results.revision
            /\ IF asked.kind = "poll" /\ work[v].errors # {}
               THEN /\ results'.errors = results.errors \cup work[v].errors
                    /\ results'.info = results.info
               ELSE /\ results'.errors = results.errors
                    /\ results'.info = Append(results.info, work[v].got)
  BY WorkReturnsResults
<1>3. /\ Works' = Works /\ Latest' = Latest /\ asked \in Asked /\ 0 \in Works
      /\ asked.kind \in {"poll", "foreign"}
      /\ results.info \in Seq(SUBSET Found) /\ work[v] \in WorkRecord /\ work[0] \in WorkRecord
  BY <1>1, WorksFinite, WorkKinds DEF Works, Latest, IInv, Types, ResultRecord
<1>4. PagesGot /\ (\A w \in Works \ {0} : InfoGot(w)) /\ ChangesKnown /\ InfoKnown
  BY DEF PollInv
\* The bodies go on while there is something to ask for.
<1>5. v = 0 => /\ work[0].cancelled \/ work[0].start >= work[0].latest
               /\ asked.kind = "poll" => ~work[0].first
  <2>. SUFFICES ASSUME v = 0
                PROVE  /\ work[0].cancelled \/ work[0].start >= work[0].latest
                       /\ asked.kind = "poll" => ~work[0].first
    OBVIOUS
  <2>1. WorkKind(0) = IF asked.kind = "poll" THEN "changes" ELSE "foreign"
    BY <1>3, WorkKinds
  <2>2. work[0].start \in Nat /\ work[0].latest \in Nat
    <3>1. work[0].start \in 0 .. Modulus - 1 /\ work[0].latest \in 0 .. Modulus - 1
      BY <1>3 DEF WorkRecord
    <3>. QED  BY <3>1
  <2>3. asked.kind = "poll" => ~work[0].first
    BY <1>1, <2>1 DEF Round
  <2>4. ~(work[0].start < work[0].latest /\ ~work[0].cancelled)
    BY <1>1, <2>1, <2>3 DEF Round
  <2>. QED  BY <2>2, <2>3, <2>4
<1>6. v # 0 => ~work[v].first
  BY <1>1, <1>3, WorkKinds DEF Round
<1>7. PagesGot'
  <2>1. 0 \in Over' =>
          /\ work[0].cancelled \/ work[0].start >= work[0].latest
          /\ asked.kind = "poll" => ~work[0].first
    BY <1>1, <1>4, <1>5 DEF PagesGot
  <2>2. /\ work'[0].first = work[0].first
        /\ work'[0].start = work[0].start /\ work'[0].latest = work[0].latest
        /\ work'[0].got = work[0].got /\ work'[0].errors = work[0].errors
        /\ work'[0].cancelled = work[0].cancelled
    BY <1>1, <1>3
  <2>3. \A k, n : Asks(0, k, n)' <=> Asks(0, k, n)
    BY <1>1
  <2>. QED  BY <1>1, <1>3, <1>4, <2>1, <2>2, <2>3 DEF PagesGot
<1>8. \A w \in Works' \ {0} : InfoGot(w)'
  BY <1>1, <1>3, <1>4, <1>6 DEF InfoGot
\* The first work tells main of the changes, and is alone.
<1>9. CASE v = 0
  <2>1. 0 \notin Over /\ \A w \in Works : w # 0 => w \in InState("new") /\ w \notin Over
    BY <1>1, <1>9, FirstWorkAlone DEF ErrorsInv
  <2>2. Over = {} /\ Over' = {0}
    BY <1>1, <1>9, <2>1, OverWorks
  <2>3. results.info = <<>> /\ main.phase < 3
    <3>1. main.phase \in 1 .. 4
      BY DEF IInv, Types, MainRecord
    <3>2. ~(main.phase >= 3)
      BY <1>3, <2>1 DEF ErrorsInv, ChangesFirst
    <3>3. main.phase < 3
      BY <3>1, <3>2
    <3>. QED  BY <1>4, <2>1, <3>3 DEF ChangesKnown
  <2>4. results'.info = <<>> /\ Over' \ {0} = {}
    BY <1>2, <1>9, <2>2, <2>3
  <2>5. InfoKnown'
    <3>1. Len(<<>>) = 0 /\ Cardinality({}) = 0 /\ Range(<<>>) = {}
      BY FS_EmptySet DEF Range
    <3>2. {{w} : w \in Over' \ {0}} = {}
      BY <2>4
    <3>3. Len(results'.info) = Cardinality(Over' \ {0}) /\ Range(results'.info) = {{w} : w \in Over' \ {0}}
      BY <2>4, <3>1, <3>2
    <3>. QED  BY <3>3 DEF InfoKnown
  <2>6. ChangesKnown'
    <3>1. 0 \in Over' /\ main'.phase < 3 /\ main'.pc # "ended"
      BY <1>1, <2>2, <2>3
    <3>2. /\ results'.got = {u \in work'[0].got : asked'.changed[u] # "trash"}
          /\ asked'.kind = "poll" => results'.revision = work'[0].latest
      BY <1>1, <1>2, <1>3, <1>9
    <3>3. \A w \in Works' \ {0} : w \in InState("new")'
      BY <1>1, <1>3, <2>1
    <3>4. main'.phase \notin {3, 4} /\ ~(main'.phase >= 3)
      <4>1. main.phase \in 1 .. 4 /\ main'.phase = main.phase
        BY <1>1 DEF IInv, Types, MainRecord
      <4>. QED  BY <2>3, <4>1
    <3>. QED  BY <3>1, <3>2, <3>3, <3>4 DEF ChangesKnown
  <2>. QED  BY <1>7, <1>8, <2>5, <2>6 DEF PollInv
\* A later work tells main of one info.
<1>10. CASE v # 0
  <2>1. v \notin InState("new") /\ 0 \in Over
    <3>1. v \notin InState("new")
      BY <1>1, BusyStates
    <3>. QED  BY <1>1, <1>10, <3>1, FirstWorkAlone DEF ErrorsInv
  <2>2. ChangesKnown'
    <3>1. \A c : Of(c)' = Of(c)
      BY <1>1, <1>2, <1>10 DEF Of
    <3>2. /\ 0 \in Over' /\ results'.got = results.got /\ results'.revision = results.revision
          /\ work'[0].got = work[0].got /\ work'[0].latest = work[0].latest
      BY <1>1, <1>2, <1>3, <1>10, <2>1
    <3>. QED  BY <1>1, <1>3, <1>4, <2>1, <3>1, <3>2 DEF ChangesKnown
  <2>3. Over \subseteq Works /\ IsFiniteSet(Over \ {0})
        /\ Over' \ {0} = (Over \ {0}) \cup {v} /\ v \notin Over \ {0}
    <3>1. IsFiniteSet(Works) /\ Over \ {0} \subseteq Works
      BY <1>3, WorksFinite, OverWorks
    <3>. QED  BY <1>1, <1>10, <3>1, OverWorks, FS_Subset
  <2>4. Cardinality(Over' \ {0}) = Cardinality(Over \ {0}) + 1
    BY <2>3, FS_AddElement
  <2>5. work[v].got \in SUBSET Found
    BY <1>3 DEF WorkRecord
  <2>6. /\ Len(Append(results.info, work[v].got)) = Len(results.info) + 1
        /\ Range(Append(results.info, work[v].got)) = Range(results.info) \cup {work[v].got}
    <3>. DEFINE S == SUBSET Found
    <3>1. results.info \in Seq(S) /\ work[v].got \in S
      BY <1>3, <2>5
    <3>. HIDE DEF S
    <3>. QED  BY <3>1, AppendLonger
  <2>7. work[v].errors = {} => work[v].got = {v}
    BY <1>1, <1>4, <1>6, <1>10 DEF InfoGot
  <2>8. asked.kind = "foreign" \/ results'.errors = {} =>
          Len(results'.info) = Cardinality(Over' \ {0})
    <3>. SUFFICES ASSUME asked.kind = "foreign" \/ results'.errors = {}
                  PROVE  Len(results'.info) = Cardinality(Over' \ {0})
      OBVIOUS
    <3>1. asked.kind = "foreign" \/ results.errors = {}
      BY <1>2, <1>10
    <3>2. results'.info = Append(results.info, work[v].got)
      BY <1>2, <1>10
    <3>. QED  BY <1>4, <2>4, <2>6, <3>1, <3>2 DEF InfoKnown
  <2>9. asked.kind = "poll" /\ results'.errors = {} =>
          Range(results'.info) = {{w} : w \in Over' \ {0}}
    <3>. SUFFICES ASSUME asked.kind = "poll", results'.errors = {}
                  PROVE  Range(results'.info) = {{w} : w \in Over' \ {0}}
      OBVIOUS
    <3>1. work[v].errors = {} /\ results.errors = {}
      BY <1>2, <1>10
    <3>2. results'.info = Append(results.info, work[v].got) /\ work[v].got = {v}
      BY <1>2, <1>10, <2>7, <3>1
    <3>3. Range(results.info) = {{w} : w \in Over \ {0}}
      BY <1>4, <3>1 DEF InfoKnown
    <3>4. {{w} : w \in (Over \ {0}) \cup {v}} = {{w} : w \in Over \ {0}} \cup {{v}}
      OBVIOUS
    <3>5. Range(results'.info) = Range(results.info) \cup {{v}}
      BY <2>6, <3>2
    <3>. QED  BY <2>3, <3>3, <3>4, <3>5
  <2>10. InfoKnown'
    BY <1>1, <2>8, <2>9 DEF InfoKnown
  <2>. QED  BY <1>7, <1>8, <2>2, <2>10 DEF PollInv
<1>. QED  BY <1>9, <1>10

\* A work that is over keeps what the works bring.
LEMMA WorkReturnsResult ==
  ASSUME IInv, ResultInv, WorkReturns
  PROVE  ResultInv'
<1>1. asked' = asked
  BY DEF WorkReturns
<1>2. ErrorsInv'
  BY WorkReturnsErrors DEF ResultInv
<1>3. asked.kind = "clone" => CloneInv'
  BY WorkReturnsClone DEF ResultInv
<1>4. asked.kind # "clone" => PollInv'
  BY WorkReturnsPoll DEF ResultInv
<1>. QED  BY <1>1, <1>2, <1>3, <1>4 DEF ResultInv

\* There is at least one chunk of each kind.
LEMMA LastChunks ==
  ASSUME asked \in Asked, asked.kind = "clone", NEW w \in Works
  PROVE  LastFiles(w) \in Nat /\ LastFiles(w) >= 1 /\ LastFolders(w) \in Nat /\ LastFolders(w) >= 1
<1>1. /\ IsTree(asked.subfolders) /\ Works = DOMAIN asked.subfolders
      /\ asked.files \in [DOMAIN asked.subfolders -> Nat]
  BY ActionsAssumption DEF Works
<1>2. asked.files[w] \in Nat /\ asked.subfolders[w] \in Seq(SUBSET (Works \ {0}))
  BY <1>1 DEF IsTree
<1>3. Len(asked.subfolders[w]) \in Nat
  BY <1>2, LenProperties
<1>. QED  BY <1>2, <1>3 DEF LastFiles, LastFolders, Most

\* What is asked of main at its start.
LEMMA InitResult ==
  ASSUME Init
  PROVE  ResultInv
<1>1. /\ asked \in Asked /\ requests = {} /\ failed = {}
      /\ results = [revision |-> 0, got |-> {}, info |-> <<>>, errors |-> {}]
      /\ main = [pc |-> "new", phase |-> 1, iterations |-> 0, yields |-> 0,
                 more |-> FALSE, cancelled |-> FALSE,
                 keys |-> IF asked.kind = "clone" THEN <<0>> ELSE <<>>]
      /\ Works \in SUBSET Nat /\ IsFiniteSet(Works) /\ 0 \in Works
  BY WorksFinite DEF Init
<1>2. PICK garbage \in Garbage :
        work = [w \in Works |->
                  LET kind == WorkKind(w)
                  IN [NewWork(asked.kind) EXCEPT
                        !.start = IF w = 0 /\ kind # "contents" THEN asked.known ELSE 0,
                        !.latest = CASE kind = "changes" -> garbage
                                     [] kind = "foreign" -> Modulus - 1
                                     [] OTHER -> 0]]
  BY DEF Init
<1>3. \A w \in Works :
        /\ work[w].state = "new" /\ ~work[w].cancelled /\ work[w].first
        /\ work[w].files = IF asked.kind = "clone" THEN 1 ELSE 0
        /\ work[w].folders = IF asked.kind = "clone" THEN 1 ELSE 0
        /\ work[w].start = IF w = 0 /\ WorkKind(w) # "contents" THEN asked.known ELSE 0
        /\ work[w].latest = CASE WorkKind(w) = "changes" -> garbage
                              [] WorkKind(w) = "foreign" -> Modulus - 1
                              [] OTHER -> 0
        /\ work[w].got = {} /\ work[w].errors = {}
  BY <1>2 DEF NewWork
<1>4. Over = {} /\ InState("new") = Works /\ InState("dropped") = {}
  BY <1>3 DEF Over, InState
<1>5. \A w, k, n : ~Asks(w, k, n)
  BY <1>1 DEF Asks
<1>6. ErrorsInv
  <2>1. CancelNoted
    BY <1>3, <1>4 DEF CancelNoted
  <2>2. FailuresKept
    BY <1>1, <1>3, <1>4 DEF FailuresKept
  <2>3. ChangesFirst
    BY <1>1 DEF ChangesFirst
  <2>. QED  BY <2>1, <2>2, <2>3 DEF ErrorsInv
<1>7. ASSUME asked.kind = "clone"  PROVE CloneInv
  <2>1. ASSUME NEW w \in Works  PROVE AllChunks(w)
    <3>1. work[w].files = 1 /\ work[w].folders = 1
      BY <1>3, <1>7
    <3>2. LastFiles(w) \in Nat /\ LastFiles(w) >= 1 /\ LastFolders(w) \in Nat /\ LastFolders(w) >= 1
      BY <1>1, <1>7, LastChunks
    <3>3. \A n \in Nat : ~(n \in 1 .. 1 - 1)
      OBVIOUS
    <3>. QED  BY <1>3, <1>4, <1>5, <3>1, <3>2, <3>3 DEF AllChunks, ChunksGot
  <2>2. main.keys = <<0>> /\ main.iterations = 0 /\ main.pc = "new" /\ results.got = {}
    BY <1>1, <1>7
  <2>3. 0 \in Range(main.keys)
    BY <2>2 DEF Range
  <2>4. ContentsKnown
    BY <1>4, <2>2, <2>3 DEF ContentsKnown
  <2>5. Counted
    <3>1. Cardinality(Works) \in Nat
      BY <1>1, FS_CardinalityType
    <3>. QED  BY <1>4, <2>2, <3>1 DEF Counted
  <2>. QED  BY <2>1, <2>4, <2>5 DEF CloneInv
<1>8. ASSUME asked.kind # "clone"  PROVE PollInv
  <2>1. /\ asked.kind \in {"poll", "foreign"} /\ asked.known \in 0 .. Modulus - 1
        /\ WorkKind(0) = IF asked.kind = "poll" THEN "changes" ELSE "foreign"
    BY <1>1, <1>8, WorkKinds, ActionsAssumption
  <2>2. /\ work[0].start = asked.known /\ work[0].got = {} /\ work[0].first
        /\ asked.kind = "foreign" => work[0].latest = Modulus - 1
    BY <1>1, <1>3, <2>1
  <2>3. asked.known \in Nat
    BY <2>1
  <2>4. PagesGot
    <3>1. \A v \in 1 .. Latest : ~(asked.known < v /\ v <= asked.known)
      BY <2>3
    <3>2. asked.known >= asked.known
      BY <2>3
    <3>. QED  BY <1>4, <1>5, <2>1, <2>2, <3>1, <3>2 DEF PagesGot
  <2>5. \A w \in Works \ {0} : InfoGot(w)
    BY <1>3, <1>4 DEF InfoGot
  <2>6. ChangesKnown
    BY <1>1, <1>4 DEF ChangesKnown
  <2>7. InfoKnown
    <3>1. /\ Len(<<>>) = 0 /\ Cardinality({}) = 0 /\ Range(<<>>) = {}
          /\ {{w} : w \in Over \ {0}} = {} /\ Over \ {0} = {} /\ results.info = <<>>
      BY <1>1, <1>4, FS_EmptySet DEF Range
    <3>. QED  BY <3>1 DEF InfoKnown
  <2>. QED  BY <2>4, <2>5, <2>6, <2>7 DEF PollInv
<1>. QED  BY <1>6, <1>7, <1>8 DEF ResultInv

\* A step that changes nothing.
LEMMA StutterWaits ==
  ASSUME UNCHANGED vars
  PROVE  AllWait
<1>1. UNCHANGED <<asked, limit, main, work, running, work_queue, in_progress, posted,
                  requests, results, failed, faults>>
  BY DEF vars
<1>2. /\ Works' = Works /\ \A s : InState(s)' = InState(s)
      /\ \A w, k, n : Asks(w, k, n)' <=> Asks(w, k, n)
  BY <1>1, SameAsked DEF Works, InState
<1>. QED  BY <1>1, <1>2 DEF AllWait, WorksWait, NothingFails, MainWaits, Over, Pending

\* Every step keeps the part about errors.
LEMMA NextErrors ==
  ASSUME IInv, ErrorsInv, [Next]_vars
  PROVE  ErrorsInv'
<1>1. ASSUME NothingFails, MainWaits  PROVE ErrorsInv'
  BY <1>1, NothingFailsKeeps, MainWaitsKeeps DEF ErrorsInv
<1>2. ASSUME AllWait  PROVE ErrorsInv'
  BY <1>1, <1>2 DEF AllWait, WorksWait
<1>3. CASE Next
  <2>1. ASSUME NEW r \in requests, RequestSent(r) \/ RequestLost(r)  PROVE ErrorsInv'
    BY <1>2, <2>1, RequestMovesWaits
  <2>2. ASSUME NEW r \in requests, NEW ok \in BOOLEAN, HandleResponse(r, ok)  PROVE ErrorsInv'
    BY <2>2, HandleResponseErrors
  <2>3. CASE MakeCalls
    BY <1>1, <2>3, MakeCallsAsks
  <2>4. CASE WorkReturns
    BY <2>4, WorkReturnsErrors
  <2>5. CASE CloneBody
    BY <2>5, CloneBodyErrors
  <2>6. CASE PollBody
    BY <2>6, PollBodyErrors
  <2>7. CASE ExecuteWork \/ ManagerCancel \/ StartWork \/ WorkCompletes \/ Start \/ Cancel
    BY <1>2, <2>7, ExecuteWorkWaits, ManagerCancelWaits, StartWorkWaits, WorkCompletesWaits,
       StartWaits, CancelWaits
  <2>. QED  BY <1>3, <2>1, <2>2, <2>3, <2>4, <2>5, <2>6, <2>7 DEF Next, Io
<1>4. CASE UNCHANGED vars
  BY <1>2, <1>4, StutterWaits
<1>. QED  BY <1>3, <1>4

\* Every step keeps what the works bring and main is told.
LEMMA NextResult ==
  ASSUME RevisionsFit, IInv, ResultInv, [Next]_vars
  PROVE  ResultInv'
<1>1. ASSUME AllWait  PROVE ResultInv'
  BY <1>1, AllWaitKeeps DEF IInv
<1>2. CASE Next
  <2>1. ASSUME NEW r \in requests, RequestSent(r) \/ RequestLost(r)  PROVE ResultInv'
    BY <1>1, <2>1, RequestMovesWaits
  <2>2. ASSUME NEW r \in requests, NEW ok \in BOOLEAN, HandleResponse(r, ok)  PROVE ResultInv'
    BY <2>2, HandleResponseResult
  <2>3. CASE MakeCalls
    BY <2>3, MakeCallsResult
  <2>4. CASE WorkReturns
    BY <2>4, WorkReturnsResult
  <2>5. CASE CloneBody
    BY <2>5, CloneBodyResult
  <2>6. CASE PollBody
    BY <2>6, PollBodyResult
  <2>7. CASE ExecuteWork \/ ManagerCancel \/ StartWork \/ WorkCompletes \/ Start \/ Cancel
    BY <1>1, <2>7, ExecuteWorkWaits, ManagerCancelWaits, StartWorkWaits, WorkCompletesWaits,
       StartWaits, CancelWaits
  <2>. QED  BY <1>2, <2>1, <2>2, <2>3, <2>4, <2>5, <2>6, <2>7 DEF Next, Io
<1>3. CASE UNCHANGED vars
  BY <1>1, <1>3, StutterWaits
<1>. QED  BY <1>2, <1>3

\* When main ends no work is under way.
LEMMA NonePending ==
  ASSUME IInv, main.pc = "ended"
  PROVE  Pending = {}
<1>1. Pending \in SUBSET Works /\ asked \in Asked
  BY BusyStates DEF IInv, Types, Pending, InState
<1>2. Cardinality(Pending) = 0
  BY DEF IInv, Stack, Owed
<1>. QED  BY <1>1, <1>2, SubsetCount

\* main has every error when it ends.
LEMMA ErrorsTold ==
  ASSUME IInv, ErrorsInv
  PROVE  ErrorsPropagated
<1>. SUFFICES ASSUME main.pc = "ended", NEW f \in failed
              PROVE  f \in results.errors \/ (asked.kind = "foreign" /\ f[2] = "info")
  BY DEF ErrorsPropagated
<1>1. f[1] \in Works /\ f \in work[f[1]].errors
  BY DEF ErrorsInv, FailuresKept
<1>2. f[1] \in Over
  BY <1>1, NonePending DEF ErrorsInv, FailuresKept
<1>. QED  BY <1>1, <1>2 DEF ErrorsInv, FailuresKept

\* A work that was not queued is new, the others are over, when main ends and was
\* not cancelled.
LEMMA AllOver ==
  ASSUME IInv, ErrorsInv, main.pc = "ended", ~main.cancelled, limit > 1, main.keys = <<>>
  PROVE  /\ Works \ InState("new") = Over /\ Over \cap InState("new") = {}
         /\ \A w \in Works : ~work[w].cancelled
<1>1. Pending = {}
  BY NonePending
<1>2. InState("dropped") = {} /\ \A w \in Works : ~work[w].cancelled
  BY DEF ErrorsInv, CancelNoted
<1>3. work_queue = <<>>
  BY DEF IInv, Room
<1>4. InState("queued") = {}
  <2>1. Range(<<>>) = {}
    BY DEF Range
  <2>. QED  BY <1>3, <2>1 DEF IInv, Lists
<1>5. \A w \in Works : work[w].state \in States
  BY DEF IInv, Types, WorkRecord
<1>. QED  BY <1>1, <1>2, <1>4, <1>5 DEF Over, Pending, InState, States

\* All of a tree was got.
LEMMA CloneWhole ==
  ASSUME IInv, ErrorsInv, CloneInv, asked.kind = "clone", main.pc = "ended",
         results.errors = {}, ~main.cancelled, limit > 1,
         Cardinality(Works) <= MAX_LOOP_ITERATIONS + 1
  PROVE  results.got = UNION {
            {<<w, <<"files", n>>>> : n \in 1 .. Most(1, asked.files[w])}
            \cup {<<w, <<"folders", n>>>> : n \in 1 .. Most(1, Len(asked.subfolders[w]))} :
            w \in Works}
<1>1. /\ asked \in Asked /\ IsTree(asked.subfolders) /\ Works = DOMAIN asked.subfolders
      /\ 0 \in Works
  BY ActionsAssumption, WorksFinite DEF IInv, Types, Works
<1>2. main.keys = <<>>
  <2>1. Cardinality(Works) \in Nat /\ MAX_LOOP_ITERATIONS \in Nat
    BY <1>1, ActionsAssumption, WorksFinite, FS_CardinalityType
  <2>2. ~(Cardinality(Works) > MAX_LOOP_ITERATIONS + 1)
    BY <2>1
  <2>. QED  BY <2>2 DEF CloneInv, Counted
<1>3. /\ Works \ InState("new") = Over /\ Over \cap InState("new") = {}
      /\ \A w \in Works : ~work[w].cancelled
  BY <1>2, AllOver
<1>4. ASSUME NEW w \in Over
      PROVE  /\ w \in Works
             /\ \A n \in Nat : <<"files", n>> \in work[w].got <=> n \in 1 .. LastFiles(w)
             /\ \A n \in Nat : <<"folders", n>> \in work[w].got <=> n \in 1 .. LastFolders(w)
  <2>1. w \in Works /\ work[w].errors = {}
    BY OverWorks DEF ErrorsInv, FailuresKept
  <2>2. /\ ChunksGot(w, "files", work[w].files, LastFiles(w))
        /\ ChunksGot(w, "folders", work[w].folders, LastFolders(w))
    BY <2>1 DEF CloneInv, AllChunks
  <2>3. work[w].files = 0 /\ work[w].folders = 0
    BY <1>3, <2>1, <2>2 DEF ChunksGot
  <2>. QED  BY <2>1, <2>2, <2>3 DEF ChunksGot
<1>5. 0 \in Over
  <2>1. Range(main.keys) = {}
    BY <1>2 DEF Range
  <2>. QED  BY <1>1, <1>3, <2>1 DEF CloneInv, ContentsKnown
<1>6. Over = Works
  <2>1. ASSUME NEW w \in Over, NEW n \in DOMAIN asked.subfolders[w]
        PROVE  asked.subfolders[w][n] \subseteq Over
    <3>1. w \in Works
      BY <1>4
    <3>2. asked.subfolders[w] \in Seq(SUBSET (Works \ {0}))
      BY <1>1, <3>1 DEF IsTree
    <3>3. /\ Len(asked.subfolders[w]) \in Nat /\ n \in 1 .. Len(asked.subfolders[w])
          /\ asked.subfolders[w][n] \in SUBSET (Works \ {0})
      BY <3>2, LenProperties, ElementOfSeq
    <3>4. n \in Nat /\ n \in 1 .. LastFolders(w) /\ n <= Len(asked.subfolders[w])
      BY <3>3 DEF LastFolders, Most
    <3>5. <<"folders", n>> \in work[w].got
      BY <1>4, <3>4
    <3>6. Subfolders(w, n) \cap InState("new") \subseteq Range(main.keys)
      BY <3>4, <3>5 DEF CloneInv, ContentsKnown
    <3>7. Range(main.keys) = {} /\ Subfolders(w, n) = asked.subfolders[w][n]
      BY <1>2, <3>4 DEF Range, Subfolders
    <3>. QED  BY <1>3, <3>3, <3>6, <3>7
  <2>2. Over \in SUBSET DOMAIN asked.subfolders
    BY <1>1, OverWorks
  <2>. QED  BY <1>1, <1>5, <2>1, <2>2 DEF IsTree
<1>7. ASSUME NEW w \in Works
      PROVE  {<<w, x>> : x \in work[w].got}
               = {<<w, <<"files", n>>>> : n \in 1 .. Most(1, asked.files[w])}
                   \cup {<<w, <<"folders", n>>>> : n \in 1 .. Most(1, Len(asked.subfolders[w]))}
  <2>1. work[w].got \subseteq {"files", "folders"} \X (Nat \ {0})
    BY DEF IInv, Keys, Obtainable
  <2>2. LastFiles(w) \in Nat /\ LastFolders(w) \in Nat
    BY <1>1, LastChunks
  <2>3. /\ \A n \in Nat : <<"files", n>> \in work[w].got <=> n \in 1 .. LastFiles(w)
        /\ \A n \in Nat : <<"folders", n>> \in work[w].got <=> n \in 1 .. LastFolders(w)
    BY <1>4, <1>6
  <2>4. work[w].got = {<<"files", n>> : n \in 1 .. LastFiles(w)}
                        \cup {<<"folders", n>> : n \in 1 .. LastFolders(w)}
    <3>1. ASSUME NEW x \in work[w].got
          PROVE  x \in {<<"files", n>> : n \in 1 .. LastFiles(w)}
                         \cup {<<"folders", n>> : n \in 1 .. LastFolders(w)}
      <4>1. PICK k \in {"files", "folders"}, n \in Nat \ {0} : x = <<k, n>>
        BY <2>1, <3>1
      <4>. QED  BY <2>3, <3>1, <4>1
    <3>2. /\ 1 .. LastFiles(w) \subseteq Nat /\ 1 .. LastFolders(w) \subseteq Nat
      BY <2>2
    <3>3. /\ \A n \in 1 .. LastFiles(w) : <<"files", n>> \in work[w].got
          /\ \A n \in 1 .. LastFolders(w) : <<"folders", n>> \in work[w].got
      BY <2>3, <3>2
    <3>. QED  BY <3>1, <3>3
  <2>. QED  BY <2>4 DEF LastFiles, LastFolders
<1>8. results.got = UNION {{<<w, x>> : x \in work[w].got} : w \in Works}
  BY <1>6 DEF CloneInv, ContentsKnown
<1>. QED  BY <1>7, <1>8

\* All that was changed was got.
LEMMA PollWhole ==
  ASSUME RevisionsFit, IInv, ErrorsInv, PollInv, asked.kind # "clone", main.pc = "ended",
         results.errors = {}, ~main.cancelled, limit > 1
  PROVE  LET new == {v \in asked.known + 1 .. Latest : asked.changed[v] # "trash"}
             kept == {v \in new : asked.changed[v] # "deleted"}
         IN  /\ results.got = new
             /\ asked.kind = "poll" => results.revision = Latest
             /\ Len(results.info) = Cardinality(kept)
             /\ asked.kind = "poll" => Range(results.info) = {{v} : v \in kept}
<1>. DEFINE new == {v \in asked.known + 1 .. Latest : asked.changed[v] # "trash"}
            kept == {v \in new : asked.changed[v] # "deleted"}
<1>1. /\ asked \in Asked /\ asked.kind \in {"poll", "foreign"} /\ 0 \in Works
      /\ asked.changed \in Seq(Changes) /\ asked.known \in 0 .. Modulus - 1
      /\ Page \in Nat \ {0} /\ Modulus \in Nat
  BY ActionsAssumption, WorksFinite DEF IInv, Types
<1>2. /\ asked.known \in Nat /\ Latest \in Nat /\ Works = 0 .. Latest
      /\ asked.known + 1 + Page < Modulus
      /\ \A v \in 1 .. Latest : asked.changed[v] \in Changes
  BY <1>1, LenProperties, ElementOfSeq DEF RevisionsFit, Latest, Works
<1>3. PagesGot /\ ChangesKnown /\ InfoKnown /\ main.phase = 4 /\ main.keys = <<>>
  BY DEF PollInv, ChangesKnown, IInv, Keys
<1>4. /\ Works \ InState("new") = Over /\ Over \cap InState("new") = {}
      /\ \A w \in Works : ~work[w].cancelled
  BY <1>3, AllOver
<1>5. 0 \in Over
  BY <1>3 DEF ErrorsInv, ChangesFirst
<1>6. work[0].errors = {}
  <2>1. KindsFor(0) = {"status", "changes"}
    BY <1>1, WorkKinds DEF KindsFor
  <2>. QED  BY <1>1, <1>5, <2>1 DEF ErrorsInv, FailuresKept
<1>7. \A k, n : ~Asks(0, k, n)
  <2>. SUFFICES ASSUME NEW r \in requests, r.of = 0  PROVE FALSE
    BY DEF Asks
  <2>1. 0 \in InState("suspended")
    <3>1. r.kind \in KindsOf(0, requests)
      BY DEF KindsOf
    <3>2. KindsOf(0, requests) # {}
      BY <3>1
    <3>. QED  BY <1>1, <3>2 DEF IInv, RequestsOK
  <2>. QED  BY <1>5, <2>1 DEF Over, InState
<1>8. /\ work[0].latest = Latest \/ (work[0].latest = Modulus - 1 /\ work[0].start = asked.known)
      /\ asked.kind = "poll" => work[0].latest = Latest
      /\ work[0].start >= work[0].latest
      /\ \A v \in 1 .. Latest : v \in work[0].got <=> asked.known < v /\ v <= work[0].start
  BY <1>1, <1>3, <1>4, <1>5, <1>6, <1>7 DEF PagesGot
<1>9. work[0].latest = Latest /\ work[0].start \in Nat /\ work[0].start >= Latest
  <2>1. work[0].start \in 0 .. Modulus - 1
    BY <1>1 DEF IInv, Types, WorkRecord
  <2>. QED  BY <1>1, <1>2, <1>8, <2>1
<1>10. results.got = new
  <2>1. work[0].got \subseteq 1 .. Latest
    BY <1>1 DEF IInv, Keys, Obtainable
  <2>2. results.got = {v \in work[0].got : asked.changed[v] # "trash"}
    BY <1>3, <1>5 DEF ChangesKnown
  <2>3. \A v \in 1 .. Latest : v \in work[0].got <=> asked.known < v
    BY <1>2, <1>8, <1>9
  <2>4. asked.known + 1 .. Latest = {v \in 1 .. Latest : asked.known < v}
    BY <1>2
  <2>5. work[0].got = asked.known + 1 .. Latest
    BY <2>1, <2>3, <2>4
  <2>. QED  BY <2>2, <2>5
<1>11. kept = Over \ {0}
  <2>1. new \subseteq 1 .. Latest
    BY <1>2
  <2>2. ASSUME NEW v \in kept  PROVE v \in Over \ {0}
    <3>1. v \in results.got /\ v \in 1 .. Latest /\ asked.changed[v] \in {"file", "folder"}
      BY <1>2, <1>10, <2>1 DEF Changes
    <3>2. v \in Works /\ v # 0
      BY <1>2, <3>1
    <3>3. v \notin InState("new")
      BY <1>3, <3>1 DEF ChangesKnown, Of
    <3>. QED  BY <1>4, <3>2, <3>3
  <2>3. ASSUME NEW v \in Over \ {0}  PROVE v \in kept
    <3>1. v \in Works \ {0} /\ v \notin InState("new")
      BY <1>4, OverWorks
    <3>2. v \in results.got /\ asked.changed[v] \in {"file", "folder"}
      BY <1>3, <3>1 DEF ChangesKnown
    <3>. QED  BY <1>10, <3>2
  <2>. QED  BY <2>2, <2>3
<1>12. asked.kind = "poll" => results.revision = Latest
  BY <1>3, <1>5, <1>9 DEF ChangesKnown
<1>. HIDE DEF new, kept
<1>13. /\ Len(results.info) = Cardinality(kept)
       /\ asked.kind = "poll" => Range(results.info) = {{v} : v \in kept}
  BY <1>3, <1>11 DEF InfoKnown
<1>. QED  BY <1>10, <1>12, <1>13 DEF new, kept

\* What the invariant says when main ends.
LEMMA ResultWhole ==
  ASSUME RevisionsFit, IInv, ResultInv
  PROVE  WholeResult
BY ErrorsTold, CloneWhole, PollWhole DEF ResultInv, WholeResult

\* Every request that failed is reported, but for the info of a foreign change,
\* whatever fails and whatever revisions there are ("insert into vector and
\* propagate at the callback").
THEOREM FailuresAreReported == Spec => []ErrorsPropagated
<1>1. Init => ErrorsInv
  BY InitResult DEF ResultInv
<1>2. IInv /\ ErrorsInv /\ [Next]_vars => ErrorsInv'
  BY NextErrors
<1>3. IInv /\ ErrorsInv => ErrorsPropagated
  BY ErrorsTold
<1>. QED  BY <1>1, <1>2, <1>3, PlacesAndYields, PTL DEF Spec

\* An action that was not cancelled and reports no error has all that it was asked
\* for: every chunk of every folder of a tree, or every change and its info, as
\* long as the 32 bits of a revision do not run over.
THEOREM ResultIsWhole == RevisionsFit => (Spec => []WholeResult)
<1>. SUFFICES ASSUME RevisionsFit  PROVE Spec => []WholeResult
  OBVIOUS
<1>1. Init => ResultInv
  BY InitResult
<1>2. IInv /\ ResultInv /\ [Next]_vars => ResultInv'
  BY NextResult
<1>3. IInv /\ ResultInv => WholeResult
  BY ResultWhole
<1>. QED  BY <1>1, <1>2, <1>3, PlacesAndYields, PTL DEF Spec
=============================================================================
