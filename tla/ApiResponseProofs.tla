------------------------- MODULE ApiResponseProofs --------------------------
(***************************************************************************)
(* What holds of every answer to every API class whose tables hang         *)
(* together (TablesAssumption), however much the answer lacks and however  *)
(* long its arrays are.                                                    *)
(***************************************************************************)
EXTENDS ApiResponse, FiniteSetTheorems, SequenceTheorems, TLAPS

(* The state of a call is taken apart into predicates of the values of the   *)
(* variables, so that the lemmas about the steps of a function need no       *)
(* primes: k is class, fs is frames, lk is lacking, e is error.              *)

StepsOf(k, f) == Api[k].steps[f.type]
StepOf(k, f) == StepsOf(k, f)[f.pos]
IsAt(k, f, kinds) == f.pos <= Len(StepsOf(k, f)) /\ StepOf(k, f).kind \in kinds

\* The kinds of step whose member has been written when they are passed.
Firm == {"preset", "req", "struct", "list", "array"}
Arrays == {"array", "optarray"}
Branches == {"struct", "optstruct", "array", "optarray"}

Types(k) == DOMAIN Api[k].steps
Plain(k, t) == Api[k].members[t].plain
AllMembers(k, t) ==
    Api[k].members[t].plain \cup Api[k].members[t].optional \cup Api[k].members[t].vector

-----------------------------------------------------------------------------
(* The inductive invariant *)

Frames(k) == [type : Types(k), pos : Nat \ {0}, written : SUBSET STRING, begun : BOOLEAN,
              left : Seq({"object", "empty"})]

\* One function: it has written the members of the steps it cannot pass without them,
\* and it holds elements only while it is at the array they are from.
FrameOK(k, f) ==
    /\ f \in Frames(k)
    /\ f.pos <= Len(StepsOf(k, f)) + 1
    /\ Len(f.left) <= MaxElements
    /\ \A j \in 1 .. f.pos - 1 :
           StepsOf(k, f)[j].kind \in Firm => StepsOf(k, f)[j].member \in f.written
    /\ f.begun => IsAt(k, f, Arrays)
    /\ ~f.begun => f.left = << >>

\* f waits for the extractor of the struct t.
Awaits(k, f, t) ==
    /\ IsAt(k, f, Branches)
    /\ StepOf(k, f).type = t
    /\ IsAt(k, f, Arrays) => f.left # << >> /\ Head(f.left) = "object"

\* ParseResponse is at the bottom, and every other function was called by the one below.
Stack(k, fs) ==
    /\ fs \in Seq(Frames(k))
    /\ \A i \in 1 .. Len(fs) :
           /\ FrameOK(k, fs[i])
           /\ (i = 1) <=> (fs[i].type = "Response")
           /\ i < Len(fs) => Awaits(k, fs[i], fs[i + 1].type)

\* Every empty element that is still to come counts as lacking.
Recorded(k, fs, lk) ==
    \A i \in 1 .. Len(fs) : \A j \in 1 .. Len(fs[i].left) :
        fs[i].left[j] = "empty" => << fs[i].type, StepOf(k, fs[i]).member >> \in lk

\* The extractor that has come back to f with a result.  It returns true with the plain
\* members written, and false with an error or for a branch that is empty.
Answer(k, f, lk, e, result, written) ==
    /\ IsAt(k, f, Branches)
    /\ IsAt(k, f, Arrays) => f.left # << >>
    /\ result = "true" =>
           /\ Plain(k, StepOf(k, f).type) \subseteq written
           /\ IsAt(k, f, Arrays) => Head(f.left) = "object"
    /\ result = "false" /\ e = "none" =>
           /\ << f.type, StepOf(k, f).member >> \in lk
           /\ IsAt(k, f, Arrays) => Head(f.left) = "empty"

Answered(k, fs, lk, e, result, written) ==
    result # "none" => fs # << >> /\ Answer(k, fs[Len(fs)], lk, e, result, written)

\* The elements of the answer that ParseResponse has still before it.
Objects(left) == Cardinality({j \in 1 .. Len(left) : left[j] = "object"})
Pending(fs) == IF fs = << >> THEN 0 ELSE Objects(fs[1].left)

\* What the steps make of a function and of the stack.
AtElements(f, left) == [f EXCEPT !.begun = TRUE, !.left = left]
WithTop(fs, g) == [fs EXCEPT ![Len(fs)] = g]
Popped(fs) == SubSeq(fs, 1, Len(fs) - 1)
Called(fs, t) == Append(fs, Frame(t))

\* LacksIn and the denial of Dispensable, as predicates of lacking.
LacksAt(k, lk, kinds) ==
    \E l \in lk : \E i \in DOMAIN Api[k].steps[l[1]] :
        Api[k].steps[l[1]][i].member = l[2] /\ Api[k].steps[l[1]][i].kind \in kinds

DispensableIn(k, t) ==
    Api[k].members[t].optional
       \cup {s.member : s \in {s \in Range(Api[k].steps[t]) : s.kind = "preset"}}

LacksNeeded(k, lk) == \E l \in lk : l[2] \notin DispensableIn(k, l[1])

\* What the arrays offered was pushed or is still pending, but for what an error or one
\* of the two exceptions took away.
Books(k, fs, lk, e, given, taken) ==
    /\ taken + Pending(fs) <= given
    /\ e = "none" /\ ~LacksAt(k, lk, {"array", "optlist"}) => taken + Pending(fs) = given

\* ParseResponse has ended.
Whole(k, lk, e, written) ==
    e # "none" \/ LacksAt(k, lk, {"array"}) \/ Plain(k, "Response") \subseteq written

LackingOK(k, lk) == \A l \in lk : l[1] \in Types(k) /\ l[2] \in AllMembers(k, l[1])
KeptOK(k, ks) == \A x \in ks : x.type \in Types(k) /\ Plain(k, x.type) \subseteq x.members

Scalars ==
    /\ class \in Classes
    /\ phase \in {"asked", "parsing", "called"}
    /\ refused \in BOOLEAN
    /\ offered \in Nat
    /\ pushed \in Nat
    /\ error \in {"none", "Http", "HttpStatus", "Api", "UnknownApiError",
                  "ContentInvalidFormat", "ContentInvalidData"}
    /\ returned \in {"none", "true", "false"}
    /\ value \in SUBSET STRING

ResponseInv ==
    /\ Scalars
    /\ LackingOK(class, lacking)
    /\ KeptOK(class, kept)
    /\ Stack(class, frames)
    /\ Recorded(class, frames, lacking)
    /\ Answered(class, frames, lacking, error, returned, value)
    /\ Books(class, frames, lacking, error, offered, pushed)
    /\ phase # "asked" /\ frames = << >> => Whole(class, lacking, error, value)
    /\ phase # "parsing" => frames = << >>
    /\ error # "none" /\ ~refused => LacksNeeded(class, lacking)

\* An answer that reports a failure is an error, when no failure has the code 0.
Trusted == refused => error # "none"

-----------------------------------------------------------------------------
(* The tables *)

\* TablesAssumption, of the i-th step of the function that reads t.
StepFacts(k, t, s) ==
    /\ s \in [kind : STRING, member : STRING, type : STRING]
    /\ s.member \in AllMembers(k, t)
    /\ s.kind \in Branches => s.type \in Types(k) \ {"Response"}
    /\ s.kind \in Arrays => t = "Response"
    /\ s.kind \in {"req", "struct", "list", "array"} => s.member \notin DispensableIn(k, t)

LEMMA Tables ==
  ASSUME NEW k \in Classes, NEW t \in Types(k)
  PROVE  /\ "Response" \in Types(k)
         /\ Api[k].steps[t] \in Seq([kind : STRING, member : STRING, type : STRING])
         /\ \A i \in 1 .. Len(Api[k].steps[t]) : StepFacts(k, t, Api[k].steps[t][i])
         /\ \A m \in Plain(k, t) : \E i \in 1 .. Len(Api[k].steps[t]) :
                Api[k].steps[t][i].member = m /\ Api[k].steps[t][i].kind \in Firm
<1>. DEFINE steps == Api[k].steps[t]
            declared == Api[k].members[t]
            defaults == {s.member : s \in {s \in Range(steps) : s.kind = "preset"}}
<1>1. /\ "Response" \in Types(k)
      /\ steps \in Seq([kind : STRING, member : STRING, type : STRING])
      /\ \A s \in Range(steps) :
             /\ s.member \in declared.plain \cup declared.optional \cup declared.vector
             /\ s.kind \in {"struct", "optstruct", "array", "optarray"} =>
                   s.type \in DOMAIN Api[k].steps \ {"Response"}
             /\ s.kind \in {"array", "optarray"} => t = "Response"
             /\ s.kind \in {"req", "struct", "list", "array"} =>
                   s.member \notin declared.optional \cup defaults
      /\ declared.plain \subseteq
            {s.member : s \in {s \in Range(steps) :
                           s.kind \in {"preset", "req", "struct", "list", "array"}}}
  BY TablesAssumption DEF Types
<1>2. \A i \in 1 .. Len(steps) :
          steps[i] \in Range(steps) /\ steps[i] \in [kind : STRING, member : STRING, type : STRING]
  <2>. HIDE DEF steps
  <2>1. DOMAIN steps = 1 .. Len(steps)
    BY <1>1
  <2>2. \A i \in 1 .. Len(steps) : steps[i] \in Range(steps)
    BY <2>1 DEF Range
  <2>. DEFINE S == [kind : STRING, member : STRING, type : STRING]
  <2>3. steps \in Seq(S)
    BY <1>1
  <2>. HIDE DEF S
  <2>4. \A i \in 1 .. Len(steps) : steps[i] \in S
    BY <2>3
  <2>. QED  BY <2>2, <2>4 DEF S
<1>3. \A s \in Range(steps) : \E i \in 1 .. Len(steps) : s = steps[i]
  <2>. HIDE DEF steps
  <2>. QED  BY <1>1 DEF Range
<1>4. ASSUME NEW i \in 1 .. Len(steps)
      PROVE  StepFacts(k, t, steps[i])
  <2>1. steps[i] \in Range(steps) /\ steps[i] \in [kind : STRING, member : STRING, type : STRING]
    BY <1>2
  <2>2. AllMembers(k, t) = declared.plain \cup declared.optional \cup declared.vector
    BY DEF AllMembers
  <2>3. DispensableIn(k, t) = declared.optional \cup defaults
    BY DEF DispensableIn
  <2>. HIDE DEF steps, declared, defaults
  <2>. QED  BY <1>1, <2>1, <2>2, <2>3 DEF StepFacts, Branches, Arrays, Types
<1>5. ASSUME NEW m \in Plain(k, t)
      PROVE  \E i \in 1 .. Len(steps) : steps[i].member = m /\ steps[i].kind \in Firm
  <2>1. m \in declared.plain
    BY DEF Plain
  <2>. HIDE DEF steps, declared, defaults
  <2>. QED  BY <1>1, <1>3, <2>1 DEF Firm
<1>. QED  BY <1>1, <1>4, <1>5

\* The steps of a function.
LEMMA StepsOfFrame ==
  ASSUME NEW k \in Classes, NEW f, f.type \in Types(k)
  PROVE  /\ Len(StepsOf(k, f)) \in Nat
         /\ DOMAIN StepsOf(k, f) = 1 .. Len(StepsOf(k, f))
         /\ \A i \in 1 .. Len(StepsOf(k, f)) : StepFacts(k, f.type, StepsOf(k, f)[i])
         /\ \A m \in Plain(k, f.type) : \E i \in 1 .. Len(StepsOf(k, f)) :
                StepsOf(k, f)[i].member = m /\ StepsOf(k, f)[i].kind \in Firm
<1>. DEFINE t == f.type
            steps == Api[k].steps[t]
            S == [kind : STRING, member : STRING, type : STRING]
<1>. HIDE DEF t, S
<1>1. t \in Types(k)
  BY DEF t
<1>2. steps \in Seq(S)
  BY <1>1, Tables DEF S
<1>3. /\ \A i \in 1 .. Len(steps) : StepFacts(k, t, steps[i])
      /\ \A m \in Plain(k, t) : \E i \in 1 .. Len(steps) :
             steps[i].member = m /\ steps[i].kind \in Firm
  BY <1>1, Tables
<1>4. StepsOf(k, f) = steps
  BY DEF StepsOf, t
<1>. HIDE DEF steps
<1>5. Len(steps) \in Nat /\ DOMAIN steps = 1 .. Len(steps)
  BY <1>2
<1>. QED  BY <1>3, <1>4, <1>5 DEF t

\* The step that a function is at.
LEMMA StepOfFrame ==
  ASSUME NEW k \in Classes, NEW f, FrameOK(k, f), f.pos <= Len(StepsOf(k, f))
  PROVE  /\ StepFacts(k, f.type, StepOf(k, f))
         /\ f.type \in Types(k) /\ f.pos \in 1 .. Len(StepsOf(k, f))
<1>1. f.type \in Types(k) /\ f.pos \in Nat \ {0}
  BY DEF FrameOK, Frames
<1>2. f.pos \in 1 .. Len(StepsOf(k, f))
  BY <1>1, StepsOfFrame
<1>. QED  BY <1>1, <1>2, StepsOfFrame DEF StepOf

-----------------------------------------------------------------------------
(* One function *)

\* Where it starts.
LEMMA FreshFrame ==
  ASSUME NEW k \in Classes, NEW t \in Types(k)
  PROVE  FrameOK(k, Frame(t)) /\ Frame(t).type = t /\ Frame(t).left = << >>
<1>1. Api[k].steps[t] \in Seq([kind : STRING, member : STRING, type : STRING])
  BY Tables
<1>2. Len(Api[k].steps[t]) \in Nat
  BY <1>1
<1>. QED  BY <1>2, ApiResponseAssumption DEF FrameOK, Frames, Frame, StepsOf

\* It goes on to the next step; a member it cannot do without was written.
LEMMA AdvancedFrame ==
  ASSUME NEW k \in Classes, NEW f, FrameOK(k, f), f.pos <= Len(StepsOf(k, f)),
         NEW m \in SUBSET STRING,
         StepOf(k, f).kind \in Firm => StepOf(k, f).member \in m,
         NEW g, g = Advanced(f, m)
  PROVE  FrameOK(k, g) /\ g.type = f.type /\ g.left = << >>
<1>1. f \in [type : Types(k), pos : Nat \ {0}, written : SUBSET STRING, begun : BOOLEAN,
             left : Seq({"object", "empty"})]
  BY DEF FrameOK, Frames
<1>2. /\ g \in [type : Types(k), pos : Nat \ {0}, written : SUBSET STRING, begun : BOOLEAN,
                left : Seq({"object", "empty"})]
      /\ g.type = f.type /\ g.pos = f.pos + 1 /\ g.written = f.written \cup m
      /\ g.begun = FALSE /\ g.left = << >>
  <2>. DEFINE T == Types(k)
              L == Seq({"object", "empty"})
              W == SUBSET STRING
  <2>1. f \in [type : T, pos : Nat \ {0}, written : W, begun : BOOLEAN, left : L]
    BY <1>1
  <2>2. << >> \in L /\ f.pos + 1 \in Nat \ {0} /\ f.written \cup m \in W
    <3>1. f.pos \in Nat \ {0} /\ f.written \in W
      BY <1>1
    <3>2. << >> \in L
      OBVIOUS
    <3>3. f.pos + 1 \in Nat \ {0}
      BY <3>1
    <3>4. f.written \cup m \in W
      BY <3>1
    <3>. QED  BY <3>2, <3>3, <3>4
  <2>. HIDE DEF T, L, W
  <2>3. g \in [type : T, pos : Nat \ {0}, written : W, begun : BOOLEAN, left : L]
    BY <2>1, <2>2 DEF Advanced
  <2>4. /\ g.type = f.type /\ g.pos = f.pos + 1 /\ g.written = f.written \cup m
        /\ g.begun = FALSE /\ g.left = << >>
    BY <2>1 DEF Advanced
  <2>. QED  BY <2>3, <2>4 DEF T, L, W
<1>3. StepsOf(k, g) = StepsOf(k, f)
  BY <1>2 DEF StepsOf
<1>4. Len(StepsOf(k, f)) \in Nat /\ f.pos \in 1 .. Len(StepsOf(k, f))
  BY <1>1, StepOfFrame, StepsOfFrame
<1>5. ASSUME NEW j \in 1 .. g.pos - 1, StepsOf(k, g)[j].kind \in Firm
      PROVE  StepsOf(k, g)[j].member \in g.written
  <2>1. j \in 1 .. f.pos - 1 \/ j = f.pos
    BY <1>2, <1>4
  <2>. QED  BY <1>2, <1>3, <1>5, <2>1 DEF FrameOK, StepOf
<1>. QED  BY <1>2, <1>3, <1>4, <1>5, ApiResponseAssumption DEF FrameOK, Frames

\* At its end it has written all plain members.
LEMMA EndedFrame ==
  ASSUME NEW k \in Classes, NEW f, FrameOK(k, f), f.pos > Len(StepsOf(k, f))
  PROVE  Plain(k, f.type) \subseteq f.written
<1>1. f.type \in Types(k) /\ f.pos \in Nat \ {0}
  BY DEF FrameOK, Frames
<1>2. Len(StepsOf(k, f)) \in Nat /\ f.pos - 1 = Len(StepsOf(k, f))
  <2>1. Len(StepsOf(k, f)) \in Nat
    BY <1>1, StepsOfFrame
  <2>2. f.pos <= Len(StepsOf(k, f)) + 1
    BY DEF FrameOK
  <2>. QED  BY <1>1, <2>1, <2>2
<1>3. ASSUME NEW m \in Plain(k, f.type)
      PROVE  m \in f.written
  <2>1. PICK i \in 1 .. Len(StepsOf(k, f)) :
            StepsOf(k, f)[i].member = m /\ StepsOf(k, f)[i].kind \in Firm
    BY <1>1, StepsOfFrame
  <2>. QED  BY <1>2, <2>1 DEF FrameOK
<1>. QED  BY <1>3

-----------------------------------------------------------------------------
(* The stack of functions *)

\* The function at the top, and the ones below it.
LEMMA TopOfStack ==
  ASSUME NEW k \in Classes, NEW fs, Stack(k, fs), fs # << >>
  PROVE  /\ fs \in Seq(Frames(k)) /\ Len(fs) \in Nat \ {0}
         /\ FrameOK(k, fs[Len(fs)])
         /\ fs[Len(fs)].type = "Response" <=> Len(fs) = 1
<1>1. fs \in Seq(Frames(k))
  BY DEF Stack
<1>2. Len(fs) \in Nat \ {0}
  BY <1>1
<1>3. Len(fs) \in 1 .. Len(fs)
  BY <1>2
<1>4. FrameOK(k, fs[Len(fs)])
  BY <1>3 DEF Stack
<1>5. fs[Len(fs)].type = "Response" <=> Len(fs) = 1
  BY <1>3 DEF Stack
<1>. QED  BY <1>1, <1>2, <1>4, <1>5

\* A function at an array is ParseResponse.
LEMMA ArrayInResponse ==
  ASSUME NEW k \in Classes, NEW f, FrameOK(k, f), IsAt(k, f, Arrays)
  PROVE  f.type = "Response"
BY StepOfFrame DEF IsAt, StepFacts

\* The top is replaced by a function for the same struct.
LEMMA ReplacedTop ==
  ASSUME NEW k \in Classes, NEW fs, Stack(k, fs), fs # << >>,
         NEW g, FrameOK(k, g), g.type = fs[Len(fs)].type,
         NEW gs, gs = WithTop(fs, g)
  PROVE  /\ Stack(k, gs) /\ gs # << >> /\ Len(gs) = Len(fs) /\ gs[Len(gs)] = g
         /\ \A i \in 1 .. Len(fs) : i # Len(fs) => gs[i] = fs[i]
<1>1. fs \in Seq(Frames(k)) /\ Len(fs) \in Nat \ {0}
  BY TopOfStack
<1>2. g \in Frames(k)
  BY DEF FrameOK
<1>3. /\ gs \in Seq(Frames(k)) /\ Len(gs) = Len(fs) /\ gs # << >>
      /\ gs[Len(gs)] = g
      /\ \A i \in 1 .. Len(fs) : i # Len(fs) => gs[i] = fs[i]
  <2>. QED  BY <1>1, <1>2 DEF WithTop
<1>4. ASSUME NEW i \in 1 .. Len(gs)
      PROVE  /\ FrameOK(k, gs[i])
             /\ (i = 1) <=> (gs[i].type = "Response")
             /\ i < Len(gs) => Awaits(k, gs[i], gs[i + 1].type)
  <2>1. i \in 1 .. Len(fs) /\ gs[i].type = fs[i].type
    BY <1>3
  <2>2. FrameOK(k, gs[i])
    BY <1>3, <2>1 DEF Stack
  <2>3. (i = 1) <=> (gs[i].type = "Response")
    BY <2>1 DEF Stack
  <2>4. ASSUME i < Len(gs)
        PROVE  Awaits(k, gs[i], gs[i + 1].type)
    <3>. i < Len(fs) /\ i # Len(fs) /\ i + 1 \in 1 .. Len(fs)
      <4>. DEFINE n == Len(fs)
      <4>1. i \in 1 .. n /\ i < n /\ n \in Nat
        BY <1>1, <1>3, <2>1, <2>4
      <4>. HIDE DEF n
      <4>2. i < n /\ i # n /\ i + 1 \in 1 .. n
        BY <4>1
      <4>. QED  BY <4>2 DEF n
    <3>1. gs[i] = fs[i]
      BY <1>3, <2>1
    <3>2. gs[i + 1].type = fs[i + 1].type
      BY <1>3, <3>1
    <3>. QED  BY <2>1, <3>1, <3>2 DEF Stack
  <2>. QED  BY <2>2, <2>3, <2>4
<1>6. Stack(k, gs)
  BY <1>2, <1>3, <1>4 DEF Stack
<1>. QED  BY <1>3, <1>6

\* The function at the top has gone.
LEMMA PoppedTop ==
  ASSUME NEW k \in Classes, NEW fs, Stack(k, fs), fs # << >>,
         NEW gs, gs = Popped(fs)
  PROVE  /\ Stack(k, gs) /\ Len(gs) = Len(fs) - 1
         /\ \A i \in 1 .. Len(gs) : gs[i] = fs[i]
         /\ gs = << >> <=> Len(fs) = 1
         /\ gs # << >> => Awaits(k, gs[Len(gs)], fs[Len(fs)].type)
<1>1. fs \in Seq(Frames(k)) /\ Len(fs) \in Nat \ {0}
  BY TopOfStack
<1>2. /\ gs \in Seq(Frames(k)) /\ Len(gs) = Len(fs) - 1
      /\ \A i \in 1 .. Len(gs) : gs[i] = fs[i]
      /\ gs = << >> <=> Len(fs) = 1
  <2>. DEFINE n == Len(fs)
              F == Frames(k)
  <2>1. fs \in Seq(F) /\ n \in Nat \ {0} /\ n = Len(fs) /\ gs = SubSeq(fs, 1, n - 1)
    BY <1>1 DEF Popped
  <2>. HIDE DEF n, F
  <2>2. n - 1 \in Nat
    BY <2>1
  <2>3. gs \in Seq(F) /\ Len(gs) = n - 1
    BY <2>1, <2>2
  <2>4. \A i \in 1 .. n - 1 : gs[i] = fs[i]
    BY <2>1, <2>2
  <2>5. gs = << >> <=> n = 1
    <3>1. gs = << >> <=> Len(gs) = 0
      BY <2>3, EmptySeq
    <3>2. Len(gs) = 0 <=> n = 1
      BY <2>1, <2>3
    <3>. QED  BY <3>1, <3>2
  <2>. QED  BY <2>3, <2>4, <2>5 DEF n, F
<1>3. \A i \in 1 .. Len(gs) : i \in 1 .. Len(fs) /\ i < Len(fs) /\ i + 1 \in 1 .. Len(fs)
  BY <1>1, <1>2
<1>4. ASSUME NEW i \in 1 .. Len(gs)
      PROVE  /\ FrameOK(k, gs[i])
             /\ (i = 1) <=> (gs[i].type = "Response")
             /\ i < Len(gs) => Awaits(k, gs[i], gs[i + 1].type)
  <2>1. gs[i] = fs[i] /\ i \in 1 .. Len(fs) /\ i < Len(fs)
    BY <1>2, <1>3
  <2>2. i < Len(gs) => gs[i + 1] = fs[i + 1]
    BY <1>1, <1>2, <1>3
  <2>. QED  BY <2>1, <2>2 DEF Stack
<1>6. Stack(k, gs)
  BY <1>2, <1>3, <1>4 DEF Stack
<1>7. ASSUME gs # << >>
      PROVE  Awaits(k, gs[Len(gs)], fs[Len(fs)].type)
  <2>1. Len(gs) \in 1 .. Len(gs) /\ Len(gs) + 1 = Len(fs)
    BY <1>1, <1>2, <1>7
  <2>. QED  BY <1>2, <1>3, <2>1 DEF Stack
<1>. QED  BY <1>2, <1>6, <1>7

\* The function at the top calls the extractor of the struct t.
LEMMA PushedTop ==
  ASSUME NEW k \in Classes, NEW fs, Stack(k, fs), fs # << >>,
         NEW t \in Types(k) \ {"Response"}, Awaits(k, fs[Len(fs)], t),
         NEW gs, gs = Called(fs, t)
  PROVE  /\ Stack(k, gs) /\ gs # << >> /\ Len(gs) = Len(fs) + 1
         /\ \A i \in 1 .. Len(fs) : gs[i] = fs[i]
         /\ gs[Len(gs)] = Frame(t)
<1>1. fs \in Seq(Frames(k)) /\ Len(fs) \in Nat \ {0}
  BY TopOfStack
<1>2. FrameOK(k, Frame(t)) /\ Frame(t).type = t
  BY FreshFrame
<1>3. Frame(t) \in Frames(k)
  BY <1>2 DEF FrameOK
<1>4. /\ gs \in Seq(Frames(k)) /\ Len(gs) = Len(fs) + 1 /\ gs # << >>
      /\ \A i \in 1 .. Len(fs) : gs[i] = fs[i]
      /\ gs[Len(gs)] = Frame(t)
  <2>. DEFINE f == Frame(t)
  <2>. HIDE DEF f
  <2>. QED  BY <1>1, <1>3 DEF Called
<1>5. ASSUME NEW i \in 1 .. Len(gs)
      PROVE  /\ FrameOK(k, gs[i])
             /\ (i = 1) <=> (gs[i].type = "Response")
             /\ i < Len(gs) => Awaits(k, gs[i], gs[i + 1].type)
  <2>1. CASE i = Len(gs)
    BY <1>1, <1>2, <1>4, <2>1
  <2>2. CASE i = Len(fs)
    <3>1. i \in 1 .. Len(fs) /\ gs[i] = fs[i] /\ gs[i + 1] = Frame(t)
      BY <1>1, <1>4, <2>2
    <3>. QED  BY <1>2, <2>2, <3>1 DEF Stack
  <2>3. CASE i # Len(gs) /\ i # Len(fs)
    <3>1. i \in 1 .. Len(fs) /\ i + 1 \in 1 .. Len(fs) /\ i < Len(fs)
      BY <1>1, <1>4, <2>3
    <3>. QED  BY <1>4, <3>1 DEF Stack
  <2>. QED  BY <2>1, <2>2, <2>3
<1>. QED  BY <1>4, <1>5 DEF Stack

-----------------------------------------------------------------------------
(* The elements of an array *)

LEMMA ObjectsNat ==
  ASSUME NEW left \in Seq({"object", "empty"})
  PROVE  Objects(left) \in Nat /\ IsFiniteSet({j \in 1 .. Len(left) : left[j] = "object"})
<1>1. IsFiniteSet(1 .. Len(left))
  BY FS_Interval
<1>2. IsFiniteSet({j \in 1 .. Len(left) : left[j] = "object"})
  BY <1>1, FS_Subset
<1>. QED  BY <1>2, FS_CardinalityType DEF Objects

LEMMA NoObjects == Objects(<< >>) = 0
<1>1. {j \in 1 .. Len(<< >>) : << >>[j] = "object"} = {}
  OBVIOUS
<1>. QED  BY <1>1, FS_EmptySet DEF Objects

\* The element at the front has been dealt with.
LEMMA ObjectsTail ==
  ASSUME NEW left \in Seq({"object", "empty"}), left # << >>
  PROVE  /\ Tail(left) \in Seq({"object", "empty"})
         /\ Head(left) = "object" => Objects(left) = Objects(Tail(left)) + 1
         /\ Head(left) = "empty" => Objects(left) = Objects(Tail(left))
         /\ Head(left) \in {"object", "empty"}
<1>. DEFINE A == {j \in 1 .. Len(left) : left[j] = "object"}
            B == {j \in 1 .. Len(Tail(left)) : Tail(left)[j] = "object"}
            C == {j \in A : j # 1}
            shift == [j \in B |-> j + 1]
<1>1. /\ Len(left) \in Nat \ {0} /\ Head(left) = left[1] /\ Head(left) \in {"object", "empty"}
      /\ Tail(left) \in Seq({"object", "empty"}) /\ Len(Tail(left)) = Len(left) - 1
      /\ \A j \in 1 .. Len(left) - 1 : Tail(left)[j] = left[j + 1]
  OBVIOUS
<1>2. IsFiniteSet(A) /\ IsFiniteSet(B)
  BY <1>1, ObjectsNat
<1>3. shift \in Bijection(B, C)
  <2>. DEFINE n == Len(left)
              t == Tail(left)
  <2>1. n \in Nat \ {0} /\ Len(t) = n - 1 /\ \A j \in 1 .. n - 1 : t[j] = left[j + 1]
    BY <1>1
  <2>2. A = {j \in 1 .. n : left[j] = "object"} /\ B = {j \in 1 .. n - 1 : t[j] = "object"}
    BY <2>1
  <2>. HIDE DEF n, t, A, B
  <2>3. ASSUME NEW j \in B
        PROVE  shift[j] = j + 1 /\ shift[j] \in C
    BY <2>1, <2>2
  <2>4. ASSUME NEW j \in C
        PROVE  j - 1 \in B /\ shift[j - 1] = j
    <3>1. j \in 1 .. n /\ j # 1 /\ left[j] = "object"
      BY <2>2
    <3>2. j - 1 \in 1 .. n - 1 /\ (j - 1) + 1 = j
      BY <2>1, <3>1
    <3>3. t[j - 1] = "object"
      BY <2>1, <3>1, <3>2
    <3>. QED  BY <2>2, <3>2, <3>3
  <2>5. \A i, j \in B : shift[i] = shift[j] => i = j
    BY <2>1, <2>2
  <2>6. shift \in [B -> C]
    BY <2>3
  <2>7. \A j \in C : \E i \in B : shift[i] = j
    BY <2>4
  <2>. HIDE DEF shift, C
  <2>. QED  BY <2>5, <2>6, <2>7 DEF Bijection, Injection, Surjection, IsInjective
<1>4. Cardinality(B) = Cardinality(C)
  <2>. HIDE DEF A, B, C, shift
  <2>1. ExistsBijection(B, C)
    BY <1>3 DEF ExistsBijection
  <2>. QED  BY <1>2, <2>1, FS_Bijection
<1>5. ASSUME Head(left) = "object"
      PROVE  Cardinality(A) = Cardinality(B) + 1
  <2>1. 1 \in A /\ C = A \ {1}
    BY <1>1, <1>5
  <2>2. Cardinality(A \ {1}) = Cardinality(A) - 1
    <3>. HIDE DEF A, B, C
    <3>. QED  BY <1>2, <2>1, FS_RemoveElement
  <2>3. Cardinality(A) \in Nat
    <3>. HIDE DEF A
    <3>. QED  BY <1>2, FS_CardinalityType
  <2>. HIDE DEF A, B, C
  <2>. QED  BY <1>4, <2>1, <2>2, <2>3
<1>6. ASSUME Head(left) = "empty"
      PROVE  Cardinality(A) = Cardinality(B)
  <2>1. C = A
    BY <1>1, <1>6
  <2>. HIDE DEF A, B, C
  <2>. QED  BY <1>4, <2>1
<1>7. Objects(left) = Cardinality(A) /\ Objects(Tail(left)) = Cardinality(B)
  BY DEF Objects
<1>. HIDE DEF A, B, C, shift
<1>. QED  BY <1>1, <1>5, <1>6, <1>7

LEMMA PendingNat ==
  ASSUME NEW k \in Classes, NEW fs, Stack(k, fs)
  PROVE  Pending(fs) \in Nat
<1>1. CASE fs = << >>
  BY <1>1 DEF Pending
<1>2. CASE fs # << >>
  <2>1. 1 \in 1 .. Len(fs)
    BY <1>2, TopOfStack
  <2>2. fs[1].left \in Seq({"object", "empty"})
    BY <2>1 DEF Stack, FrameOK, Frames
  <2>. QED  BY <1>2, <2>2, ObjectsNat DEF Pending
<1>. QED  BY <1>1, <1>2

-----------------------------------------------------------------------------
(* What the functions do to the stack *)

\* f has no elements before it, and may go on with m written.
MayAdvance(k, f, m) ==
    /\ f.left = << >>
    /\ f.pos <= Len(StepsOf(k, f))
    /\ m \in SUBSET STRING
    /\ StepOf(k, f).kind \in Firm => StepOf(k, f).member \in m

\* Advance: the function at the top has no elements before it and goes on.
LEMMA AdvanceStack ==
  ASSUME NEW k \in Classes, NEW fs, Stack(k, fs), fs # << >>,
         NEW lk, Recorded(k, fs, lk),
         NEW f, f = fs[Len(fs)], NEW m, MayAdvance(k, f, m),
         NEW g, g = Advanced(f, m),
         NEW gs, gs = WithTop(fs, g)
  PROVE  Stack(k, gs) /\ gs # << >> /\ Recorded(k, gs, lk) /\ Pending(gs) = Pending(fs)
<1>1. FrameOK(k, f) /\ Len(fs) \in Nat \ {0}
  BY TopOfStack
<1>2. FrameOK(k, g) /\ g.type = f.type /\ g.left = << >>
  BY <1>1, AdvancedFrame DEF MayAdvance
<1>3. /\ Stack(k, gs) /\ gs # << >> /\ Len(gs) = Len(fs) /\ gs[Len(gs)] = g
      /\ \A i \in 1 .. Len(fs) : i # Len(fs) => gs[i] = fs[i]
  BY <1>2, ReplacedTop
<1>4. Recorded(k, gs, lk)
  <2>1. ASSUME NEW i \in 1 .. Len(gs), NEW j \in 1 .. Len(gs[i].left),
               gs[i].left[j] = "empty"
        PROVE  << gs[i].type, StepOf(k, gs[i]).member >> \in lk
    <3>1. CASE i = Len(fs)
      <4>1. gs[i].left = << >>
        BY <1>2, <1>3, <3>1
      <4>2. Len(gs[i].left) = 0
        BY <4>1
      <4>. QED  BY <2>1, <4>2
    <3>2. CASE i # Len(fs)
      <4>1. gs[i] = fs[i] /\ i \in 1 .. Len(fs)
        BY <1>3, <3>2
      <4>. QED  BY <2>1, <4>1 DEF Recorded
    <3>. QED  BY <3>1, <3>2
  <2>. QED  BY <2>1 DEF Recorded
<1>5. gs[1].left = fs[1].left
  <2>1. CASE Len(fs) = 1
    BY <1>2, <1>3, <2>1 DEF MayAdvance
  <2>2. CASE Len(fs) # 1
    <3>1. 1 \in 1 .. Len(fs)
      BY <1>1
    <3>2. gs[1] = fs[1]
      BY <1>3, <2>2, <3>1
    <3>. QED  BY <3>2
  <2>. QED  BY <2>1, <2>2
<1>. QED  BY <1>3, <1>4, <1>5 DEF Pending

\* Return: the function below is at the step that called the one at the top.
LEMMA ReturnStack ==
  ASSUME NEW k \in Classes, NEW fs, Stack(k, fs), fs # << >>,
         NEW lk, Recorded(k, fs, lk),
         NEW f, f = fs[Len(fs)],
         NEW gs, gs = Popped(fs)
  PROVE  /\ Stack(k, gs) /\ Recorded(k, gs, lk)
         /\ Pending(gs) \in Nat /\ Pending(gs) <= Pending(fs)
         /\ Len(fs) # 1 => /\ gs # << >> /\ Pending(gs) = Pending(fs)
                           /\ f.type # "Response" /\ Awaits(k, gs[Len(gs)], f.type)
         /\ Len(fs) = 1 => gs = << >> /\ f.type = "Response" /\ Pending(fs) = Objects(f.left)
<1>1. FrameOK(k, f) /\ Len(fs) \in Nat \ {0} /\ (f.type = "Response" <=> Len(fs) = 1)
  BY TopOfStack
<1>2. /\ Stack(k, gs) /\ Len(gs) = Len(fs) - 1
      /\ \A i \in 1 .. Len(gs) : gs[i] = fs[i]
      /\ gs = << >> <=> Len(fs) = 1
      /\ gs # << >> => Awaits(k, gs[Len(gs)], f.type)
  BY PoppedTop
<1>3. Recorded(k, gs, lk)
  <2>1. \A i \in 1 .. Len(gs) : i \in 1 .. Len(fs) /\ gs[i] = fs[i]
    BY <1>1, <1>2
  <2>. QED  BY <2>1 DEF Recorded
<1>4. Pending(gs) \in Nat /\ Pending(fs) \in Nat
  BY <1>2, PendingNat
<1>5. CASE Len(fs) = 1
  <2>1. Pending(gs) = 0 /\ Pending(fs) = Objects(f.left)
    BY <1>2, <1>5 DEF Pending
  <2>2. Pending(gs) <= Pending(fs)
    BY <1>4, <2>1
  <2>3. gs = << >> /\ f.type = "Response"
    BY <1>1, <1>2, <1>5
  <2>. QED  BY <1>2, <1>3, <1>4, <1>5, <2>1, <2>2, <2>3
<1>6. CASE Len(fs) # 1
  <2>1. 1 \in 1 .. Len(gs)
    BY <1>1, <1>2, <1>6
  <2>2. Pending(gs) = Pending(fs)
    BY <1>2, <1>6, <2>1 DEF Pending
  <2>. QED  BY <1>1, <1>2, <1>3, <1>4, <1>6, <2>2
<1>. QED  BY <1>5, <1>6

\* Extract: the extractor that is called has nothing before it.
LEMMA ExtractStack ==
  ASSUME NEW k \in Classes, NEW fs, Stack(k, fs), fs # << >>,
         NEW lk, Recorded(k, fs, lk),
         NEW t \in Types(k) \ {"Response"}, Awaits(k, fs[Len(fs)], t),
         NEW gs, gs = Called(fs, t)
  PROVE  Stack(k, gs) /\ gs # << >> /\ Recorded(k, gs, lk) /\ Pending(gs) = Pending(fs)
<1>1. Len(fs) \in Nat \ {0}
  BY TopOfStack
<1>2. /\ Stack(k, gs) /\ gs # << >> /\ Len(gs) = Len(fs) + 1
      /\ \A i \in 1 .. Len(fs) : gs[i] = fs[i]
      /\ gs[Len(gs)] = Frame(t)
  BY PushedTop
<1>3. Frame(t).left = << >>
  BY FreshFrame
<1>4. ASSUME NEW i \in 1 .. Len(gs), NEW j \in 1 .. Len(gs[i].left),
             gs[i].left[j] = "empty"
      PROVE  << gs[i].type, StepOf(k, gs[i]).member >> \in lk
  <2>1. CASE i = Len(gs)
    <3>1. Len(gs[i].left) = 0
      BY <1>2, <1>3, <2>1
    <3>. QED  BY <1>4, <3>1
  <2>2. CASE i # Len(gs)
    <3>1. i \in 1 .. Len(fs)
      BY <1>1, <1>2, <2>2
    <3>2. gs[i] = fs[i]
      BY <1>2, <3>1
    <3>. QED  BY <1>4, <3>1, <3>2 DEF Recorded
  <2>. QED  BY <2>1, <2>2
<1>5. gs[1] = fs[1]
  BY <1>1, <1>2
<1>. QED  BY <1>2, <1>4, <1>5 DEF Recorded, Pending

\* The elements of the array that ParseResponse is at change; f.begun holds then.
LEMMA ElementsStack ==
  ASSUME NEW k \in Classes, NEW fs, Stack(k, fs), fs # << >>,
         NEW lk, Recorded(k, fs, lk),
         NEW f, f = fs[Len(fs)], IsAt(k, f, Arrays),
         NEW left \in Seq({"object", "empty"}), Len(left) <= MaxElements,
         \A j \in 1 .. Len(left) : left[j] = "empty" => << f.type, StepOf(k, f).member >> \in lk,
         NEW g, g = AtElements(f, left),
         NEW gs, gs = WithTop(fs, g)
  PROVE  /\ Stack(k, gs) /\ gs # << >> /\ Recorded(k, gs, lk) /\ Len(fs) = 1
         /\ Pending(gs) = Objects(left) /\ Pending(fs) = Objects(f.left)
<1>1. FrameOK(k, f) /\ Len(fs) \in Nat \ {0} /\ (f.type = "Response" <=> Len(fs) = 1)
  BY TopOfStack
<1>2. Len(fs) = 1
  BY <1>1, ArrayInResponse
<1>3. /\ g \in Frames(k) /\ g.type = f.type /\ g.pos = f.pos /\ g.written = f.written
      /\ g.begun = TRUE /\ g.left = left
  <2>1. f \in Frames(k)
    BY <1>1 DEF FrameOK
  <2>. QED  BY <2>1 DEF Frames, AtElements
<1>4. StepsOf(k, g) = StepsOf(k, f) /\ StepOf(k, g) = StepOf(k, f)
  BY <1>3 DEF StepsOf, StepOf
<1>5. FrameOK(k, g)
  BY <1>1, <1>3, <1>4 DEF FrameOK, IsAt
<1>6. Stack(k, gs) /\ gs # << >> /\ Len(gs) = 1 /\ gs[1] = g
  BY <1>2, <1>3, <1>5, ReplacedTop
<1>7. Recorded(k, gs, lk)
  BY <1>3, <1>4, <1>6 DEF Recorded
<1>. QED  BY <1>2, <1>3, <1>6, <1>7 DEF Pending

-----------------------------------------------------------------------------
(* What an answer lacks *)

\* Nothing that was lacking is had later.
LEMMA LackingGrows ==
  ASSUME NEW k, NEW lk, NEW lk2, lk \subseteq lk2
  PROVE  /\ \A fs : Recorded(k, fs, lk) => Recorded(k, fs, lk2)
         /\ \A kinds : LacksAt(k, lk, kinds) => LacksAt(k, lk2, kinds)
         /\ LacksNeeded(k, lk) => LacksNeeded(k, lk2)
<1>1. ASSUME NEW fs, Recorded(k, fs, lk)
      PROVE  Recorded(k, fs, lk2)
  BY <1>1 DEF Recorded
<1>2. ASSUME NEW kinds, LacksAt(k, lk, kinds)
      PROVE  LacksAt(k, lk2, kinds)
  BY <1>2 DEF LacksAt
<1>3. ASSUME LacksNeeded(k, lk)
      PROVE  LacksNeeded(k, lk2)
  BY <1>3 DEF LacksNeeded
<1>. QED  BY <1>1, <1>2, <1>3

\* The member of the step that f is at is lacking.
LEMMA LackingAt ==
  ASSUME NEW k \in Classes, NEW f, FrameOK(k, f), f.pos <= Len(StepsOf(k, f)),
         NEW lk, << f.type, StepOf(k, f).member >> \in lk
  PROVE  /\ \A kinds : StepOf(k, f).kind \in kinds => LacksAt(k, lk, kinds)
         /\ StepOf(k, f).kind \in {"req", "struct", "list", "array"} => LacksNeeded(k, lk)
<1>. DEFINE l == << f.type, StepOf(k, f).member >>
<1>1. StepFacts(k, f.type, StepOf(k, f)) /\ f.type \in Types(k)
      /\ f.pos \in 1 .. Len(StepsOf(k, f))
  BY StepOfFrame
<1>2. l[1] = f.type /\ l[2] = StepOf(k, f).member /\ l \in lk
  OBVIOUS
<1>3. f.pos \in DOMAIN Api[k].steps[f.type]
  BY <1>1, StepsOfFrame DEF StepsOf
<1>4. Api[k].steps[f.type][f.pos] = StepOf(k, f)
  BY DEF StepOf, StepsOf
<1>. HIDE DEF l
<1>5. ASSUME NEW kinds, StepOf(k, f).kind \in kinds
      PROVE  LacksAt(k, lk, kinds)
  BY <1>2, <1>3, <1>4, <1>5 DEF LacksAt
<1>6. ASSUME StepOf(k, f).kind \in {"req", "struct", "list", "array"}
      PROVE  LacksNeeded(k, lk)
  BY <1>1, <1>2, <1>6 DEF LacksNeeded, StepFacts
<1>. QED  BY <1>5, <1>6

\* Lack.
LEMMA LackingMore ==
  ASSUME NEW k \in Classes, NEW f, FrameOK(k, f), f.pos <= Len(StepsOf(k, f)),
         NEW lk, LackingOK(k, lk),
         NEW lk2, lk2 = lk \cup {<< f.type, StepOf(k, f).member >>}
  PROVE  LackingOK(k, lk2) /\ lk \subseteq lk2 /\ << f.type, StepOf(k, f).member >> \in lk2
<1>1. StepFacts(k, f.type, StepOf(k, f)) /\ f.type \in Types(k)
  BY StepOfFrame
<1>2. ASSUME NEW l \in lk2
      PROVE  l[1] \in Types(k) /\ l[2] \in AllMembers(k, l[1])
  BY <1>1, <1>2 DEF LackingOK, StepFacts
<1>. QED  BY <1>2 DEF LackingOK

\* The account stays right when more is lacking and the pending elements stay.
LEMMA BooksGrow ==
  ASSUME NEW k, NEW lk, NEW lk2, lk \subseteq lk2, NEW e, NEW given, NEW taken,
         NEW fs, Books(k, fs, lk, e, given, taken),
         NEW gs, Pending(gs) = Pending(fs)
  PROVE  Books(k, gs, lk2, e, given, taken)
<1>1. LacksAt(k, lk, {"array", "optlist"}) => LacksAt(k, lk2, {"array", "optlist"})
  BY LackingGrows
<1>. QED  BY <1>1 DEF Books

\* A step that does not read an array finds no elements.
LEMMA NoElements ==
  ASSUME NEW k \in Classes, NEW f, FrameOK(k, f), ~IsAt(k, f, Arrays)
  PROVE  f.left = << >> /\ ~f.begun
BY DEF FrameOK, Frames

-----------------------------------------------------------------------------
(* The shapes of the steps *)

\* The state while a function is at work.
LEMMA AtWork ==
  ASSUME ResponseInv, frames # << >>
  PROVE  /\ class \in Classes /\ phase = "parsing"
         /\ FrameOK(class, Top) /\ Len(frames) \in Nat \ {0}
         /\ Top.type = "Response" <=> Len(frames) = 1
         /\ \A kinds : At(kinds) <=> IsAt(class, Top, kinds)
         /\ Step = StepOf(class, Top) /\ Steps(Top.type) = StepsOf(class, Top)
<1>1. class \in Classes /\ Stack(class, frames)
  BY DEF ResponseInv, Scalars
<1>2. phase = "parsing"
  BY DEF ResponseInv
<1>3. /\ FrameOK(class, Top) /\ Len(frames) \in Nat \ {0}
      /\ Top.type = "Response" <=> Len(frames) = 1
  BY <1>1, TopOfStack DEF Top
<1>4. Step = StepOf(class, Top) /\ Steps(Top.type) = StepsOf(class, Top)
  BY DEF Step, Steps, StepOf, StepsOf
<1>5. \A kinds : At(kinds) <=> IsAt(class, Top, kinds)
  BY <1>4 DEF At, IsAt
<1>. QED  BY <1>1, <1>2, <1>3, <1>4, <1>5

\* The function at the top goes on, with m written.
LEMMA StepsOn ==
  ASSUME ResponseInv, frames # << >>,
         Top.left = << >>, Top.pos <= Len(StepsOf(class, Top)),
         NEW m \in SUBSET STRING, Step.kind \in Firm => Step.member \in m, Advance(m),
         class' = class, phase' = phase, refused' = refused, error' = error,
         returned' = "none", value' \in SUBSET STRING,
         lacking \subseteq lacking', LackingOK(class, lacking'), KeptOK(class, kept'),
         offered' \in Nat, pushed' \in Nat,
         Books(class, frames, lacking', error, offered', pushed')
  PROVE  ResponseInv'
<1>1. /\ class \in Classes /\ phase = "parsing" /\ Step = StepOf(class, Top)
      /\ FrameOK(class, Top)
  BY AtWork
<1>2. Recorded(class, frames, lacking') /\ Stack(class, frames)
  BY LackingGrows DEF ResponseInv
<1>3. frames' = WithTop(frames, Advanced(Top, m))
  BY DEF Advance, WithTop, Top
<1>4. Top = frames[Len(frames)]
  BY DEF Top
<1>5. /\ Stack(class, frames') /\ frames' # << >> /\ Recorded(class, frames', lacking')
      /\ Pending(frames') = Pending(frames)
  <2>. DEFINE f == Top
              g == Advanced(f, m)
  <2>1. MayAdvance(class, f, m)
    BY <1>1 DEF MayAdvance
  <2>2. f = frames[Len(frames)]
    BY <1>4
  <2>3. g = Advanced(f, m) /\ frames' = WithTop(frames, g)
    BY <1>3
  <2>. HIDE DEF f, g
  <2>. QED  BY <1>1, <1>2, <2>1, <2>2, <2>3, AdvanceStack
<1>6. Books(class, frames', lacking', error, offered', pushed')
  BY <1>5, BooksGrow
<1>7. Scalars'
  BY DEF ResponseInv, Scalars
<1>8. Answered(class, frames', lacking', error, returned', value')
  BY DEF Answered
<1>9. error # "none" /\ ~refused => LacksNeeded(class, lacking')
  BY LackingGrows DEF ResponseInv
<1>. QED  BY <1>1, <1>5, <1>6, <1>7, <1>8, <1>9 DEF ResponseInv

\* The function at the top returns with an error.
LEMMA FailsOut ==
  ASSUME ResponseInv, frames # << >>, ReturnError,
         class' = class, phase' = phase, refused' = refused, kept' = kept,
         lacking \subseteq lacking', LackingOK(class, lacking'),
         ~refused => LacksNeeded(class, lacking'),
         offered' \in Nat, pushed' \in Nat, pushed' + Pending(frames) <= offered'
  PROVE  ResponseInv'
<1>1. /\ class \in Classes /\ phase = "parsing" /\ FrameOK(class, Top)
      /\ Len(frames) \in Nat \ {0}
  BY AtWork
<1>2. Recorded(class, frames, lacking') /\ Stack(class, frames)
  BY LackingGrows DEF ResponseInv
<1>3. /\ frames' = Popped(frames) /\ value' = Top.written /\ error' = "ContentInvalidData"
      /\ returned' = IF Len(frames) = 1 THEN "none" ELSE "false"
  BY DEF ReturnError, Return, Popped
<1>4. Top = frames[Len(frames)]
  BY DEF Top
<1>5. /\ Stack(class, frames') /\ Recorded(class, frames', lacking')
      /\ Pending(frames') \in Nat /\ Pending(frames') <= Pending(frames)
      /\ Len(frames) # 1 => /\ frames' # << >>
                            /\ Awaits(class, frames'[Len(frames')], Top.type)
  BY <1>1, <1>2, <1>3, <1>4, ReturnStack
<1>6. Books(class, frames', lacking', error', offered', pushed')
  <2>1. Pending(frames) \in Nat
    BY <1>1, <1>2, PendingNat
  <2>2. pushed' + Pending(frames') <= offered'
    BY <1>5, <2>1
  <2>. QED  BY <1>3, <2>2 DEF Books
<1>7. Scalars'
  BY <1>1, <1>3 DEF ResponseInv, Scalars, FrameOK, Frames
<1>8. Answered(class, frames', lacking', error', returned', value')
  BY <1>3, <1>5 DEF Answered, Answer, Awaits
<1>9. Whole(class, lacking', error', value')
  BY <1>3 DEF Whole
<1>. QED  BY <1>1, <1>5, <1>6, <1>7, <1>8, <1>9 DEF ResponseInv

\* The function at the top calls the extractor of the step it is at.
LEMMA Calls ==
  ASSUME ResponseInv, frames # << >>, Extract(Step.type),
         IsAt(class, Top, Branches),
         IsAt(class, Top, Arrays) => Top.left # << >> /\ Head(Top.left) = "object",
         returned = "none",
         UNCHANGED << class, phase, refused, lacking, offered, pushed, error, returned,
                      value, kept >>
  PROVE  ResponseInv'
<1>1. /\ class \in Classes /\ phase = "parsing" /\ FrameOK(class, Top)
      /\ Step = StepOf(class, Top)
  BY AtWork
<1>2. Recorded(class, frames, lacking) /\ Stack(class, frames)
  BY DEF ResponseInv
<1>3. Step.type \in Types(class) \ {"Response"}
  BY <1>1, StepOfFrame DEF IsAt, StepFacts
<1>4. Awaits(class, frames[Len(frames)], Step.type)
  BY <1>1 DEF Awaits, Top
<1>5. frames' = Called(frames, Step.type)
  BY DEF Extract, Called
<1>6. /\ Stack(class, frames') /\ frames' # << >> /\ Recorded(class, frames', lacking)
      /\ Pending(frames') = Pending(frames)
  BY <1>1, <1>2, <1>3, <1>4, <1>5, ExtractStack
<1>7. Books(class, frames', lacking, error, offered, pushed)
  BY <1>6, BooksGrow DEF ResponseInv
<1>8. Scalars'
  BY DEF ResponseInv, Scalars
<1>9. Answered(class, frames', lacking, error, returned, value)
  BY DEF Answered
<1>. QED  BY <1>1, <1>6, <1>7, <1>8, <1>9 DEF ResponseInv

\* The branch or the element at the top is empty.
LEMMA FindsEmpty ==
  ASSUME ResponseInv, frames # << >>, EmptyBranch,
         IsAt(class, Top, Branches),
         IsAt(class, Top, Arrays) => Top.left # << >> /\ Head(Top.left) = "empty",
         lacking \subseteq lacking', LackingOK(class, lacking'),
         << Top.type, Step.member >> \in lacking',
         UNCHANGED << class, phase, refused, offered, pushed, error, kept >>
  PROVE  ResponseInv'
<1>1. /\ class \in Classes /\ phase = "parsing" /\ FrameOK(class, Top)
      /\ Step = StepOf(class, Top)
  BY AtWork
<1>2. frames' = frames /\ returned' = "false" /\ value' = {}
  BY DEF EmptyBranch
<1>3. Recorded(class, frames, lacking') /\ Stack(class, frames)
  BY LackingGrows DEF ResponseInv
<1>4. Books(class, frames, lacking', error, offered, pushed)
  BY BooksGrow DEF ResponseInv
<1>5. Scalars'
  BY <1>2 DEF ResponseInv, Scalars
<1>6. Answered(class, frames, lacking', error, returned', value')
  BY <1>1, <1>2 DEF Answered, Answer, Top
<1>7. error # "none" /\ ~refused => LacksNeeded(class, lacking')
  BY LackingGrows DEF ResponseInv
<1>. QED  BY <1>1, <1>2, <1>3, <1>4, <1>5, <1>6, <1>7 DEF ResponseInv

-----------------------------------------------------------------------------
(* The operations *)

\* What every step of ParseResponse and of an extractor starts from.
LEMMA RunningAt ==
  ASSUME ResponseInv, NEW kinds, Running /\ At(kinds)
  PROVE  /\ frames # << >> /\ returned = "none"
         /\ class \in Classes /\ phase = "parsing" /\ FrameOK(class, Top)
         /\ Step = StepOf(class, Top) /\ Top.pos <= Len(StepsOf(class, Top))
         /\ IsAt(class, Top, kinds) /\ Step.kind \in kinds
         /\ StepFacts(class, Top.type, Step) /\ Step.member \in STRING
<1>1. frames # << >> /\ returned = "none"
  BY DEF Running
<1>2. /\ class \in Classes /\ phase = "parsing" /\ FrameOK(class, Top)
      /\ Step = StepOf(class, Top) /\ IsAt(class, Top, kinds)
  BY <1>1, AtWork
<1>3. Top.pos <= Len(StepsOf(class, Top)) /\ Step.kind \in kinds
  BY <1>2 DEF IsAt
<1>4. StepFacts(class, Top.type, Step)
  BY <1>2, <1>3, StepOfFrame
<1>5. Step.member \in STRING
  BY <1>4 DEF StepFacts
<1>. QED  BY <1>1, <1>2, <1>3, <1>4, <1>5

\* And what a step that an extractor has come back to starts from.
LEMMA BackAt ==
  ASSUME ResponseInv, NEW kinds, Back(kinds)
  PROVE  /\ frames # << >> /\ returned \in {"true", "false"}
         /\ class \in Classes /\ phase = "parsing" /\ FrameOK(class, Top)
         /\ Step = StepOf(class, Top) /\ Top.pos <= Len(StepsOf(class, Top))
         /\ IsAt(class, Top, kinds) /\ Step.kind \in kinds
         /\ StepFacts(class, Top.type, Step) /\ Step.member \in STRING
         /\ Answer(class, Top, lacking, error, returned, value)
<1>1. frames # << >> /\ Answer(class, Top, lacking, error, returned, value)
  BY DEF Back, ResponseInv, Answered, Top
<1>2. /\ class \in Classes /\ phase = "parsing" /\ FrameOK(class, Top)
      /\ Step = StepOf(class, Top) /\ IsAt(class, Top, kinds)
  BY <1>1, AtWork DEF Back
<1>3. Top.pos <= Len(StepsOf(class, Top)) /\ Step.kind \in kinds
  BY <1>2 DEF IsAt
<1>4. StepFacts(class, Top.type, Step)
  BY <1>2, <1>3, StepOfFrame
<1>5. Step.member \in STRING
  BY <1>4 DEF StepFacts
<1>6. returned \in {"true", "false"}
  BY DEF Back, ResponseInv, Scalars
<1>. QED  BY <1>1, <1>2, <1>3, <1>4, <1>5, <1>6

\* Lack leaves more lacking.
LEMMA LackAt ==
  ASSUME ResponseInv, frames # << >>, Top.pos <= Len(StepsOf(class, Top)), Lack
  PROVE  /\ lacking \subseteq lacking' /\ LackingOK(class, lacking')
         /\ << Top.type, Step.member >> \in lacking'
         /\ \A kinds : Step.kind \in kinds => LacksAt(class, lacking', kinds)
         /\ Step.kind \in {"req", "struct", "list", "array"} => LacksNeeded(class, lacking')
<1>1. class \in Classes /\ FrameOK(class, Top) /\ Step = StepOf(class, Top)
  BY AtWork
<1>2. lacking' = lacking \cup {<< Top.type, StepOf(class, Top).member >>}
  BY <1>1 DEF Lack
<1>3. /\ LackingOK(class, lacking') /\ lacking \subseteq lacking'
      /\ << Top.type, StepOf(class, Top).member >> \in lacking'
  BY <1>1, <1>2, LackingMore DEF ResponseInv
<1>4. /\ \A kinds : StepOf(class, Top).kind \in kinds => LacksAt(class, lacking', kinds)
      /\ StepOf(class, Top).kind \in {"req", "struct", "list", "array"} =>
            LacksNeeded(class, lacking')
  BY <1>1, <1>3, LackingAt
<1>. QED  BY <1>1, <1>3, <1>4

\* The account of the arrays before a step that adds nothing to it.
LEMMA BooksNow ==
  ASSUME ResponseInv, lacking \subseteq lacking'
  PROVE  /\ Books(class, frames, lacking', error, offered, pushed)
         /\ offered \in Nat /\ pushed \in Nat /\ pushed + Pending(frames) <= offered
         /\ value \in SUBSET STRING /\ KeptOK(class, kept) /\ LackingOK(class, lacking)
<1>1. Books(class, frames, lacking', error, offered, pushed)
  BY BooksGrow DEF ResponseInv
<1>. QED  BY <1>1 DEF ResponseInv, Scalars, Books

\* A preset and a value that is there.
LEMMA WriteKeeps ==
  ASSUME ResponseInv, WritePreset \/ Read
  PROVE  ResponseInv'
<1>1. Running /\ At({"preset", "req", "opt"}) /\ Advance({Step.member})
  BY DEF WritePreset, Read, At
<1>2. /\ class' = class /\ phase' = phase /\ refused' = refused /\ lacking' = lacking
      /\ offered' = offered /\ pushed' = pushed /\ error' = error
      /\ returned' = returned /\ value' = value /\ kept' = kept
  BY DEF WritePreset, Read
<1>3. /\ frames # << >> /\ returned = "none" /\ class \in Classes /\ FrameOK(class, Top)
      /\ Top.pos <= Len(StepsOf(class, Top)) /\ Step.member \in STRING
      /\ IsAt(class, Top, {"preset", "req", "opt"})
  BY <1>1, RunningAt
<1>4. Top.left = << >>
  BY <1>3, NoElements DEF IsAt, Arrays
<1>5. /\ Books(class, frames, lacking', error, offered, pushed)
      /\ offered \in Nat /\ pushed \in Nat
      /\ value \in SUBSET STRING /\ KeptOK(class, kept) /\ LackingOK(class, lacking)
  BY <1>2, BooksNow
<1>6. {Step.member} \in SUBSET STRING
  BY <1>3
<1>. QED  BY <1>1, <1>2, <1>3, <1>4, <1>5, <1>6, StepsOn

\* A member or a branch that ParseResponse can do without is not there.
LEMMA LackOptionalKeeps ==
  ASSUME ResponseInv, LackOptional \/ LackOptionalBranch
  PROVE  ResponseInv'
<1>. DEFINE K == {"opt", "optstruct", "optarray", "optlist"}
<1>1. Running /\ At(K) /\ Advance({}) /\ Lack
  BY DEF LackOptional, LackOptionalBranch, At
<1>2. /\ class' = class /\ phase' = phase /\ refused' = refused
      /\ offered' = offered /\ pushed' = pushed /\ error' = error
      /\ returned' = returned /\ value' = value /\ kept' = kept
  BY DEF LackOptional, LackOptionalBranch
<1>3. /\ frames # << >> /\ returned = "none" /\ class \in Classes /\ FrameOK(class, Top)
      /\ Top.pos <= Len(StepsOf(class, Top)) /\ Step.kind \in K
      /\ Step = StepOf(class, Top)
  <2>. HIDE DEF K
  <2>. QED  BY <1>1, RunningAt
<1>4. Top.left = << >>
  <2>1. CASE LackOptional
    <3>1. Step.kind = "opt"
      BY <2>1 DEF LackOptional, At
    <3>. QED  BY <1>3, <3>1, NoElements DEF IsAt, Arrays
  <2>2. CASE LackOptionalBranch
    <3>1. ~Top.begun
      BY <2>2 DEF LackOptionalBranch
    <3>. QED  BY <1>3, <3>1 DEF FrameOK
  <2>. QED  BY <2>1, <2>2
<1>5. lacking \subseteq lacking' /\ LackingOK(class, lacking')
  BY <1>1, <1>3, LackAt
<1>6. /\ Books(class, frames, lacking', error, offered, pushed)
      /\ offered \in Nat /\ pushed \in Nat
      /\ value \in SUBSET STRING /\ KeptOK(class, kept)
  BY <1>5, BooksNow
<1>7. {} \in SUBSET STRING /\ (Step.kind \in Firm => Step.member \in {})
  BY <1>3 DEF Firm
<1>. HIDE DEF K
<1>. QED  BY <1>1, <1>2, <1>3, <1>4, <1>5, <1>6, <1>7, StepsOn

\* A member or a branch that it cannot do without is not there.
LEMMA LackRequiredKeeps ==
  ASSUME ResponseInv, LackRequired \/ LackRequiredBranch
  PROVE  ResponseInv'
<1>. DEFINE K == {"req", "struct", "list", "array"}
<1>1. Running /\ At(K) /\ ReturnError /\ Lack
  BY DEF LackRequired, LackRequiredBranch, At
<1>2. /\ class' = class /\ phase' = phase /\ refused' = refused
      /\ offered' = offered /\ pushed' = pushed /\ kept' = kept
  BY DEF LackRequired, LackRequiredBranch
<1>3. /\ frames # << >> /\ Top.pos <= Len(StepsOf(class, Top)) /\ Step.kind \in K
  <2>. HIDE DEF K
  <2>. QED  BY <1>1, RunningAt
<1>4. lacking \subseteq lacking' /\ LackingOK(class, lacking') /\ LacksNeeded(class, lacking')
  BY <1>1, <1>3, LackAt
<1>5. offered \in Nat /\ pushed \in Nat /\ pushed + Pending(frames) <= offered
  BY <1>4, BooksNow
<1>. HIDE DEF K
<1>. QED  BY <1>1, <1>2, <1>3, <1>4, <1>5, FailsOut

\* n values were offered and m of them were pushed.
LEMMA BooksAdd ==
  ASSUME NEW k \in Classes, NEW fs, Stack(k, fs), NEW lk, NEW lk2, lk \subseteq lk2, NEW e,
         NEW given \in Nat, NEW taken \in Nat, Books(k, fs, lk, e, given, taken),
         NEW n \in Nat, NEW m \in Nat, m <= n, n = m \/ LacksAt(k, lk2, {"array", "optlist"})
  PROVE  /\ Books(k, fs, lk2, e, given + n, taken + m)
         /\ given + n \in Nat /\ taken + m \in Nat
<1>. DEFINE p == Pending(fs)
            A == LacksAt(k, lk, {"array", "optlist"})
            B == LacksAt(k, lk2, {"array", "optlist"})
<1>1. p \in Nat
  BY PendingNat
<1>2. A => B
  BY LackingGrows
<1>3. taken + p <= given /\ (e = "none" /\ ~A => taken + p = given)
  BY DEF Books
<1>4. n = m \/ B
  OBVIOUS
<1>. HIDE DEF p, A, B
<1>5. (taken + m) + p <= given + n
  BY <1>1, <1>3
<1>6. e = "none" /\ ~B => (taken + m) + p = given + n
  BY <1>1, <1>2, <1>3, <1>4
<1>. QED  BY <1>5, <1>6 DEF Books, p, B

\* A required list of values.
LEMMA ReadListKeeps ==
  ASSUME ResponseInv, ReadList
  PROVE  ResponseInv'
<1>1. PICK n \in 0 .. MaxElements : \E bad \in 1 .. n + 1 :
         /\ Values(n, bad)
         /\ pushed' = pushed + bad - 1
         /\ IF n = 0 \/ bad <= n
            THEN ReturnError
            ELSE Advance({Step.member}) /\ UNCHANGED << error, returned, value >>
  BY DEF ReadList
<1>2. PICK bad \in 1 .. n + 1 :
         /\ Values(n, bad)
         /\ pushed' = pushed + bad - 1
         /\ IF n = 0 \/ bad <= n
            THEN ReturnError
            ELSE Advance({Step.member}) /\ UNCHANGED << error, returned, value >>
  BY <1>1
<1>3. class' = class /\ phase' = phase /\ refused' = refused /\ kept' = kept
  BY DEF ReadList
<1>4. /\ frames # << >> /\ returned = "none" /\ class \in Classes /\ FrameOK(class, Top)
      /\ Top.pos <= Len(StepsOf(class, Top)) /\ Step.kind = "list" /\ Step.member \in STRING
      /\ IsAt(class, Top, {"list"})
  <2>1. Running /\ At({"list"})
    BY DEF ReadList
  <2>2. Step.kind \in {"list"}
    BY <2>1, RunningAt
  <2>. QED  BY <2>1, <2>2, RunningAt
<1>5. n \in Nat /\ bad \in Nat \ {0} /\ bad <= n + 1
  BY ApiResponseAssumption
<1>6. Stack(class, frames) /\ Books(class, frames, lacking, error, offered, pushed)
      /\ offered \in Nat /\ pushed \in Nat
  BY DEF ResponseInv, Scalars
<1>7. Top.left = << >>
  BY <1>4, NoElements DEF IsAt, Arrays
<1>8. CASE n = 0 \/ bad <= n
  <2>1. Lack /\ ReturnError
    BY <1>2, <1>8 DEF Values
  <2>2. lacking \subseteq lacking' /\ LackingOK(class, lacking') /\ LacksNeeded(class, lacking')
    BY <1>4, <2>1, LackAt
  <2>3. pushed + Pending(frames) <= offered
    BY <1>6 DEF Books
  <2>4. Pending(frames) \in Nat
    BY <1>4, <1>6, PendingNat
  <2>5. /\ pushed' = pushed + bad - 1
        /\ offered' = offered + (IF bad <= n THEN n - 1 ELSE n)
    BY <1>2 DEF Values
  <2>6. offered' \in Nat /\ pushed' \in Nat /\ pushed' + Pending(frames) <= offered'
    <3>. DEFINE p == Pending(frames)
    <3>1. p \in Nat /\ pushed + p <= offered
      BY <2>3, <2>4
    <3>. HIDE DEF p
    <3>2. offered' \in Nat /\ pushed' \in Nat /\ pushed' + p <= offered'
      BY <1>5, <1>6, <1>8, <2>5, <3>1
    <3>. QED  BY <3>2 DEF p
  <2>. QED  BY <1>3, <1>4, <2>1, <2>2, <2>6, FailsOut
<1>9. CASE ~(n = 0 \/ bad <= n)
  <2>1. /\ Advance({Step.member}) /\ error' = error /\ returned' = returned /\ value' = value
        /\ lacking' = lacking
    BY <1>2, <1>9 DEF Values
  <2>2. bad = n + 1
    BY <1>5, <1>9
  <2>3. pushed' = pushed + n /\ offered' = offered + n
    BY <1>2, <1>5, <1>6, <2>2 DEF Values
  <2>4. /\ Books(class, frames, lacking', error, offered', pushed')
        /\ offered' \in Nat /\ pushed' \in Nat
    <3>1. /\ Books(class, frames, lacking, error, offered + n, pushed + n)
          /\ offered + n \in Nat /\ pushed + n \in Nat
      <4>1. n <= n
        BY <1>5
      <4>. QED  BY <1>4, <1>5, <1>6, <4>1, BooksAdd
    <3>. QED  BY <2>1, <2>3, <3>1
  <2>5. value \in SUBSET STRING /\ KeptOK(class, kept) /\ LackingOK(class, lacking)
    BY DEF ResponseInv, Scalars
  <2>6. {Step.member} \in SUBSET STRING
    BY <1>4
  <2>. QED  BY <1>3, <1>4, <1>7, <2>1, <2>4, <2>5, <2>6, StepsOn
<1>. QED  BY <1>8, <1>9

\* An optional list of values: a bad one ends the loop.
LEMMA ReadOptListKeeps ==
  ASSUME ResponseInv, ReadOptList
  PROVE  ResponseInv'
<1>1. PICK n \in 0 .. MaxElements : \E bad \in 1 .. n + 1 :
         Values(n, bad) /\ pushed' = pushed + bad - 1
  BY DEF ReadOptList
<1>2. PICK bad \in 1 .. n + 1 : Values(n, bad) /\ pushed' = pushed + bad - 1
  BY <1>1
<1>3. /\ class' = class /\ phase' = phase /\ refused' = refused /\ kept' = kept
      /\ error' = error /\ returned' = returned /\ value' = value
      /\ Advance({Step.member})
  BY DEF ReadOptList
<1>4. /\ frames # << >> /\ returned = "none" /\ class \in Classes /\ FrameOK(class, Top)
      /\ Top.pos <= Len(StepsOf(class, Top)) /\ Step.kind = "optlist" /\ Step.member \in STRING
      /\ IsAt(class, Top, {"optlist"})
  <2>1. Running /\ At({"optlist"})
    BY DEF ReadOptList
  <2>2. Step.kind \in {"optlist"}
    BY <2>1, RunningAt
  <2>. QED  BY <2>1, <2>2, RunningAt
<1>5. n \in Nat /\ bad \in Nat \ {0} /\ bad <= n + 1
  BY ApiResponseAssumption
<1>6. /\ Stack(class, frames) /\ Books(class, frames, lacking, error, offered, pushed)
      /\ offered \in Nat /\ pushed \in Nat
      /\ value \in SUBSET STRING /\ KeptOK(class, kept) /\ LackingOK(class, lacking)
  BY DEF ResponseInv, Scalars
<1>7. Top.left = << >> /\ {Step.member} \in SUBSET STRING
  BY <1>4, NoElements DEF IsAt, Arrays
<1>8. /\ lacking \subseteq lacking' /\ LackingOK(class, lacking')
      /\ (n # 0 /\ bad = n + 1) \/ LacksAt(class, lacking', {"array", "optlist"})
  <2>1. CASE bad <= n \/ n = 0
    <3>1. Lack
      BY <1>2, <2>1 DEF Values
    <3>. QED  BY <1>4, <3>1, LackAt
  <2>2. CASE ~(bad <= n \/ n = 0)
    <3>1. lacking' = lacking
      BY <1>2, <2>2 DEF Values
    <3>2. bad = n + 1 /\ n # 0
      BY <1>5, <2>2
    <3>. QED  BY <1>6, <3>1, <3>2
  <2>. QED  BY <2>1, <2>2
<1>. DEFINE more == IF bad <= n THEN n - 1 ELSE n
            pushes == bad - 1
<1>9. /\ more \in Nat /\ pushes \in Nat /\ pushes <= more
      /\ more = pushes \/ LacksAt(class, lacking', {"array", "optlist"})
  <2>1. more \in Nat /\ pushes \in Nat /\ pushes <= more
    BY <1>5
  <2>2. bad = n + 1 => more = pushes
    BY <1>5
  <2>. QED  BY <1>8, <2>1, <2>2
<1>10. offered' = offered + more /\ pushed' = pushed + pushes
  BY <1>2, <1>5, <1>6 DEF Values
<1>. HIDE DEF more, pushes
<1>11. /\ Books(class, frames, lacking', error, offered', pushed')
       /\ offered' \in Nat /\ pushed' \in Nat
  <2>1. /\ Books(class, frames, lacking', error, offered + more, pushed + pushes)
        /\ offered + more \in Nat /\ pushed + pushes \in Nat
    BY <1>4, <1>6, <1>8, <1>9, BooksAdd
  <2>. QED  BY <1>10, <2>1
<1>. QED  BY <1>3, <1>4, <1>6, <1>7, <1>8, <1>11, StepsOn

\* A struct is given to its extractor, or its branch is empty.
LEMMA OpenStructKeeps ==
  ASSUME ResponseInv, OpenStruct
  PROVE  ResponseInv'
<1>1. /\ frames # << >> /\ returned = "none" /\ Top.pos <= Len(StepsOf(class, Top))
      /\ IsAt(class, Top, {"struct", "optstruct"})
  BY RunningAt DEF OpenStruct
<1>2. IsAt(class, Top, Branches) /\ ~IsAt(class, Top, Arrays)
  BY <1>1 DEF IsAt, Branches, Arrays
<1>3. UNCHANGED << class, phase, refused, offered, pushed, error, kept >>
  BY DEF OpenStruct
<1>4. CASE Extract(Step.type) /\ UNCHANGED << lacking, returned, value >>
  BY <1>1, <1>2, <1>3, <1>4, Calls
<1>5. CASE Lack /\ EmptyBranch
  <2>1. lacking \subseteq lacking' /\ LackingOK(class, lacking')
        /\ << Top.type, Step.member >> \in lacking'
    BY <1>1, <1>5, LackAt
  <2>. QED  BY <1>1, <1>2, <1>3, <1>5, <2>1, FindsEmpty
<1>. QED  BY <1>4, <1>5 DEF OpenStruct

\* ParseResponse at an array has the elements left before it next.
ArrayAccount(left, lk, e, given, taken) ==
    /\ taken + Objects(left) <= given
    /\ e = "none" /\ ~LacksAt(class, lk, {"array", "optlist"}) =>
          taken + Objects(left) = given

LEMMA AtArray ==
  ASSUME ResponseInv, frames # << >>, IsAt(class, Top, Arrays)
  PROVE  /\ Len(frames) = 1 /\ Top.type = "Response" /\ Pending(frames) = Objects(Top.left)
         /\ Top.left \in Seq({"object", "empty"}) /\ Len(Top.left) <= MaxElements
         /\ ArrayAccount(Top.left, lacking, error, offered, pushed)
<1>1. class \in Classes /\ FrameOK(class, Top) /\ (Top.type = "Response" <=> Len(frames) = 1)
  BY AtWork
<1>2. Top.type = "Response" /\ Len(frames) = 1
  BY <1>1, ArrayInResponse
<1>3. Pending(frames) = Objects(Top.left)
  BY <1>2 DEF Pending, Top
<1>4. Top.left \in Seq({"object", "empty"}) /\ Len(Top.left) <= MaxElements
  BY <1>1 DEF FrameOK, Frames
<1>5. ArrayAccount(Top.left, lacking, error, offered, pushed)
  BY <1>3 DEF ResponseInv, Books, ArrayAccount
<1>. QED  BY <1>2, <1>3, <1>4, <1>5

LEMMA ElementsNext ==
  ASSUME ResponseInv, frames # << >>, IsAt(class, Top, Arrays),
         NEW left \in Seq({"object", "empty"}), Len(left) <= MaxElements,
         frames' = WithTop(frames, AtElements(Top, left)),
         \A j \in 1 .. Len(left) : left[j] = "empty" => << Top.type, Step.member >> \in lacking',
         class' = class, phase' = phase, refused' = refused, error' = error,
         returned' = "none", value' \in SUBSET STRING,
         lacking \subseteq lacking', LackingOK(class, lacking'), KeptOK(class, kept'),
         offered' \in Nat, pushed' \in Nat,
         ArrayAccount(left, lacking', error, offered', pushed')
  PROVE  ResponseInv'
<1>1. /\ class \in Classes /\ phase = "parsing" /\ FrameOK(class, Top)
      /\ Step = StepOf(class, Top)
  BY AtWork
<1>2. Recorded(class, frames, lacking') /\ Stack(class, frames)
  BY LackingGrows DEF ResponseInv
<1>3. \A j \in 1 .. Len(left) :
         left[j] = "empty" => << Top.type, StepOf(class, Top).member >> \in lacking'
  BY <1>1
<1>4. /\ Stack(class, frames') /\ frames' # << >> /\ Recorded(class, frames', lacking')
      /\ Pending(frames') = Objects(left)
  <2>. DEFINE f == Top
              g == AtElements(f, left)
  <2>1. f = frames[Len(frames)]
    BY DEF Top
  <2>2. g = AtElements(f, left) /\ frames' = WithTop(frames, g)
    OBVIOUS
  <2>3. /\ \A j \in 1 .. Len(left) :
              left[j] = "empty" => << f.type, StepOf(class, f).member >> \in lacking'
        /\ IsAt(class, f, Arrays)
    BY <1>3
  <2>. HIDE DEF f, g
  <2>. QED  BY <1>1, <1>2, <2>1, <2>2, <2>3, ElementsStack
<1>5. Books(class, frames', lacking', error, offered', pushed')
  BY <1>4 DEF Books, ArrayAccount
<1>6. Scalars'
  BY DEF ResponseInv, Scalars
<1>7. Answered(class, frames', lacking', error, returned', value')
  BY DEF Answered
<1>8. error # "none" /\ ~refused => LacksNeeded(class, lacking')
  BY LackingGrows DEF ResponseInv
<1>. QED  BY <1>1, <1>4, <1>5, <1>6, <1>7, <1>8 DEF ResponseInv

\* An array is there, with any number of elements.
LEMMA OpenArrayKeeps ==
  ASSUME ResponseInv, OpenArray
  PROVE  ResponseInv'
<1>1. PICK n \in 0 .. MaxElements : \E left \in [1 .. n -> {"object", "empty"}] :
         /\ frames' = [frames EXCEPT ![Len(frames)] = [@ EXCEPT !.begun = TRUE, !.left = left]]
         /\ IF \E i \in 1 .. n : left[i] = "empty" THEN Lack ELSE UNCHANGED lacking
         /\ offered' = offered + Cardinality({i \in 1 .. n : left[i] = "object"})
  BY DEF OpenArray
<1>2. PICK left \in [1 .. n -> {"object", "empty"}] :
         /\ frames' = [frames EXCEPT ![Len(frames)] = [@ EXCEPT !.begun = TRUE, !.left = left]]
         /\ IF \E i \in 1 .. n : left[i] = "empty" THEN Lack ELSE UNCHANGED lacking
         /\ offered' = offered + Cardinality({i \in 1 .. n : left[i] = "object"})
  BY <1>1
<1>3. /\ class' = class /\ phase' = phase /\ refused' = refused /\ error' = error
      /\ returned' = returned /\ value' = value /\ kept' = kept /\ pushed' = pushed
  BY DEF OpenArray
<1>4. /\ frames # << >> /\ returned = "none" /\ Top.pos <= Len(StepsOf(class, Top))
      /\ IsAt(class, Top, Arrays) /\ ~Top.begun /\ class \in Classes /\ FrameOK(class, Top)
  BY RunningAt DEF OpenArray, Arrays
<1>5. left \in Seq({"object", "empty"}) /\ Len(left) = n /\ n \in Nat /\ n <= MaxElements
  <2>1. n \in Nat /\ n <= MaxElements
    BY ApiResponseAssumption
  <2>. QED  BY <2>1
<1>6. frames' = WithTop(frames, AtElements(Top, left))
  BY <1>2 DEF WithTop, AtElements, Top
<1>7. offered' = offered + Objects(left)
  BY <1>2, <1>5 DEF Objects
<1>8. /\ LackingOK(class, lacking) /\ offered \in Nat /\ pushed \in Nat
      /\ value \in SUBSET STRING /\ KeptOK(class, kept)
  BY DEF ResponseInv, Scalars
<1>9. /\ lacking \subseteq lacking' /\ LackingOK(class, lacking')
      /\ \A j \in 1 .. Len(left) : left[j] = "empty" => << Top.type, Step.member >> \in lacking'
  <2>1. CASE \E i \in 1 .. n : left[i] = "empty"
    <3>1. Lack
      BY <1>2, <2>1
    <3>. QED  BY <1>4, <3>1, LackAt
  <2>2. CASE ~(\E i \in 1 .. n : left[i] = "empty")
    <3>1. lacking' = lacking
      BY <1>2, <2>2
    <3>. QED  BY <1>5, <1>8, <2>2, <3>1
  <2>. QED  BY <2>1, <2>2
<1>10. ArrayAccount(left, lacking', error, offered', pushed') /\ offered' \in Nat
  <2>1. Top.left = << >>
    BY <1>4 DEF FrameOK
  <2>2. pushed + 0 <= offered
        /\ (error = "none" /\ ~LacksAt(class, lacking, {"array", "optlist"}) =>
               pushed + 0 = offered)
    BY <1>4, <2>1, AtArray, NoObjects DEF ArrayAccount
  <2>3. Objects(left) \in Nat
    BY <1>5, ObjectsNat
  <2>4. LacksAt(class, lacking, {"array", "optlist"}) => LacksAt(class, lacking', {"array", "optlist"})
    BY <1>9, LackingGrows
  <2>5. pushed' + Objects(left) <= offered' /\ offered' \in Nat
    BY <1>3, <1>7, <1>8, <2>2, <2>3
  <2>6. pushed = offered => pushed' + Objects(left) = offered'
    BY <1>3, <1>7
  <2>. QED  BY <1>8, <2>2, <2>4, <2>5, <2>6 DEF ArrayAccount
<1>. QED  BY <1>3, <1>4, <1>5, <1>6, <1>8, <1>9, <1>10, ElementsNext

\* The next element is given to its extractor, or it is empty.
LEMMA OpenElementKeeps ==
  ASSUME ResponseInv, OpenElement
  PROVE  ResponseInv'
<1>1. /\ frames # << >> /\ returned = "none" /\ Top.pos <= Len(StepsOf(class, Top))
      /\ IsAt(class, Top, Arrays) /\ Top.left # << >> /\ class \in Classes
      /\ Step = StepOf(class, Top)
  BY RunningAt DEF OpenElement, Arrays
<1>2. IsAt(class, Top, Branches)
  BY <1>1 DEF IsAt, Branches, Arrays
<1>3. UNCHANGED << class, phase, refused, lacking, offered, pushed, error, kept >>
  BY DEF OpenElement
<1>4. Head(Top.left) \in {"object", "empty"}
  BY <1>1, AtArray, ObjectsTail
<1>5. CASE Head(Top.left) = "object"
  <2>1. Extract(Step.type) /\ UNCHANGED << returned, value >>
    BY <1>5 DEF OpenElement
  <2>. QED  BY <1>1, <1>2, <1>3, <1>5, <2>1, Calls
<1>6. CASE Head(Top.left) = "empty"
  <2>1. EmptyBranch
    BY <1>6 DEF OpenElement
  <2>2. << Top.type, Step.member >> \in lacking
    <3>1. Len(frames) \in 1 .. Len(frames) /\ Len(frames) = 1
      BY <1>1, AtArray
    <3>2. Recorded(class, frames, lacking) /\ Top = frames[Len(frames)]
      BY DEF ResponseInv, Top
    <3>3. 1 \in 1 .. Len(Top.left) /\ Top.left[1] = "empty"
      <4>1. Top.left \in Seq({"object", "empty"})
        BY <1>1, AtArray
      <4>. QED  BY <1>1, <1>6, <4>1
    <3>. QED  BY <1>1, <3>1, <3>2, <3>3 DEF Recorded
  <2>3. LackingOK(class, lacking)
    BY DEF ResponseInv
  <2>. QED  BY <1>1, <1>2, <1>3, <1>6, <2>1, <2>2, <2>3, FindsEmpty
<1>. QED  BY <1>4, <1>5, <1>6

\* No element is left.
LEMMA ArrayEndsKeeps ==
  ASSUME ResponseInv, ArrayEnds
  PROVE  ResponseInv'
<1>1. /\ frames # << >> /\ returned = "none" /\ Top.pos <= Len(StepsOf(class, Top))
      /\ Step.member \in STRING /\ Top.left = << >>
  BY RunningAt DEF ArrayEnds
<1>2. /\ class' = class /\ phase' = phase /\ refused' = refused /\ lacking' = lacking
      /\ offered' = offered /\ pushed' = pushed /\ error' = error
      /\ returned' = returned /\ value' = value /\ kept' = kept /\ Advance({Step.member})
  BY DEF ArrayEnds
<1>3. /\ Books(class, frames, lacking', error, offered, pushed)
      /\ offered \in Nat /\ pushed \in Nat
      /\ value \in SUBSET STRING /\ KeptOK(class, kept) /\ LackingOK(class, lacking)
  BY <1>2, BooksNow
<1>4. {Step.member} \in SUBSET STRING
  BY <1>1
<1>. QED  BY <1>1, <1>2, <1>3, <1>4, StepsOn

\* The function at the top has come to its end.
LEMMA FunctionEndsKeeps ==
  ASSUME ResponseInv, FunctionEnds
  PROVE  ResponseInv'
<1>1. frames # << >> /\ returned = "none" /\ Top.pos > Len(Steps(Top.type))
  BY DEF FunctionEnds, Running
<1>2. /\ class \in Classes /\ phase = "parsing" /\ FrameOK(class, Top)
      /\ Len(frames) \in Nat \ {0} /\ Steps(Top.type) = StepsOf(class, Top)
  BY <1>1, AtWork
<1>3. /\ class' = class /\ phase' = phase /\ refused' = refused /\ lacking' = lacking
      /\ offered' = offered /\ pushed' = pushed /\ error' = error /\ kept' = kept
  BY DEF FunctionEnds
<1>4. /\ frames' = Popped(frames) /\ value' = Top.written
      /\ returned' = IF Len(frames) = 1 THEN "none" ELSE "true"
  BY DEF FunctionEnds, Return, Popped
<1>5. Plain(class, Top.type) \subseteq Top.written /\ Top.left = << >>
  <2>1. Plain(class, Top.type) \subseteq Top.written
    BY <1>1, <1>2, EndedFrame
  <2>2. Len(StepsOf(class, Top)) \in Nat /\ Top.pos \in Nat
    BY <1>2, StepsOfFrame DEF FrameOK, Frames
  <2>3. ~IsAt(class, Top, Arrays)
    BY <1>1, <1>2, <2>2 DEF IsAt
  <2>. QED  BY <1>2, <2>1, <2>3, NoElements
<1>6. /\ Stack(class, frames') /\ Recorded(class, frames', lacking)
      /\ Len(frames) # 1 => /\ frames' # << >> /\ Pending(frames') = Pending(frames)
                            /\ Awaits(class, frames'[Len(frames')], Top.type)
      /\ Len(frames) = 1 => frames' = << >> /\ Top.type = "Response"
                            /\ Pending(frames) = Objects(Top.left)
  <2>1. Stack(class, frames) /\ Recorded(class, frames, lacking) /\ Top = frames[Len(frames)]
    BY DEF ResponseInv, Top
  <2>. QED  BY <1>1, <1>2, <1>4, <2>1, ReturnStack
<1>7. Pending(frames') = Pending(frames)
  BY <1>5, <1>6, NoObjects DEF Pending
<1>8. Books(class, frames', lacking, error, offered, pushed)
  BY <1>7, BooksGrow DEF ResponseInv
<1>9. Scalars'
  BY <1>2, <1>3, <1>4 DEF ResponseInv, Scalars, FrameOK, Frames
<1>10. Answered(class, frames', lacking, error, returned', value')
  <2>1. CASE Len(frames) = 1
    BY <1>4, <2>1 DEF Answered
  <2>2. CASE Len(frames) # 1
    BY <1>4, <1>5, <1>6, <2>2 DEF Answered, Answer, Awaits
  <2>. QED  BY <2>1, <2>2
<1>11. frames' = << >> => Whole(class, lacking, error, value')
  <2>1. CASE Len(frames) = 1
    BY <1>4, <1>5, <1>6, <2>1 DEF Whole
  <2>2. CASE Len(frames) # 1
    BY <1>6, <2>2
  <2>. QED  BY <2>1, <2>2
<1>12. error # "none" /\ ~refused => LacksNeeded(class, lacking)
  BY DEF ResponseInv
<1>13. LackingOK(class, lacking) /\ KeptOK(class, kept)
  BY DEF ResponseInv
<1>. QED  BY <1>2, <1>3, <1>6, <1>8, <1>9, <1>10, <1>11, <1>12, <1>13 DEF ResponseInv

\* What an extractor that returned true has written is kept whole.
LEMMA KeepsWhole ==
  ASSUME ResponseInv, Back(Branches), returned = "true", Keep
  PROVE  KeptOK(class, kept')
<1>1. /\ StepFacts(class, Top.type, Step) /\ Step = StepOf(class, Top)
      /\ Step.kind \in Branches
      /\ Answer(class, Top, lacking, error, returned, value)
  BY BackAt
<1>2. Step.type \in Types(class) /\ Plain(class, Step.type) \subseteq value
  BY <1>1 DEF StepFacts, Answer
<1>3. KeptOK(class, kept)
  BY DEF ResponseInv
<1>4. ASSUME NEW x \in kept'
      PROVE  x.type \in Types(class) /\ Plain(class, x.type) \subseteq x.members
  <2>1. CASE x \in kept
    BY <1>3, <2>1 DEF KeptOK
  <2>2. CASE x = [type |-> Step.type, members |-> value]
    BY <1>2, <2>2
  <2>. QED  BY <1>4, <2>1, <2>2 DEF Keep
<1>. QED  BY <1>4 DEF KeptOK

\* The extractor of a required struct has come back.
LEMMA CloseStructKeeps ==
  ASSUME ResponseInv, CloseStruct
  PROVE  ResponseInv'
<1>1. /\ Back({"struct"}) /\ Back(Branches)
      /\ class' = class /\ phase' = phase /\ refused' = refused /\ lacking' = lacking
      /\ offered' = offered /\ pushed' = pushed
  BY DEF CloseStruct, Back, At, Branches
<1>2. /\ frames # << >> /\ class \in Classes /\ FrameOK(class, Top)
      /\ Step = StepOf(class, Top) /\ Top.pos <= Len(StepsOf(class, Top))
      /\ IsAt(class, Top, {"struct"}) /\ Step.kind \in {"struct"} /\ Step.member \in STRING
      /\ Answer(class, Top, lacking, error, returned, value)
  BY <1>1, BackAt
<1>3. Top.left = << >>
  BY <1>2, NoElements DEF IsAt, Arrays
<1>4. /\ Books(class, frames, lacking', error, offered, pushed)
      /\ offered \in Nat /\ pushed \in Nat /\ pushed + Pending(frames) <= offered
      /\ LackingOK(class, lacking)
  BY <1>1, BooksNow
<1>5. CASE /\ returned = "true"
           /\ Advance({Step.member})
           /\ Keep
           /\ returned' = "none"
           /\ value' = {}
           /\ UNCHANGED error
  <2>1. KeptOK(class, kept')
    BY <1>1, <1>5, KeepsWhole
  <2>2. {Step.member} \in SUBSET STRING /\ {} \in SUBSET STRING
    BY <1>2
  <2>. QED  BY <1>1, <1>2, <1>3, <1>4, <1>5, <2>1, <2>2, StepsOn
<1>6. CASE returned = "false" /\ ReturnError /\ UNCHANGED kept
  <2>1. ASSUME ~refused
        PROVE  LacksNeeded(class, lacking)
    <3>1. CASE error # "none"
      BY <2>1, <3>1 DEF ResponseInv
    <3>2. CASE error = "none"
      <4>1. << Top.type, StepOf(class, Top).member >> \in lacking
        BY <1>2, <1>6, <3>2 DEF Answer
      <4>2. StepOf(class, Top).kind \in {"req", "struct", "list", "array"}
        BY <1>2
      <4>. QED  BY <1>2, <4>1, <4>2, LackingAt
    <3>. QED  BY <3>1, <3>2
  <2>. QED  BY <1>1, <1>2, <1>4, <1>6, <2>1, FailsOut
<1>. QED  BY <1>5, <1>6 DEF CloseStruct

\* The extractor of an optional struct has come back.
LEMMA CloseOptStructKeeps ==
  ASSUME ResponseInv, CloseOptStruct
  PROVE  ResponseInv'
<1>1. /\ Back({"optstruct"}) /\ Back(Branches)
      /\ class' = class /\ phase' = phase /\ refused' = refused /\ lacking' = lacking
      /\ offered' = offered /\ pushed' = pushed /\ error' = error
      /\ returned' = "none" /\ value' = {}
  BY DEF CloseOptStruct, Back, At, Branches
<1>2. /\ frames # << >> /\ class \in Classes /\ FrameOK(class, Top)
      /\ Top.pos <= Len(StepsOf(class, Top))
      /\ IsAt(class, Top, {"optstruct"}) /\ Step.kind \in {"optstruct"}
      /\ Step.member \in STRING
  BY <1>1, BackAt
<1>3. Top.left = << >>
  BY <1>2, NoElements DEF IsAt, Arrays
<1>4. /\ Books(class, frames, lacking', error, offered, pushed)
      /\ offered \in Nat /\ pushed \in Nat
      /\ LackingOK(class, lacking) /\ KeptOK(class, kept)
  BY <1>1, BooksNow
<1>5. /\ {Step.member} \in SUBSET STRING /\ {} \in SUBSET STRING
      /\ (Step.kind \in Firm => Step.member \in {})
  BY <1>2 DEF Firm
<1>6. CASE returned = "true" /\ Advance({Step.member}) /\ Keep
  <2>1. KeptOK(class, kept')
    BY <1>1, <1>6, KeepsWhole
  <2>. QED  BY <1>1, <1>2, <1>3, <1>4, <1>5, <1>6, <2>1, StepsOn
<1>7. CASE returned = "false" /\ Advance({}) /\ UNCHANGED kept
  <2>1. KeptOK(class, kept')
    BY <1>4, <1>7
  <2>. QED  BY <1>1, <1>2, <1>3, <1>4, <1>5, <1>7, <2>1, StepsOn
<1>. QED  BY <1>6, <1>7 DEF CloseOptStruct

\* The element at the front has been dealt with: pushed, or left out with an error or
\* because it was empty.
LEMMA NextElementKeeps ==
  ASSUME ResponseInv, Back(Arrays), NextElement,
         class' = class, phase' = phase, refused' = refused, error' = error,
         lacking' = lacking, offered' = offered, KeptOK(class, kept'),
         \/ returned = "true" /\ pushed' = pushed + 1
         \/ returned = "false" /\ pushed' = pushed
  PROVE  ResponseInv'
<1>1. /\ frames # << >> /\ class \in Classes /\ FrameOK(class, Top)
      /\ Step = StepOf(class, Top) /\ IsAt(class, Top, Arrays)
      /\ Answer(class, Top, lacking, error, returned, value)
  BY BackAt
<1>. DEFINE left == Tail(Top.left)
<1>2. Top.left # << >> /\ Top.begun
  BY <1>1 DEF Answer, FrameOK
<1>3. /\ Len(frames) = 1 /\ Top.left \in Seq({"object", "empty"}) /\ Len(Top.left) <= MaxElements
      /\ ArrayAccount(Top.left, lacking, error, offered, pushed)
  BY <1>1, AtArray
<1>4. /\ left \in Seq({"object", "empty"})
      /\ Head(Top.left) = "object" => Objects(Top.left) = Objects(left) + 1
      /\ Head(Top.left) = "empty" => Objects(Top.left) = Objects(left)
      /\ Head(Top.left) \in {"object", "empty"}
  BY <1>2, <1>3, ObjectsTail
<1>5. /\ Len(left) <= MaxElements
      /\ \A j \in 1 .. Len(left) : j + 1 \in 1 .. Len(Top.left) /\ left[j] = Top.left[j + 1]
  <2>. DEFINE q == Top.left
              n == Len(q)
              t == Tail(q)
  <2>1. q \in Seq({"object", "empty"}) /\ q # << >> /\ n <= MaxElements
    BY <1>2, <1>3
  <2>. HIDE DEF q
  <2>2. n \in Nat \ {0} /\ Len(t) = n - 1 /\ \A j \in 1 .. n - 1 : t[j] = q[j + 1]
    BY <2>1
  <2>. HIDE DEF n, t
  <2>3. Len(t) <= MaxElements
    BY <2>1, <2>2, ApiResponseAssumption
  <2>4. \A j \in 1 .. Len(t) : j + 1 \in 1 .. n /\ t[j] = q[j + 1]
    BY <2>2
  <2>. QED  BY <2>3, <2>4 DEF n, t, q
<1>6. frames' = WithTop(frames, AtElements(Top, left))
  <2>1. frames' = [frames EXCEPT ![Len(frames)] = [Top EXCEPT !.left = left]]
    BY DEF NextElement, Top
  <2>2. [Top EXCEPT !.left = left] = AtElements(Top, left)
    <3>1. Top \in Frames(class)
      BY <1>1 DEF FrameOK
    <3>. QED  BY <1>2, <3>1 DEF AtElements, Frames
  <2>. QED  BY <2>1, <2>2 DEF WithTop
<1>7. \A j \in 1 .. Len(left) : left[j] = "empty" => << Top.type, Step.member >> \in lacking'
  <2>1. Recorded(class, frames, lacking) /\ Top = frames[1] /\ 1 \in 1 .. Len(frames)
    BY <1>3 DEF ResponseInv, Top
  <2>2. \A j \in 1 .. Len(Top.left) :
           Top.left[j] = "empty" => << Top.type, StepOf(class, Top).member >> \in lacking
    BY <2>1 DEF Recorded
  <2>. HIDE DEF left
  <2>. QED  BY <1>1, <1>5, <2>2
<1>8. /\ offered \in Nat /\ pushed \in Nat /\ LackingOK(class, lacking)
      /\ returned' = "none" /\ value' \in SUBSET STRING
  BY DEF ResponseInv, Scalars, NextElement
<1>9. ArrayAccount(left, lacking', error, offered', pushed') /\ pushed' \in Nat
  <2>1. Objects(left) \in Nat /\ Objects(Top.left) \in Nat
    BY <1>3, <1>4, ObjectsNat
  <2>2. CASE returned = "true" /\ pushed' = pushed + 1
    <3>1. Objects(Top.left) = Objects(left) + 1
      BY <1>1, <1>4, <2>2 DEF Answer
    <3>2. pushed' + Objects(left) = pushed + Objects(Top.left) /\ pushed' \in Nat
      BY <1>8, <2>1, <2>2, <3>1
    <3>. QED  BY <1>3, <3>2 DEF ArrayAccount
  <2>3. CASE returned = "false" /\ pushed' = pushed
    <3>1. error = "none" => Objects(Top.left) = Objects(left)
      BY <1>1, <1>4, <2>3 DEF Answer
    <3>2. Objects(left) <= Objects(Top.left)
      BY <1>4, <2>1
    <3>3. pushed' + Objects(left) <= offered
      BY <1>3, <1>8, <2>1, <2>3, <3>2 DEF ArrayAccount
    <3>. QED  BY <1>3, <1>8, <2>3, <3>1, <3>3 DEF ArrayAccount
  <2>. QED  BY <2>2, <2>3
<1>. HIDE DEF left
<1>. QED  BY <1>1, <1>4, <1>5, <1>6, <1>7, <1>8, <1>9, ElementsNext

\* The extractor of an element of a required array has come back.
LEMMA CloseElementKeeps ==
  ASSUME ResponseInv, CloseElement
  PROVE  ResponseInv'
<1>1. /\ Back({"array"}) /\ Back(Arrays) /\ Back(Branches)
      /\ class' = class /\ phase' = phase /\ refused' = refused /\ lacking' = lacking
      /\ offered' = offered /\ error' = error
  BY DEF CloseElement, Back, At, Branches, Arrays
<1>2. CASE returned = "true" /\ Push /\ NextElement
  <2>1. KeptOK(class, kept') /\ pushed' = pushed + 1
    BY <1>1, <1>2, KeepsWhole DEF Push
  <2>. QED  BY <1>1, <1>2, <2>1, NextElementKeeps
<1>3. CASE returned = "false" /\ Return("none") /\ UNCHANGED << pushed, kept >>
  <2>1. /\ frames # << >> /\ class \in Classes /\ FrameOK(class, Top)
        /\ Step = StepOf(class, Top) /\ Top.pos <= Len(StepsOf(class, Top))
        /\ IsAt(class, Top, Arrays) /\ Step.kind \in {"array"}
        /\ Answer(class, Top, lacking, error, returned, value)
    BY <1>1, BackAt
  <2>2. Len(frames) = 1
    BY <2>1, AtArray
  <2>3. /\ frames' = Popped(frames) /\ value' = Top.written /\ returned' = "none"
    BY <1>3 DEF Return, Popped
  <2>4. Stack(class, frames') /\ Recorded(class, frames', lacking) /\ frames' = << >>
    <3>1. Stack(class, frames) /\ Recorded(class, frames, lacking) /\ Top = frames[Len(frames)]
      BY DEF ResponseInv, Top
    <3>. QED  BY <2>1, <2>2, <2>3, <3>1, ReturnStack
  <2>5. error = "none" => LacksAt(class, lacking, {"array"})
                          /\ LacksAt(class, lacking, {"array", "optlist"})
    <3>1. ASSUME error = "none"
          PROVE  << Top.type, StepOf(class, Top).member >> \in lacking
      BY <1>3, <2>1, <3>1 DEF Answer
    <3>2. StepOf(class, Top).kind \in {"array"} /\ StepOf(class, Top).kind \in {"array", "optlist"}
      BY <2>1
    <3>. QED  BY <2>1, <3>1, <3>2, LackingAt
  <2>6. Books(class, frames', lacking, error, offered, pushed)
    <3>1. pushed + Pending(frames) <= offered /\ pushed \in Nat /\ offered \in Nat
      BY <1>1, BooksNow
    <3>2. Pending(frames) \in Nat
      BY <2>1, PendingNat DEF ResponseInv
    <3>3. Pending(frames') = 0
      BY <2>4 DEF Pending
    <3>4. pushed + Pending(frames') <= offered
      BY <3>1, <3>2, <3>3
    <3>. QED  BY <2>5, <3>4 DEF Books
  <2>7. Scalars'
    BY <1>1, <1>3, <2>1, <2>3 DEF ResponseInv, Scalars, FrameOK, Frames
  <2>8. Whole(class, lacking, error, value')
    BY <2>5 DEF Whole
  <2>9. Answered(class, frames', lacking, error, returned', value')
    BY <2>3 DEF Answered
  <2>10. /\ LackingOK(class, lacking) /\ KeptOK(class, kept)
         /\ error # "none" /\ ~refused => LacksNeeded(class, lacking)
    BY DEF ResponseInv
  <2>. QED  BY <1>1, <1>3, <2>4, <2>6, <2>7, <2>8, <2>9, <2>10 DEF ResponseInv
<1>. QED  BY <1>2, <1>3 DEF CloseElement

\* The extractor of an element of an optional array has come back.
LEMMA CloseOptElementKeeps ==
  ASSUME ResponseInv, CloseOptElement
  PROVE  ResponseInv'
<1>1. /\ Back(Arrays) /\ Back(Branches) /\ NextElement
      /\ class' = class /\ phase' = phase /\ refused' = refused /\ lacking' = lacking
      /\ offered' = offered /\ error' = error
  BY DEF CloseOptElement, Back, At, Branches, Arrays
<1>2. CASE returned = "true" /\ Push
  <2>1. KeptOK(class, kept') /\ pushed' = pushed + 1
    BY <1>1, <1>2, KeepsWhole DEF Push
  <2>. QED  BY <1>1, <1>2, <2>1, NextElementKeeps
<1>3. CASE returned = "false" /\ UNCHANGED << pushed, kept >>
  <2>1. KeptOK(class, kept') /\ pushed' = pushed
    BY <1>3 DEF ResponseInv
  <2>. QED  BY <1>1, <1>3, <2>1, NextElementKeeps
<1>. QED  BY <1>2, <1>3 DEF CloseOptElement

\* Nothing was asked yet.
LEMMA InitKeeps ==
  ASSUME Init
  PROVE  ResponseInv /\ Trusted
<1>1. /\ class \in Classes /\ phase = "asked" /\ refused = FALSE /\ lacking = {}
      /\ offered = 0 /\ pushed = 0 /\ error = "none" /\ frames = << >>
      /\ returned = "none" /\ value = {} /\ kept = {}
  BY DEF Init
<1>2. Stack(class, frames) /\ Recorded(class, frames, lacking)
  BY <1>1 DEF Stack, Recorded
<1>3. Books(class, frames, lacking, error, offered, pushed)
  BY <1>1 DEF Books, Pending
<1>4. Scalars /\ LackingOK(class, lacking) /\ KeptOK(class, kept)
  BY <1>1 DEF Scalars, LackingOK, KeptOK
<1>5. Answered(class, frames, lacking, error, returned, value)
  BY <1>1 DEF Answered
<1>. QED  BY <1>1, <1>2, <1>3, <1>4, <1>5 DEF ResponseInv, Trusted

\* A new answer starts with nothing lacking, offered, pushed or kept.
LEMMA FreshKeeps ==
  ASSUME ResponseInv, FreshResponse
  PROVE  /\ class \in Classes /\ class' = class
         /\ LackingOK(class, lacking') /\ KeptOK(class, kept') /\ lacking' = {}
         /\ offered' = 0 /\ pushed' = 0 /\ returned' = "none" /\ value' = {}
BY DEF ResponseInv, Scalars, FreshResponse, LackingOK, KeptOK

\* The request has failed below the API.
LEMMA HandleErrorKeeps ==
  ASSUME ResponseInv, HandleError
  PROVE  ResponseInv' /\ Trusted'
<1>1. /\ class \in Classes /\ class' = class
      /\ LackingOK(class, lacking') /\ KeptOK(class, kept') /\ lacking' = {}
      /\ offered' = 0 /\ pushed' = 0 /\ returned' = "none" /\ value' = {}
  BY FreshKeeps DEF HandleError
<1>2. refused' = TRUE /\ error' = "Http" /\ frames' = << >> /\ phase' = "called"
  BY DEF HandleError
<1>3. Stack(class, frames') /\ Recorded(class, frames', lacking')
  BY <1>2 DEF Stack, Recorded
<1>4. Books(class, frames', lacking', error', offered', pushed')
  BY <1>1, <1>2 DEF Books, Pending
<1>5. Scalars'
  BY <1>1, <1>2 DEF Scalars
<1>6. /\ Answered(class, frames', lacking', error', returned', value')
      /\ Whole(class, lacking', error', value')
  BY <1>1, <1>2 DEF Answered, Whole
<1>. QED  BY <1>1, <1>2, <1>3, <1>4, <1>5, <1>6 DEF ResponseInv, Trusted

\* InitializeWithContent finds an error only in an answer that reports a failure, and in
\* every one of them when no failure has the code 0.
LEMMA ErrorCodes ==
  ASSUME NEW parses \in BOOLEAN, NEW ok \in BOOLEAN, NEW success \in BOOLEAN,
         NEW f \in ErrorFields
  PROVE  LET e == InitializeWithContent(parses, ok, success, f)
         IN  /\ e \in {"none", "HttpStatus", "Api", "UnknownApiError", "ContentInvalidFormat"}
             /\ e # "none" => (~parses \/ ~ok \/ ~success)
             /\ "zero" \notin ErrorFields /\ (~parses \/ ~ok \/ ~success) => e # "none"
<1>1. f \in {"none", "zero", "set"}
  BY ApiResponseAssumption
<1>. QED  BY <1>1 DEF InitializeWithContent, ApiCode

\* An answer has come, and ParseResponse starts unless it reports a failure.
LEMMA HandleContentKeeps ==
  ASSUME ResponseInv, HandleContent
  PROVE  ResponseInv' /\ ("zero" \notin ErrorFields => Trusted')
<1>1. /\ class \in Classes /\ class' = class
      /\ LackingOK(class, lacking') /\ KeptOK(class, kept') /\ lacking' = {}
      /\ offered' = 0 /\ pushed' = 0 /\ returned' = "none" /\ value' = {}
  BY FreshKeeps DEF HandleContent
<1>2. PICK parses \in BOOLEAN, ok \in BOOLEAN, success \in BOOLEAN, f \in ErrorFields :
         /\ refused' = (~parses \/ ~ok \/ ~success)
         /\ error' = InitializeWithContent(parses, ok, success, f)
  BY DEF HandleContent
<1>3. /\ refused' \in BOOLEAN
      /\ error' \in {"none", "HttpStatus", "Api", "UnknownApiError", "ContentInvalidFormat"}
      /\ error' # "none" => refused'
      /\ "zero" \notin ErrorFields /\ refused' => error' # "none"
  BY <1>2, ErrorCodes
<1>4. Trusted' <=> (refused' => error' # "none")
  BY DEF Trusted
<1>5. CASE error' = "none"
  <2>1. phase' = "parsing" /\ frames' = << Frame("Response") >>
    BY <1>5 DEF HandleContent
  <2>2. FrameOK(class, Frame("Response")) /\ Frame("Response").type = "Response"
        /\ Frame("Response").left = << >>
    BY <1>1, FreshFrame, TablesAssumption DEF Types
  <2>. DEFINE g == Frame("Response")
  <2>3. g \in Frames(class)
    BY <2>2 DEF FrameOK
  <2>. HIDE DEF g
  <2>4. frames' \in Seq(Frames(class)) /\ Len(frames') = 1 /\ frames'[1] = g /\ frames' # << >>
    BY <2>1, <2>3 DEF g
  <2>5. Stack(class, frames')
    BY <2>2, <2>4 DEF Stack, g
  <2>6. Recorded(class, frames', lacking') /\ Pending(frames') = 0
    <3>1. Len(g.left) = 0
      BY <2>2 DEF g
    <3>2. Recorded(class, frames', lacking')
      BY <2>4, <3>1 DEF Recorded
    <3>3. Objects(g.left) = 0
      BY <2>2, NoObjects DEF g
    <3>. QED  BY <2>4, <3>2, <3>3 DEF Pending
  <2>7. Books(class, frames', lacking', error', offered', pushed')
    BY <1>1, <2>6 DEF Books
  <2>8. Scalars'
    BY <1>1, <1>3, <2>1 DEF Scalars
  <2>9. Answered(class, frames', lacking', error', returned', value')
    BY <1>1 DEF Answered
  <2>. QED  BY <1>1, <1>3, <1>4, <1>5, <2>1, <2>4, <2>5, <2>6, <2>7, <2>8, <2>9 DEF ResponseInv
<1>6. CASE error' # "none"
  <2>1. phase' = "called" /\ frames' = << >>
    BY <1>6 DEF HandleContent
  <2>2. Stack(class, frames') /\ Recorded(class, frames', lacking')
    BY <2>1 DEF Stack, Recorded
  <2>3. Books(class, frames', lacking', error', offered', pushed')
    BY <1>1, <2>1 DEF Books, Pending
  <2>4. Scalars'
    BY <1>1, <1>3, <2>1 DEF Scalars
  <2>5. /\ Answered(class, frames', lacking', error', returned', value')
        /\ Whole(class, lacking', error', value')
    BY <1>1, <1>6 DEF Answered, Whole
  <2>. QED  BY <1>1, <1>3, <1>4, <1>6, <2>1, <2>2, <2>3, <2>4, <2>5 DEF ResponseInv
<1>. QED  BY <1>5, <1>6

\* ParseResponse has ended.
LEMMA CallCallbackKeeps ==
  ASSUME ResponseInv, CallCallback
  PROVE  ResponseInv'
<1>1. /\ phase = "parsing" /\ frames = << >> /\ phase' = "called"
      /\ class' = class /\ refused' = refused /\ lacking' = lacking /\ offered' = offered
      /\ pushed' = pushed /\ error' = error /\ frames' = frames /\ returned' = returned
      /\ value' = value /\ kept' = kept
  BY DEF CallCallback
<1>. QED  BY <1>1 DEF ResponseInv, Scalars

\* No step of ParseResponse takes an error back or changes what the answer reports.
LEMMA ParseTrusts ==
  ASSUME Trusted, Parse
  PROVE  Trusted'
<1>1. refused' = refused
  BY DEF Parse, WritePreset, Read, LackRequired, LackOptional, LackRequiredBranch,
         LackOptionalBranch, ReadList, ReadOptList, OpenStruct, OpenArray, OpenElement,
         ArrayEnds, FunctionEnds, CloseStruct, CloseOptStruct, CloseElement, CloseOptElement
<1>2. error' = error \/ error' = "ContentInvalidData"
  <2>1. CASE ReadList
    <3>1. ReturnError \/ UNCHANGED << error, returned, value >>
      BY <2>1 DEF ReadList
    <3>. QED  BY <3>1 DEF ReturnError
  <2>2. CASE LackRequired \/ LackRequiredBranch \/ CloseStruct
    BY <2>2 DEF LackRequired, LackRequiredBranch, CloseStruct, ReturnError
  <2>3. CASE ~(ReadList \/ LackRequired \/ LackRequiredBranch \/ CloseStruct)
    BY <2>3 DEF Parse, WritePreset, Read, LackOptional, LackOptionalBranch, ReadOptList,
                OpenStruct, OpenArray, OpenElement, ArrayEnds, FunctionEnds, CloseOptStruct,
                CloseElement, CloseOptElement
  <2>. QED  BY <2>1, <2>2, <2>3
<1>. QED  BY <1>1, <1>2 DEF Trusted

-----------------------------------------------------------------------------
(* Theorems *)

LEMMA NextKeeps ==
  ASSUME ResponseInv, [Next]_vars
  PROVE  ResponseInv'
<1>1. CASE HandleError
  BY <1>1, HandleErrorKeeps
<1>2. CASE HandleContent
  BY <1>2, HandleContentKeeps
<1>3. CASE Parse
  <2>1. CASE WritePreset \/ Read
    BY <2>1, WriteKeeps
  <2>2. CASE LackRequired \/ LackRequiredBranch
    BY <2>2, LackRequiredKeeps
  <2>3. CASE LackOptional \/ LackOptionalBranch
    BY <2>3, LackOptionalKeeps
  <2>4. CASE ReadList
    BY <2>4, ReadListKeeps
  <2>5. CASE ReadOptList
    BY <2>5, ReadOptListKeeps
  <2>6. CASE OpenStruct
    BY <2>6, OpenStructKeeps
  <2>7. CASE OpenArray
    BY <2>7, OpenArrayKeeps
  <2>8. CASE OpenElement
    BY <2>8, OpenElementKeeps
  <2>9. CASE ArrayEnds
    BY <2>9, ArrayEndsKeeps
  <2>10. CASE FunctionEnds
    BY <2>10, FunctionEndsKeeps
  <2>11. CASE CloseStruct
    BY <2>11, CloseStructKeeps
  <2>12. CASE CloseOptStruct
    BY <2>12, CloseOptStructKeeps
  <2>13. CASE CloseElement
    BY <2>13, CloseElementKeeps
  <2>14. CASE CloseOptElement
    BY <2>14, CloseOptElementKeeps
  <2>. QED  BY <1>3, <2>1, <2>2, <2>3, <2>4, <2>5, <2>6, <2>7, <2>8, <2>9, <2>10, <2>11,
               <2>12, <2>13, <2>14 DEF Parse
<1>4. CASE CallCallback
  BY <1>4, CallCallbackKeeps
<1>5. CASE UNCHANGED vars
  <2>1. /\ class' = class /\ phase' = phase /\ refused' = refused /\ lacking' = lacking
        /\ offered' = offered /\ pushed' = pushed /\ error' = error /\ frames' = frames
        /\ returned' = returned /\ value' = value /\ kept' = kept
    BY <1>5 DEF vars
  <2>. QED  BY <2>1 DEF ResponseInv, Scalars
<1>. QED  BY <1>1, <1>2, <1>3, <1>4, <1>5 DEF Next

\* The invariant holds of every answer, whatever it lacks.
LEMMA ResponseInvariant == Spec => []ResponseInv
<1>1. Init => ResponseInv
  BY InitKeeps
<1>2. ResponseInv /\ [Next]_vars => ResponseInv'
  BY NextKeeps
<1>. QED  BY <1>1, <1>2, PTL DEF Spec

LEMMA TrustInvariant ==
  ASSUME "zero" \notin ErrorFields
  PROVE  Spec => []Trusted
<1>1. Init => Trusted
  BY InitKeeps
<1>2. ResponseInv /\ Trusted /\ [Next]_vars => Trusted'
  <2>. SUFFICES ASSUME ResponseInv, Trusted, [Next]_vars
                PROVE  Trusted'
    OBVIOUS
  <2>1. CASE HandleError
    BY <2>1, HandleErrorKeeps
  <2>2. CASE HandleContent
    BY <2>2, HandleContentKeeps
  <2>3. CASE Parse
    BY <2>3, ParseTrusts
  <2>4. CASE CallCallback
    BY <2>4 DEF CallCallback, Trusted
  <2>5. CASE UNCHANGED vars
    BY <2>5 DEF vars, Trusted
  <2>. QED  BY <2>1, <2>2, <2>3, <2>4, <2>5 DEF Next
<1>. QED  BY <1>1, <1>2, ResponseInvariant, PTL DEF Spec

\* The predicates of the invariant are those of the properties.
LEMMA Predicates ==
  /\ \A kinds : LacksIn(kinds) <=> LacksAt(class, lacking, kinds)
  /\ (\A l \in lacking : l[2] \in Dispensable(l[1])) <=> ~LacksNeeded(class, lacking)
  /\ \A t : Declared(t).plain = Plain(class, t)
<1>1. \A kinds : LacksIn(kinds) <=> LacksAt(class, lacking, kinds)
  BY DEF LacksIn, LacksAt, Steps
<1>2. \A t : Dispensable(t) = DispensableIn(class, t)
  BY DEF Dispensable, DispensableIn, Declared, Steps
<1>3. (\A l \in lacking : l[2] \in Dispensable(l[1])) <=> ~LacksNeeded(class, lacking)
  BY <1>2 DEF LacksNeeded
<1>4. \A t : Declared(t).plain = Plain(class, t)
  BY DEF Declared, Plain
<1>. QED  BY <1>1, <1>3, <1>4

LEMMA TypesFollow ==
  ASSUME ResponseInv
  PROVE  TypeOK
<1>1. Scalars /\ Stack(class, frames) /\ LackingOK(class, lacking) /\ KeptOK(class, kept)
      /\ Books(class, frames, lacking, error, offered, pushed)
  BY DEF ResponseInv
<1>2. pushed \in 0 .. offered
  <2>1. Pending(frames) \in Nat
    BY <1>1, PendingNat DEF Scalars
  <2>2. pushed \in Nat /\ offered \in Nat /\ pushed + Pending(frames) <= offered
    BY <1>1 DEF Scalars, Books
  <2>. QED  BY <2>1, <2>2
<1>3. ASSUME NEW l \in lacking
      PROVE  l[2] \in UNION {Declared(l[1])[k] : k \in {"plain", "optional", "vector"}}
  <2>1. l[2] \in AllMembers(class, l[1])
    BY <1>1 DEF LackingOK
  <2>2. \E k \in {"plain", "optional", "vector"} : l[2] \in Declared(l[1])[k]
    BY <2>1 DEF AllMembers, Declared
  <2>. QED  BY <2>2
<1>4. ASSUME NEW i \in 1 .. Len(frames)
      PROVE  /\ frames[i].pos \in 1 .. Len(Steps(frames[i].type)) + 1
             /\ Len(frames[i].left) <= MaxElements
  <2>1. FrameOK(class, frames[i])
    BY <1>1 DEF Stack
  <2>2. /\ frames[i].type \in Types(class) /\ frames[i].pos \in Nat \ {0}
        /\ frames[i].pos <= Len(StepsOf(class, frames[i])) + 1
        /\ Len(frames[i].left) <= MaxElements
    BY <2>1 DEF FrameOK, Frames
  <2>3. Len(StepsOf(class, frames[i])) \in Nat
    BY <1>1, <2>2, StepsOfFrame DEF Scalars
  <2>4. Steps(frames[i].type) = StepsOf(class, frames[i])
    BY DEF Steps, StepsOf
  <2>. QED  BY <2>2, <2>3, <2>4
<1>5. \A x \in kept : x.type \in DOMAIN Api[class].steps
  BY <1>1 DEF KeptOK, Types
<1>. QED  BY <1>1, <1>2, <1>3, <1>4, <1>5 DEF TypeOK, Scalars

\* Whatever an answer lacks, a Response without an error_code has a value in every member
\* that is not optional, and every struct in a Response is whole, for every API class
\* (ApiBase::HandleContent, ParseResponse and the extractors).
THEOREM ResponseHasNoGarbage == Spec => []NoGarbage
<1>1. ResponseInv => NoGarbage
  <2>. SUFFICES ASSUME ResponseInv
                PROVE  NoGarbage
    OBVIOUS
  <2>1. ASSUME Succeeded, ~LacksIn({"array"})
        PROVE  Declared("Response").plain \subseteq value
    <3>1. phase = "called" /\ error = "none" /\ frames = << >>
      BY <2>1 DEF Succeeded, ResponseInv
    <3>2. Whole(class, lacking, error, value)
      BY <3>1 DEF ResponseInv
    <3>. QED  BY <2>1, <3>1, <3>2, Predicates DEF Whole
  <2>2. \A k \in kept : Declared(k.type).plain \subseteq k.members
    BY Predicates DEF ResponseInv, KeptOK
  <2>. QED  BY <2>1, <2>2 DEF NoGarbage
<1>. QED  BY <1>1, ResponseInvariant, PTL

\* A Response without an error_code has all elements and values of the arrays of the
\* answer, but for the two exceptions of NothingLost, however long the arrays are; and
\* never one that the answer does not have.
THEOREM ResponseLosesNothing == Spec => []NothingLost
<1>1. ResponseInv => NothingLost
  <2>. SUFFICES ASSUME ResponseInv
                PROVE  NothingLost
    OBVIOUS
  <2>1. ASSUME Succeeded, ~LacksIn({"array", "optlist"})
        PROVE  pushed = offered
    <3>1. error = "none" /\ frames = << >>
      BY <2>1 DEF Succeeded, ResponseInv
    <3>2. ~LacksAt(class, lacking, {"array", "optlist"})
      BY <2>1, Predicates
    <3>3. pushed + 0 = offered /\ pushed \in Nat
      BY <3>1, <3>2 DEF ResponseInv, Scalars, Books, Pending
    <3>. QED  BY <3>3
  <2>2. TypeOK
    BY TypesFollow
  <2>. QED  BY <2>1, <2>2 DEF NothingLost
<1>. QED  BY <1>1, ResponseInvariant, PTL

\* error_code tells neither too little nor too much of an answer to any API class, when no
\* failure has the code 0, which std::error_code takes for success.
THEOREM ResponseReportsFailure ==
  ASSUME "zero" \notin ErrorFields
  PROVE  Spec => []FailureReported
<1>1. ResponseInv /\ Trusted => FailureReported
  <2>. SUFFICES ASSUME ResponseInv, Trusted, phase = "called"
                PROVE  /\ refused => error # "none"
                       /\ ~refused /\ (\A l \in lacking : l[2] \in Dispensable(l[1])) =>
                             error = "none" /\ Declared("Response").plain \subseteq value
    BY DEF FailureReported
  <2>1. refused => error # "none"
    BY DEF Trusted
  <2>2. ASSUME ~refused, \A l \in lacking : l[2] \in Dispensable(l[1])
        PROVE  error = "none" /\ Declared("Response").plain \subseteq value
    <3>1. ~LacksNeeded(class, lacking)
      BY <2>2, Predicates
    <3>2. error = "none"
      BY <2>2, <3>1 DEF ResponseInv
    <3>3. frames = << >> /\ class \in Classes
      BY DEF ResponseInv, Scalars
    <3>4. Whole(class, lacking, error, value)
      BY <3>3 DEF ResponseInv
    <3>5. ~LacksAt(class, lacking, {"array"})
      <4>1. ASSUME NEW l \in lacking, NEW i \in DOMAIN Api[class].steps[l[1]],
                   Api[class].steps[l[1]][i].member = l[2],
                   Api[class].steps[l[1]][i].kind \in {"array"}
            PROVE  FALSE
        <5>1. l[1] \in Types(class)
          BY DEF ResponseInv, LackingOK
        <5>2. StepFacts(class, l[1], Api[class].steps[l[1]][i])
          BY <3>3, <5>1, Tables
        <5>3. l[2] \notin DispensableIn(class, l[1])
          BY <4>1, <5>2 DEF StepFacts
        <5>. QED  BY <3>1, <5>3 DEF LacksNeeded
      <4>. QED  BY <4>1 DEF LacksAt
    <3>. QED  BY <3>2, <3>4, <3>5, Predicates DEF Whole
  <2>. QED  BY <2>1, <2>2
<1>. QED  BY <1>1, ResponseInvariant, TrustInvariant, PTL
=============================================================================
