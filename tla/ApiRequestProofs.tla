-------------------------- MODULE ApiRequestProofs --------------------------
(***************************************************************************)
(* What holds for any number of calls, tokens and io threads, whatever the *)
(* API class, when the calls made with one Request object follow each      *)
(* other, as in the tests of SessionMaintainer.                            *)
(***************************************************************************)
EXTENDS ApiRequest, TLAPS

InProgress(c) == phase[c] \in {"waiting", "token", "sent"}

-----------------------------------------------------------------------------
(* The inductive invariant *)

\* An HTTP request is under way exactly for the calls that were sent, and is
\* answered through the Impl of the call.
Answerable ==
    /\ DOMAIN wire = {c \in Calls : phase[c] = "sent"}
    /\ \A c \in Calls : phase[c] = "sent" => callback[Object[c]] = c

\* Of the calls made with one object one at most is in progress.
Alone ==
    \A c, d \in Calls : Object[c] = Object[d] /\ InProgress(c) /\ InProgress(d) => c = d

\* Between SetSessionToken and Init the object holds the token that was lent.
Lent ==
    /\ \A c \in Calls : phase[c] = "token" => token[Object[c]] = lent[c] /\ UsesSessionToken
    /\ ~UsesSessionToken =>
          /\ \A c \in Calls : lent[c] = None
          /\ \A o \in Objects : token[o] = None

\* The message of an attempt carries the token of its call.
Carried ==
    \A c \in DOMAIN wire :
       /\ {wire[c].url, wire[c].post} = IF UsesSessionToken THEN {lent[c], None} ELSE {None}
       /\ wire[c].signature = [key |-> lent[c], over |-> wire[c].parts]

CallInv == TypeOK /\ Answerable /\ Alone /\ Lent /\ Carried

-----------------------------------------------------------------------------
(* The operations *)

\* Nothing was called yet.
LEMMA InitKeeps ==
  ASSUME Init
  PROVE  CallInv
<1>1. /\ class \in Classes
      /\ held \in [Objects -> This.impl.constructors]
      /\ token = [o \in Objects |-> None]
      /\ callback = [o \in Objects |-> None]
      /\ phase = [c \in Calls |-> "new"]
      /\ lent = [c \in Calls |-> None]
      /\ wire = << >>
      /\ attempts = [c \in Calls |-> 0]
  BY DEF Init
<1>2. held \in [Objects -> SUBSET UNION (This.impl.constructors \cup {This.impl.options})]
  BY <1>1
<1>3. TypeOK
  BY <1>1, <1>2, ApiRequestAssumption DEF TypeOK
<1>4. DOMAIN wire = {} /\ \A c \in Calls : phase[c] = "new" /\ lent[c] = None
  BY <1>1
<1>5. \A o \in Objects : token[o] = None
  BY <1>1
<1>. QED  BY <1>3, <1>4, <1>5 DEF CallInv, Answerable, Alone, InProgress, Lent, Carried

\* An option is set.
LEMMA SetKeeps ==
  ASSUME CallInv, NEW o \in Objects, NEW m \in This.impl.options, Set(o, m)
  PROVE  CallInv'
<1>1. /\ held' = [held EXCEPT ![o] = @ \cup {m}]
      /\ UNCHANGED << class, token, callback, phase, meant, lent, wire, attempts >>
  BY DEF Set
<1>2. held' \in [Objects -> SUBSET UNION (This.impl.constructors \cup {This.impl.options})]
  <2>1. held \in [Objects -> SUBSET UNION (This.impl.constructors \cup {This.impl.options})]
    BY DEF CallInv, TypeOK
  <2>2. held[o] \cup {m} \in SUBSET UNION (This.impl.constructors \cup {This.impl.options})
    BY <2>1
  <2>. QED  BY <1>1, <2>1, <2>2
<1>3. This' = This /\ (UsesSessionToken' <=> UsesSessionToken)
  BY <1>1 DEF This, UsesSessionToken
<1>4. TypeOK'
  BY <1>1, <1>2, <1>3 DEF CallInv, TypeOK
<1>. QED  BY <1>1, <1>3, <1>4 DEF CallInv, Answerable, Alone, InProgress, Lent, Carried

\* The call joins the waiting ones.
LEMMA CallKeeps ==
  ASSUME CallInv, ~Overlap, NEW c \in Calls, Call(c)
  PROVE  CallInv'
<1>1. /\ phase[c] = "new" /\ phase' = [phase EXCEPT ![c] = "waiting"]
      /\ Idle(Object[c])
      /\ UNCHANGED << class, held, token, callback, lent, wire, attempts >>
  BY DEF Call
<1>2. phase \in [Calls -> {"new", "waiting", "token", "sent", "done"}]
  BY DEF CallInv, TypeOK
<1>3. /\ phase' \in [Calls -> {"new", "waiting", "token", "sent", "done"}]
      /\ \A d \in Calls : /\ phase'[d] = "sent" <=> phase[d] = "sent"
                          /\ phase'[d] = "token" <=> phase[d] = "token"
                          /\ d # c => phase'[d] = phase[d]
  BY <1>1, <1>2
<1>4. This' = This /\ (UsesSessionToken' <=> UsesSessionToken)
  BY <1>1 DEF This, UsesSessionToken
<1>5. TypeOK'
  BY <1>1, <1>3, <1>4 DEF CallInv, TypeOK
<1>6. Alone'
  <2>1. \A d \in Calls : Object[d] = Object[c] => ~InProgress(d)
    BY <1>1 DEF Idle, InProgress
  <2>2. \A d \in Calls : d # c => (InProgress(d)' <=> InProgress(d))
    BY <1>3 DEF InProgress
  <2>. QED  BY <2>1, <2>2 DEF CallInv, Alone
<1>. QED  BY <1>1, <1>3, <1>4, <1>5, <1>6 DEF CallInv, Answerable, Lent, Carried

\* A token is lent to the call.
LEMMA SetSessionTokenKeeps ==
  ASSUME CallInv, NEW c \in Calls, NEW t \in Tokens, SetSessionToken(c, t)
  PROVE  CallInv'
<1>1. /\ UsesSessionToken /\ phase[c] = "waiting"
      /\ token' = [token EXCEPT ![Object[c]] = t]
      /\ lent' = [lent EXCEPT ![c] = t]
      /\ phase' = [phase EXCEPT ![c] = "token"]
      /\ UNCHANGED << class, held, callback, meant, wire, attempts >>
  BY DEF SetSessionToken
<1>2. /\ phase \in [Calls -> {"new", "waiting", "token", "sent", "done"}]
      /\ token \in [Objects -> Tokens \cup {None}]
      /\ lent \in [Calls -> Tokens \cup {None}]
  BY DEF CallInv, TypeOK
<1>3. \A d \in Calls :
         Object[d] \in Objects /\ (d # c /\ InProgress(d) => Object[d] # Object[c])
  BY <1>1, ApiRequestAssumption DEF CallInv, Alone, InProgress
<1>4. /\ phase' \in [Calls -> {"new", "waiting", "token", "sent", "done"}]
      /\ token' \in [Objects -> Tokens \cup {None}]
      /\ lent' \in [Calls -> Tokens \cup {None}]
  BY <1>1, <1>2
<1>5. /\ phase'[c] = "token" /\ lent'[c] = t /\ token'[Object[c]] = t
      /\ \A d \in Calls : d # c =>
            /\ phase'[d] = phase[d] /\ lent'[d] = lent[d]
            /\ InProgress(d) => token'[Object[d]] = token[Object[d]]
  BY <1>1, <1>2, <1>3
<1>6. This' = This /\ (UsesSessionToken' <=> UsesSessionToken)
  BY <1>1 DEF This, UsesSessionToken
<1>7. TypeOK'
  BY <1>1, <1>4, <1>6 DEF CallInv, TypeOK
<1>8. Answerable'
  <2>1. DOMAIN wire = {d \in Calls : phase'[d] = "sent"}
    BY <1>1, <1>5 DEF CallInv, Answerable
  <2>. QED  BY <1>1, <1>5, <2>1 DEF CallInv, Answerable
<1>9. Lent'
  BY <1>1, <1>5, <1>6 DEF CallInv, Lent, InProgress
<1>10. Carried'
  <2>1. \A d \in DOMAIN wire : d # c /\ d \in Calls
    BY <1>1 DEF CallInv, Answerable
  <2>. QED  BY <1>1, <1>5, <1>6, <2>1 DEF CallInv, Carried
<1>11. Alone'
  BY <1>1, <1>5 DEF CallInv, Alone, InProgress
<1>. QED  BY <1>7, <1>8, <1>9, <1>10, <1>11 DEF CallInv

\* The message that is made now carries the token of the object.
LEMMA MessageCarries ==
  ASSUME CallInv, NEW o \in Objects
  PROVE  LET m == Message(o) IN
         /\ {m.url, m.post} = IF UsesSessionToken THEN {token[o], None} ELSE {None}
         /\ m.signature = [key |-> IF UsesSessionToken THEN token[o] ELSE None,
                           over |-> m.parts]
<1>1. This.impl.method \in {"Get", "Post"}
  BY ApiRequestAssumption DEF CallInv, TypeOK, This
<1>2. {UrlToken(o), PostToken(o)} = IF UsesSessionToken THEN {token[o], None} ELSE {None}
  BY <1>1 DEF UrlToken, PostToken
<1>. QED  BY <1>2 DEF Message

\* RequesterImpl::Init.
LEMMA InitRequestKeeps ==
  ASSUME CallInv, NEW c \in Calls, InitRequest(c)
  PROVE  CallInv'
<1>. DEFINE m == Message(Object[c])
<1>1. /\ phase[c] = IF UsesSessionToken THEN "token" ELSE "waiting"
      /\ attempts[c] < MaxAttempts
      /\ callback' = [callback EXCEPT ![Object[c]] = c]
      /\ wire' = [d \in DOMAIN wire \cup {c} |-> IF d = c THEN m ELSE wire[d]]
      /\ attempts' = [attempts EXCEPT ![c] = @ + 1]
      /\ phase' = [phase EXCEPT ![c] = "sent"]
      /\ UNCHANGED << class, held, token, meant, lent >>
  BY DEF InitRequest
<1>2. /\ phase \in [Calls -> {"new", "waiting", "token", "sent", "done"}]
      /\ callback \in [Objects -> Calls \cup {None}]
      /\ attempts \in [Calls -> 0 .. MaxAttempts]
  BY DEF CallInv, TypeOK
<1>3. \A d \in Calls :
         Object[d] \in Objects /\ (d # c /\ InProgress(d) => Object[d] # Object[c])
  BY <1>1, ApiRequestAssumption DEF CallInv, Alone, InProgress
<1>4. /\ {m.url, m.post} = IF UsesSessionToken THEN {lent[c], None} ELSE {None}
      /\ m.signature = [key |-> lent[c], over |-> m.parts]
  <2>1. IF UsesSessionToken THEN token[Object[c]] = lent[c] ELSE lent[c] = None
    BY <1>1 DEF CallInv, Lent
  <2>. QED  BY <1>3, <2>1, MessageCarries
<1>. HIDE DEF m
<1>5. /\ phase' \in [Calls -> {"new", "waiting", "token", "sent", "done"}]
      /\ callback' \in [Objects -> Calls \cup {None}]
  BY <1>1, <1>2
<1>6. attempts' \in [Calls -> 0 .. MaxAttempts]
  <2>1. attempts[c] + 1 \in 0 .. MaxAttempts
    BY <1>1, <1>2, ApiRequestAssumption
  <2>. QED  BY <1>1, <1>2, <2>1
<1>7. /\ phase'[c] = "sent" /\ callback'[Object[c]] = c
      /\ \A d \in Calls : d # c =>
            /\ phase'[d] = phase[d]
            /\ InProgress(d) => callback'[Object[d]] = callback[Object[d]]
  BY <1>1, <1>2, <1>3
<1>8. /\ DOMAIN wire' = DOMAIN wire \cup {c} /\ wire'[c] = m
      /\ \A d \in DOMAIN wire : d # c => wire'[d] = wire[d]
  BY <1>1
<1>9. This' = This /\ (UsesSessionToken' <=> UsesSessionToken)
  BY <1>1 DEF This, UsesSessionToken
<1>10. TypeOK'
  BY <1>1, <1>5, <1>6, <1>9 DEF CallInv, TypeOK
<1>11. Answerable'
  <2>1. DOMAIN wire' = {d \in Calls : phase'[d] = "sent"}
    BY <1>7, <1>8 DEF CallInv, Answerable
  <2>. QED  BY <1>7, <2>1 DEF CallInv, Answerable, InProgress
<1>12. Lent'
  BY <1>1, <1>7, <1>9 DEF CallInv, Lent
<1>13. Carried'
  <2>1. ASSUME NEW d \in DOMAIN wire'
        PROVE  /\ {wire'[d].url, wire'[d].post} = IF UsesSessionToken THEN {lent[d], None} ELSE {None}
               /\ wire'[d].signature = [key |-> lent[d], over |-> wire'[d].parts]
    <3>1. CASE d = c
      BY <1>4, <1>8, <3>1
    <3>2. CASE d # c
      BY <1>8, <3>2 DEF CallInv, Carried
    <3>. QED  BY <3>1, <3>2
  <2>. QED  BY <1>1, <1>9, <2>1 DEF Carried
<1>14. Alone'
  BY <1>1, <1>7 DEF CallInv, Alone, InProgress
<1>. QED  BY <1>10, <1>11, <1>12, <1>13, <1>14 DEF CallInv

\* ApiBase::HandleContent and HandleError.
LEMMA HandleContentKeeps ==
  ASSUME CallInv, NEW c \in Calls, NEW next \in {"waiting", "done"},
         HandleContent(c, next)
  PROVE  CallInv'
<1>1. /\ c \in DOMAIN wire
      /\ wire' = Restrict(wire, DOMAIN wire \ {c})
      /\ phase' = [phase EXCEPT ![callback[Object[c]]] = next]
      /\ lent' = [lent EXCEPT ![callback[Object[c]]] = None]
      /\ UNCHANGED << class, held, token, callback, meant, attempts >>
  BY DEF HandleContent
<1>2. callback[Object[c]] = c
  BY <1>1 DEF CallInv, Answerable
<1>3. /\ phase \in [Calls -> {"new", "waiting", "token", "sent", "done"}]
      /\ lent \in [Calls -> Tokens \cup {None}]
  BY DEF CallInv, TypeOK
<1>4. /\ phase' \in [Calls -> {"new", "waiting", "token", "sent", "done"}]
      /\ lent' \in [Calls -> Tokens \cup {None}]
      /\ phase'[c] = next /\ lent'[c] = None
      /\ \A d \in Calls : d # c => phase'[d] = phase[d] /\ lent'[d] = lent[d]
  BY <1>1, <1>2, <1>3
<1>5. /\ DOMAIN wire' = DOMAIN wire \ {c}
      /\ \A d \in DOMAIN wire' : wire'[d] = wire[d]
  BY <1>1 DEF Restrict
<1>6. This' = This /\ (UsesSessionToken' <=> UsesSessionToken)
  BY <1>1 DEF This, UsesSessionToken
<1>7. TypeOK'
  BY <1>1, <1>4, <1>6 DEF CallInv, TypeOK
<1>8. Answerable'
  <2>1. DOMAIN wire' = {d \in Calls : phase'[d] = "sent"}
    BY <1>4, <1>5 DEF CallInv, Answerable
  <2>. QED  BY <1>1, <1>4, <2>1 DEF CallInv, Answerable
<1>9. Lent'
  BY <1>1, <1>4, <1>6 DEF CallInv, Lent
<1>10. Carried'
  <2>1. \A d \in DOMAIN wire' : d \in DOMAIN wire /\ wire'[d] = wire[d] /\ lent'[d] = lent[d]
    BY <1>4, <1>5 DEF CallInv, Answerable
  <2>. QED  BY <1>6, <2>1 DEF CallInv, Carried
<1>11. Alone'
  BY <1>1, <1>4 DEF CallInv, Answerable, Alone, InProgress
<1>. QED  BY <1>7, <1>8, <1>9, <1>10, <1>11 DEF CallInv

-----------------------------------------------------------------------------
(* The theorems *)

\* Every step keeps the inductive invariant.
LEMMA NextKeeps ==
  ASSUME CallInv, ~Overlap, [Next]_vars
  PROVE  CallInv'
<1>1. CASE UNCHANGED vars
  BY <1>1 DEF CallInv, TypeOK, Answerable, Alone, InProgress, Lent, Carried, This,
              UsesSessionToken, vars
<1>2. CASE Next
  BY <1>2, SetKeeps, CallKeeps, SetSessionTokenKeeps, InitRequestKeeps, HandleContentKeeps
     DEF Next
<1>. QED  BY <1>1, <1>2

\* When the calls with one object follow each other, an attempt carries exactly the token
\* it was lent and is signed with that token's key over the parts it sends, for every API
\* class, though the object still holds the token of the attempt or call before
\* (SessionTokenApiBaseStatic::SetSessionToken, RequesterImpl::Init).
THEOREM CarriesOwnToken == ~Overlap => (Spec => []OwnToken)
<1>. SUFFICES ASSUME ~Overlap  PROVE Spec => []OwnToken
  OBVIOUS
<1>1. Init => CallInv
  BY InitKeeps
<1>2. CallInv /\ [Next]_vars => CallInv'
  BY NextKeeps
<1>3. CallInv => OwnToken
  BY DEF CallInv, Carried, OwnToken
<1>. QED  BY <1>1, <1>2, <1>3, PTL DEF Spec

\* Whatever step ends an HTTP request is the answer's, and it touches its own call only.
LEMMA AnswerIsOwn ==
  ASSUME CallInv, [Next]_vars, NEW c \in DOMAIN wire \ DOMAIN wire'
  PROVE  /\ phase'[c] \in {"waiting", "done"} /\ lent'[c] = None
         /\ \A d \in Calls \ {c} : phase'[d] = phase[d] /\ lent'[d] = lent[d]
<1>1. PICK b \in Calls, next \in {"waiting", "done"} : HandleContent(b, next)
  <2>1. UNCHANGED wire => FALSE
    OBVIOUS
  <2>2. \A d \in Calls : ~InitRequest(d)
    BY DEF InitRequest
  <2>. QED  BY <2>1, <2>2 DEF Next, vars, Set, Call, SetSessionToken
<1>2. /\ b \in DOMAIN wire /\ wire' = Restrict(wire, DOMAIN wire \ {b})
      /\ phase' = [phase EXCEPT ![callback[Object[b]]] = next]
      /\ lent' = [lent EXCEPT ![callback[Object[b]]] = None]
  BY <1>1 DEF HandleContent
<1>3. b = c /\ callback[Object[c]] = c /\ c \in Calls
  <2>1. DOMAIN wire' = DOMAIN wire \ {b}
    BY <1>2 DEF Restrict
  <2>. QED  BY <2>1 DEF CallInv, Answerable
<1>4. /\ phase \in [Calls -> {"new", "waiting", "token", "sent", "done"}]
      /\ lent \in [Calls -> Tokens \cup {None}]
  BY DEF CallInv, TypeOK
<1>. QED  BY <1>2, <1>3, <1>4

\* When the calls with one object follow each other, each answer ends or requeues the
\* call whose HTTP request it answers, frees its token and leaves every other call alone,
\* however many calls have left their callback in the same Impl before (RequesterImpl::Init,
\* ApiBase::HandleContent).
THEOREM AnswersOwnCall == ~Overlap => (Spec => OwnAnswer)
<1>. SUFFICES ASSUME ~Overlap  PROVE Spec => OwnAnswer
  OBVIOUS
<1>. DEFINE Own ==
       \A c \in DOMAIN wire \ DOMAIN wire' :
          /\ phase'[c] \in {"waiting", "done"} /\ lent'[c] = None
          /\ \A d \in Calls \ {c} : phase'[d] = phase[d] /\ lent'[d] = lent[d]
<1>1. Init => CallInv
  BY InitKeeps
<1>2. CallInv /\ [Next]_vars => CallInv'
  BY NextKeeps
<1>3. CallInv /\ [Next]_vars => [Own]_vars
  BY AnswerIsOwn
<1>. QED  BY <1>1, <1>2, <1>3, PTL DEF Spec, OwnAnswer

-----------------------------------------------------------------------------
(* What is sent, when the caller sets options only while no call with the  *)
(* object is in progress.  Calls with one object may overlap here, and get *)
(* each other's answers.                                                   *)

\* An object holds the arguments of a constructor and options.
HeldOK(o) ==
    \E arguments \in This.impl.constructors :
       arguments \subseteq held[o] /\ held[o] \subseteq arguments \cup This.impl.options

\* The call that answers go to was made of what the object holds.
CallbackMeant(o) ==
    /\ callback[o] \in Calls /\ Object[callback[o]] = o
    /\ meant[callback[o]] = held[o]

\* An object does not change while a call with it is in progress, and what is on the wire
\* was made of it.
MeantInv ==
    /\ class \in Classes
    /\ held \in [Objects -> SUBSET UNION (This.impl.constructors \cup {This.impl.options})]
    /\ phase \in [Calls -> {"new", "waiting", "token", "sent", "done"}]
    /\ meant \in [Calls -> SUBSET UNION (This.impl.constructors \cup {This.impl.options})]
    /\ \A o \in Objects : HeldOK(o)
    /\ DOMAIN callback = Objects
    /\ \A c \in Calls : InProgress(c) => meant[c] = held[Object[c]]
    /\ DOMAIN wire \subseteq Calls
    /\ \A c \in DOMAIN wire :
          /\ meant[c] = held[Object[c]]
          /\ wire[c].parts = Parts(Object[c])
          /\ CallbackMeant(Object[c])

\* Impl::GetPostData sends each member that has a value, once, and no other.
LEMMA PartsComplete ==
  ASSUME class \in Classes, NEW o \in Objects, HeldOK(o)
  PROVE  Range(Parts(o)) = held[o] /\ IsInjective(Parts(o))
<1>. DEFINE always == This.post.always
            whenSet == This.post.whenSet
            set == {p \in DOMAIN whenSet : whenSet[p] \in held[o]}
            all == DOMAIN always \cup set
<1>1. PICK arguments \in This.impl.constructors :
         arguments \subseteq held[o] /\ held[o] \subseteq arguments \cup This.impl.options
  BY DEF HeldOK
<1>2. /\ DOMAIN always \cap DOMAIN whenSet = {}
      /\ Range(always) \cap Range(whenSet) = {}
      /\ IsInjective(always) /\ IsInjective(whenSet)
      /\ Range(always) \subseteq arguments
      /\ arguments \cup This.impl.options \subseteq Range(always) \cup Range(whenSet)
  BY PartsAssumption DEF This
<1>3. Parts(o) = [p \in all |-> IF p \in DOMAIN always THEN always[p] ELSE whenSet[p]]
  BY DEF Parts
<1>. HIDE DEF always, whenSet
<1>4. /\ DOMAIN Parts(o) = all
      /\ \A p \in all :
            Parts(o)[p] = IF p \in DOMAIN always THEN always[p] ELSE whenSet[p]
  BY <1>3
<1>5. /\ \A p \in DOMAIN always : always[p] \in Range(always)
      /\ \A p \in DOMAIN whenSet : whenSet[p] \in Range(whenSet)
  BY DEF Range
<1>6. ASSUME NEW m \in Range(Parts(o))
      PROVE  m \in held[o]
  <2>1. PICK p \in all : m = Parts(o)[p]
    BY <1>4 DEF Range
  <2>. QED  BY <1>1, <1>2, <1>4, <1>5, <2>1
<1>7. ASSUME NEW m \in held[o]
      PROVE  m \in Range(Parts(o))
  <2>1. m \in Range(always) \/ m \in Range(whenSet)
    BY <1>1, <1>2
  <2>2. PICK p \in all : m = IF p \in DOMAIN always THEN always[p] ELSE whenSet[p]
    <3>1. CASE m \in Range(always)
      BY <3>1 DEF Range
    <3>2. CASE m \in Range(whenSet)
      <4>1. PICK p \in DOMAIN whenSet : m = whenSet[p]
        BY <3>2 DEF Range
      <4>2. p \in all /\ p \notin DOMAIN always
        BY <1>2, <4>1
      <4>. QED  BY <4>1, <4>2
    <3>. QED  BY <2>1, <3>1, <3>2
  <2>. QED  BY <1>4, <2>2 DEF Range
<1>8. ASSUME NEW p \in all, NEW q \in all, Parts(o)[p] = Parts(o)[q]
      PROVE  p = q
  <2>1. CASE p \in DOMAIN always /\ q \in DOMAIN always
    BY <1>2, <1>4, <1>8, <2>1 DEF IsInjective
  <2>2. CASE p \notin DOMAIN always /\ q \notin DOMAIN always
    BY <1>2, <1>4, <1>8, <2>2 DEF IsInjective
  <2>3. CASE ~(p \in DOMAIN always <=> q \in DOMAIN always)
    BY <1>2, <1>4, <1>5, <1>8, <2>3
  <2>. QED  BY <2>1, <2>2, <2>3
<1>9. IsInjective(Parts(o))
  BY <1>4, <1>8 DEF IsInjective
<1>. QED  BY <1>6, <1>7, <1>9

\* A new object holds the arguments of its constructor.
LEMMA InitMeant ==
  ASSUME Init
  PROVE  MeantInv
<1>1. /\ class \in Classes
      /\ held \in [Objects -> This.impl.constructors]
      /\ callback = [o \in Objects |-> None]
      /\ phase = [c \in Calls |-> "new"]
      /\ meant = [c \in Calls |-> {}]
      /\ wire = << >>
  BY DEF Init
<1>2. held \in [Objects -> SUBSET UNION (This.impl.constructors \cup {This.impl.options})]
  BY <1>1
<1>3. \A o \in Objects : HeldOK(o)
  BY <1>1 DEF HeldOK
<1>4. DOMAIN wire = {} /\ DOMAIN callback = Objects /\ \A c \in Calls : phase[c] = "new"
  BY <1>1
<1>. QED  BY <1>1, <1>2, <1>3, <1>4 DEF MeantInv, InProgress

\* Request::Set comes while no call with the object is in progress.
LEMMA SetMeant ==
  ASSUME MeantInv, ~LateSetters, NEW o \in Objects, NEW m \in This.impl.options, Set(o, m)
  PROVE  MeantInv'
<1>1. /\ Idle(o)
      /\ held' = [held EXCEPT ![o] = @ \cup {m}]
      /\ UNCHANGED << class, token, callback, phase, meant, lent, wire, attempts >>
  BY DEF Set
<1>2. held \in [Objects -> SUBSET UNION (This.impl.constructors \cup {This.impl.options})]
  BY DEF MeantInv
<1>3. /\ held'[o] = held[o] \cup {m}
      /\ \A x \in Objects : x # o => held'[x] = held[x]
  BY <1>1, <1>2
<1>4. held' \in [Objects -> SUBSET UNION (This.impl.constructors \cup {This.impl.options})]
  <2>1. held[o] \cup {m} \in SUBSET UNION (This.impl.constructors \cup {This.impl.options})
    BY <1>2
  <2>. QED  BY <1>1, <1>2, <2>1
<1>5. This' = This
  BY <1>1 DEF This
<1>6. \A x \in Objects : HeldOK(x)'
  <2>1. ASSUME NEW x \in Objects  PROVE HeldOK(x)'
    <3>1. PICK arguments \in This.impl.constructors :
             arguments \subseteq held[x] /\ held[x] \subseteq arguments \cup This.impl.options
      BY DEF MeantInv, HeldOK
    <3>2. arguments \subseteq held'[x] /\ held'[x] \subseteq arguments \cup This.impl.options
      BY <1>3, <3>1
    <3>. QED  BY <1>5, <3>2 DEF HeldOK
  <2>. QED  BY <2>1
<1>7. /\ \A c \in Calls : InProgress(c) => held'[Object[c]] = held[Object[c]]
      /\ \A c \in DOMAIN wire : held'[Object[c]] = held[Object[c]]
  BY <1>1, <1>3, ApiRequestAssumption DEF MeantInv, Idle, InProgress
<1>8. \A c \in DOMAIN wire : Parts(Object[c])' = Parts(Object[c])
  BY <1>5, <1>7 DEF Parts
<1>9. \A c \in DOMAIN wire : CallbackMeant(Object[c])'
  BY <1>1, <1>7 DEF MeantInv, CallbackMeant
<1>10. \A c \in Calls : InProgress(c)' <=> InProgress(c)
  BY <1>1 DEF InProgress
<1>. QED  BY <1>1, <1>4, <1>5, <1>6, <1>7, <1>8, <1>9, <1>10 DEF MeantInv

\* No other operation touches an object's members, so only what the calls did counts.
LEMMA HeldStays ==
  ASSUME MeantInv, class' = class, held' = held,
         phase' \in [Calls -> {"new", "waiting", "token", "sent", "done"}],
         meant' \in [Calls -> SUBSET UNION (This.impl.constructors \cup {This.impl.options})],
         \A c \in Calls : InProgress(c)' => meant'[c] = held[Object[c]],
         DOMAIN wire' \subseteq Calls, DOMAIN callback' = Objects,
         \A c \in DOMAIN wire' :
            /\ meant'[c] = held[Object[c]]
            /\ wire'[c].parts = Parts(Object[c])
            /\ CallbackMeant(Object[c])'
  PROVE  MeantInv'
<1>1. This' = This
  BY DEF This
<1>2. \A o \in Objects : HeldOK(o)' <=> HeldOK(o)
  BY <1>1 DEF HeldOK
<1>3. \A c \in DOMAIN wire' : Parts(Object[c])' = Parts(Object[c])
  BY <1>1 DEF Parts
<1>. QED  BY <1>1, <1>2, <1>3 DEF MeantInv

\* SessionMaintainer::Call.
LEMMA CallMeant ==
  ASSUME MeantInv, NEW c \in Calls, Call(c)
  PROVE  MeantInv'
<1>1. /\ phase' = [phase EXCEPT ![c] = "waiting"]
      /\ meant' = [meant EXCEPT ![c] = held[Object[c]]]
      /\ UNCHANGED << class, held, token, callback, lent, wire, attempts >>
  BY DEF Call
<1>2. /\ phase \in [Calls -> {"new", "waiting", "token", "sent", "done"}]
      /\ meant \in [Calls -> SUBSET UNION (This.impl.constructors \cup {This.impl.options})]
      /\ held \in [Objects -> SUBSET UNION (This.impl.constructors \cup {This.impl.options})]
  BY DEF MeantInv
<1>3. /\ phase' \in [Calls -> {"new", "waiting", "token", "sent", "done"}]
      /\ \A d \in Calls : d # c => phase'[d] = phase[d]
  BY <1>1, <1>2
<1>4. /\ meant' \in [Calls -> SUBSET UNION (This.impl.constructors \cup {This.impl.options})]
      /\ meant'[c] = held[Object[c]] /\ \A d \in Calls : d # c => meant'[d] = meant[d]
  <2>1. held[Object[c]] \in SUBSET UNION (This.impl.constructors \cup {This.impl.options})
    BY <1>2, ApiRequestAssumption
  <2>. QED  BY <1>1, <1>2, <2>1
<1>5. \A d \in Calls : InProgress(d)' => meant'[d] = held[Object[d]]
  BY <1>3, <1>4 DEF MeantInv, InProgress
<1>6. DOMAIN wire' \subseteq Calls /\ DOMAIN callback' = Objects
  BY <1>1 DEF MeantInv
<1>7. ASSUME NEW d \in DOMAIN wire'
      PROVE  /\ meant'[d] = held[Object[d]]
             /\ wire'[d].parts = Parts(Object[d])
             /\ CallbackMeant(Object[d])'
  BY <1>1, <1>4, <1>6 DEF MeantInv, CallbackMeant
<1>. QED  BY <1>1, <1>3, <1>4, <1>5, <1>6, <1>7, HeldStays

\* A token changes nothing but the phase of a call.
LEMMA SetSessionTokenMeant ==
  ASSUME MeantInv, NEW c \in Calls, NEW t \in Tokens, SetSessionToken(c, t)
  PROVE  MeantInv'
<1>1. /\ phase[c] = "waiting" /\ phase' = [phase EXCEPT ![c] = "token"]
      /\ UNCHANGED << class, held, callback, meant, wire, attempts >>
  BY DEF SetSessionToken
<1>2. /\ phase \in [Calls -> {"new", "waiting", "token", "sent", "done"}]
      /\ meant \in [Calls -> SUBSET UNION (This.impl.constructors \cup {This.impl.options})]
  BY DEF MeantInv
<1>3. /\ phase' \in [Calls -> {"new", "waiting", "token", "sent", "done"}]
      /\ \A d \in Calls : InProgress(d)' <=> InProgress(d)
  BY <1>1, <1>2 DEF InProgress
<1>4. /\ \A d \in Calls : InProgress(d)' => meant'[d] = held[Object[d]]
      /\ DOMAIN wire' \subseteq Calls /\ DOMAIN callback' = Objects
      /\ \A d \in DOMAIN wire' : /\ meant'[d] = held[Object[d]]
                                 /\ wire'[d].parts = Parts(Object[d])
                                 /\ CallbackMeant(Object[d])'
  BY <1>1, <1>3 DEF MeantInv, CallbackMeant
<1>. QED  BY <1>1, <1>2, <1>3, <1>4, HeldStays

\* RequesterImpl::Init makes the message of what the object holds.
LEMMA InitRequestMeant ==
  ASSUME MeantInv, NEW c \in Calls, InitRequest(c)
  PROVE  MeantInv'
<1>. DEFINE m == Message(Object[c])
<1>1. /\ phase[c] = IF UsesSessionToken THEN "token" ELSE "waiting"
      /\ callback' = [callback EXCEPT ![Object[c]] = c]
      /\ wire' = [d \in DOMAIN wire \cup {c} |-> IF d = c THEN m ELSE wire[d]]
      /\ phase' = [phase EXCEPT ![c] = "sent"]
      /\ UNCHANGED << class, held, token, meant, lent >>
  BY DEF InitRequest
<1>2. m.parts = Parts(Object[c])
  BY DEF Message
<1>. HIDE DEF m
<1>3. /\ phase \in [Calls -> {"new", "waiting", "token", "sent", "done"}]
      /\ meant \in [Calls -> SUBSET UNION (This.impl.constructors \cup {This.impl.options})]
  BY DEF MeantInv
<1>4. InProgress(c) /\ meant[c] = held[Object[c]]
  BY <1>1 DEF InProgress, MeantInv
<1>5. /\ phase' \in [Calls -> {"new", "waiting", "token", "sent", "done"}]
      /\ \A d \in Calls : InProgress(d)' <=> InProgress(d)
  BY <1>1, <1>3, <1>4 DEF InProgress
<1>6. \A o \in Objects : /\ o # Object[c] => callback'[o] = callback[o]
                         /\ o = Object[c] => callback'[o] \in {c, callback[o]}
  BY <1>1
<1>7. /\ DOMAIN wire' = DOMAIN wire \cup {c} /\ wire'[c] = m
      /\ \A d \in DOMAIN wire : d # c => wire'[d] = wire[d]
  BY <1>1
<1>8. DOMAIN wire' \subseteq Calls /\ DOMAIN callback' = Objects
  BY <1>1, <1>7 DEF MeantInv
<1>9. \A d \in DOMAIN wire' : meant'[d] = held[Object[d]] /\ wire'[d].parts = Parts(Object[d])
  BY <1>1, <1>2, <1>4, <1>7 DEF MeantInv
<1>10. CallbackMeant(Object[c])'
  <2>1. callback'[Object[c]] = c
    BY <1>1, ApiRequestAssumption DEF MeantInv
  <2>. QED  BY <1>1, <1>4, <2>1 DEF CallbackMeant
<1>11. \A d \in DOMAIN wire' : CallbackMeant(Object[d])'
  <2>1. ASSUME NEW d \in DOMAIN wire'  PROVE CallbackMeant(Object[d])'
    <3>1. CASE Object[d] = Object[c]
      BY <1>10, <3>1
    <3>2. CASE Object[d] # Object[c]
      <4>1. d \in DOMAIN wire /\ Object[d] \in Objects
        BY <1>7, <1>8, <3>2, ApiRequestAssumption
      <4>. QED  BY <1>1, <1>6, <3>2, <4>1 DEF MeantInv, CallbackMeant
    <3>. QED  BY <3>1, <3>2
  <2>. QED  BY <2>1
<1>12. \A d \in Calls : InProgress(d)' => meant'[d] = held[Object[d]]
  BY <1>1, <1>5 DEF MeantInv
<1>. QED  BY <1>1, <1>3, <1>5, <1>8, <1>9, <1>11, <1>12, HeldStays

\* The answer ends a call that was made, or queues it again.
LEMMA HandleContentMeant ==
  ASSUME MeantInv, NEW c \in Calls, NEW next \in {"waiting", "done"}, HandleContent(c, next)
  PROVE  MeantInv'
<1>1. /\ c \in DOMAIN wire
      /\ wire' = Restrict(wire, DOMAIN wire \ {c})
      /\ phase' = [phase EXCEPT ![callback[Object[c]]] = next]
      /\ UNCHANGED << class, held, token, callback, meant, attempts >>
  BY DEF HandleContent
<1>2. /\ phase \in [Calls -> {"new", "waiting", "token", "sent", "done"}]
      /\ meant \in [Calls -> SUBSET UNION (This.impl.constructors \cup {This.impl.options})]
      /\ Object[c] \in Objects
  BY ApiRequestAssumption DEF MeantInv
<1>. DEFINE b == callback[Object[c]]
<1>3. b \in Calls /\ meant[b] = held[Object[b]]
  BY <1>1 DEF MeantInv, CallbackMeant
<1>4. /\ phase' \in [Calls -> {"new", "waiting", "token", "sent", "done"}]
      /\ \A d \in Calls : d # b => (InProgress(d)' <=> InProgress(d))
  BY <1>1, <1>2 DEF InProgress
<1>5. /\ DOMAIN wire' = DOMAIN wire \ {c}
      /\ \A d \in DOMAIN wire' : wire'[d] = wire[d]
  BY <1>1 DEF Restrict
<1>6. \A d \in Calls : InProgress(d)' => meant'[d] = held[Object[d]]
  BY <1>1, <1>3, <1>4 DEF MeantInv
<1>7. /\ DOMAIN wire' \subseteq Calls /\ DOMAIN callback' = Objects
      /\ \A d \in DOMAIN wire' : /\ meant'[d] = held[Object[d]]
                                 /\ wire'[d].parts = Parts(Object[d])
                                 /\ CallbackMeant(Object[d])'
  BY <1>1, <1>5 DEF MeantInv, CallbackMeant
<1>. QED  BY <1>1, <1>2, <1>4, <1>6, <1>7, HeldStays

\* When no option is set while a call is in progress, every attempt of every call sends the
\* arguments and options the object held when the call was made, each once, and nothing
\* else, although attempts are built from an Impl that all copies share
\* (RequesterImpl::Init, Impl::GetPostData).
THEOREM SendsAsMeant == ~LateSetters => (Spec => []SentAsMeant)
<1>. SUFFICES ASSUME ~LateSetters  PROVE Spec => []SentAsMeant
  OBVIOUS
<1>1. Init => MeantInv
  BY InitMeant
<1>2. MeantInv /\ [Next]_vars => MeantInv'
  <2>1. ASSUME MeantInv, UNCHANGED vars  PROVE MeantInv'
    BY <2>1 DEF MeantInv, InProgress, CallbackMeant, HeldOK, Parts, This, vars
  <2>2. ASSUME MeantInv, Next  PROVE MeantInv'
    BY <2>2, SetMeant, CallMeant, SetSessionTokenMeant, InitRequestMeant, HandleContentMeant
       DEF Next
  <2>. QED  BY <2>1, <2>2
<1>3. MeantInv => SentAsMeant
  <2>1. ASSUME MeantInv, NEW c \in DOMAIN wire
        PROVE  Range(wire[c].parts) = meant[c] /\ IsInjective(wire[c].parts)
    <3>1. /\ c \in Calls /\ meant[c] = held[Object[c]] /\ wire[c].parts = Parts(Object[c])
          /\ class \in Classes /\ Object[c] \in Objects /\ HeldOK(Object[c])
      BY <2>1, ApiRequestAssumption DEF MeantInv
    <3>. QED  BY <3>1, PartsComplete
  <2>. QED  BY <2>1 DEF SentAsMeant
<1>. QED  BY <1>1, <1>2, <1>3, PTL DEF Spec

=============================================================================
