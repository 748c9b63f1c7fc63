----------------------------- MODULE ApiRequest -----------------------------
(***************************************************************************)
(* What an API class sends, and to whom its answer goes.  A Request is a   *)
(* handle: it holds a std::shared_ptr<Impl>, so the copy that              *)
(* SessionMaintainer::Call takes, and the one that RequesterImpl makes of  *)
(* it for every attempt, work on the Impl of the caller's object.  Impl     *)
(* holds the arguments of the call, the options that were set, the session *)
(* token of the attempt and the callback, and keeps all of them when the   *)
(* caller makes its next call with the same object.                        *)
(*                                                                         *)
(* SessionMaintainer models the queues of calls and the pool of tokens;    *)
(* here a call takes any token that no other call holds.                   *)
(***************************************************************************)
EXTENDS ApiClasses, Naturals, FiniteSets, Functions

CONSTANTS
    Classes,     \* names of the API classes that are called
    Objects,     \* Request objects, all of one class
    Calls,       \* calls that are made with them
    Object,      \* Object[c]: the object of call c
    Tokens,      \* session tokens, each with its time and secret key
    None,        \* no token, no callback
    Threads,     \* io threads that run SessionMaintainer::AttemptRequests
    LateSetters, \* whether the caller sets options while a call is in progress
    Overlap,     \* whether calls with one object may be in progress together
    MaxSet,      \* bound: options that are set
    MaxAttempts  \* bound: attempts of one call

ASSUME ApiRequestAssumption ==
    /\ Classes \subseteq DOMAIN Api
    /\ \A k \in Classes : Api[k].impl.method \in {"Get", "Post"}
    /\ Object \in [Calls -> Objects]
    /\ None \notin Calls \cup Tokens
    /\ Threads \in Nat \ {0}
    /\ LateSetters \in BOOLEAN
    /\ Overlap \in BOOLEAN
    /\ MaxSet \in Nat
    /\ MaxAttempts \in Nat \ {0}

\* How GetPostData pairs parts with members in every class: no part and no member
\* twice, what is always sent was given to the constructor, and whatever else may have a
\* value is sent when it has one.
ASSUME PartsAssumption ==
    \A k \in Classes :
        LET always == Api[k].post.always
            whenSet == Api[k].post.whenSet
        IN  /\ DOMAIN always \cap DOMAIN whenSet = {}
            /\ Range(always) \cap Range(whenSet) = {}
            /\ IsInjective(always) /\ IsInjective(whenSet)
            /\ \A arguments \in Api[k].impl.constructors :
                   /\ Range(always) \subseteq arguments
                   /\ arguments \cup Api[k].impl.options
                         \subseteq Range(always) \cup Range(whenSet)

VARIABLES
    class,     \* the class of the objects
    held,      \* held[o]: the members of Impl that have a value
    token,     \* token[o]: session_token_, time_ and secret_key_
    callback,  \* callback[o]: the call whose callback callback_ is
    phase,     \* phase[c]: "new", "waiting", "token", "sent" or "done"
    meant,     \* meant[c]: the members that had a value when the call was made
    lent,      \* lent[c]: the token that the attempt was given
    wire,      \* wire[c]: the message of c, for the calls whose HTTP request is under way
    attempts   \* attempts[c]: HTTP requests made

vars == << class, held, token, callback, phase, meant, lent, wire, attempts >>

This == Api[class]
UsesSessionToken == This.impl.base = "SessionToken"

Init ==
    /\ class \in Classes
    /\ held \in [Objects -> This.impl.constructors]
    /\ token = [o \in Objects |-> None]
    /\ callback = [o \in Objects |-> None]
    /\ phase = [c \in Calls |-> "new"]
    /\ meant = [c \in Calls |-> {}]
    /\ lent = [c \in Calls |-> None]
    /\ wire = << >>
    /\ attempts = [c \in Calls |-> 0]
-----------------------------------------------------------------------------
\* No call with the object is in progress.
Idle(o) ==
    \A c \in Calls : Object[c] = o =>
        phase[c] \in {"new", "done"} /\ c \notin DOMAIN wire

\* Request::Set<Option>.
Set(o, m) ==
    /\ LateSetters \/ Idle(o)
    /\ m \in This.impl.options \ held[o]
    /\ Cardinality({x \in Objects \X This.impl.options : x[2] \in held[x[1]]}) < MaxSet
    /\ held' = [held EXCEPT ![o] = @ \cup {m}]
    /\ UNCHANGED << class, token, callback, phase, meant, lent, wire, attempts >>

\* SessionMaintainer::Call: the request joins the waiting ones.
Call(c) ==
    /\ phase[c] = "new"
    /\ Overlap \/ Idle(Object[c])
    /\ phase' = [phase EXCEPT ![c] = "waiting"]
    /\ meant' = [meant EXCEPT ![c] = held[Object[c]]]
    /\ UNCHANGED << class, held, token, callback, lent, wire, attempts >>

\* The members that hold the token are static.
SetSessionToken_Static(c, t) ==
    /\ UsesSessionToken
    /\ phase[c] = "waiting"
    /\ t \notin Range(lent)
    /\ Cardinality({d \in Calls : phase[d] = "token"}) < Threads
    /\ token' = [o \in Objects |-> t]
    /\ lent' = [lent EXCEPT ![c] = t]
    /\ phase' = [phase EXCEPT ![c] = "token"]
    /\ UNCHANGED << class, held, callback, meant, wire, attempts >>

\* SessionTokenApiBaseStatic::SetSessionToken, called by AttemptRequests before Init.
SetSessionToken(c, t) ==
    /\ UsesSessionToken
    /\ phase[c] = "waiting"
    /\ t \notin Range(lent)
    /\ Cardinality({d \in Calls : phase[d] = "token"}) < Threads
    /\ token' = [token EXCEPT ![Object[c]] = t]
    /\ lent' = [lent EXCEPT ![c] = t]
    /\ phase' = [phase EXCEPT ![c] = "token"]
    /\ UNCHANGED << class, held, callback, meant, wire, attempts >>

\* The options are forgotten.
Parts_NoOptions(o) == This.post.always

\* Impl::GetPostData: the parts of the body, each with the member it is made of.
Parts(o) ==
    LET always == This.post.always
        whenSet == This.post.whenSet
        set == {p \in DOMAIN whenSet : whenSet[p] \in held[o]}
    IN  [p \in DOMAIN always \cup set |-> IF p \in DOMAIN always THEN always[p] ELSE whenSet[p]]

\* BuildUrl and MakePathAndQuery: the session token is in the URL of a GET.
UrlToken(o) == IF UsesSessionToken /\ This.impl.method = "Get" THEN token[o] ELSE None

\* MakePost: the session token is in the body of a POST, and so is the signature of the
\* token's secret key over the body.
PostToken(o) == IF UsesSessionToken /\ This.impl.method = "Post" THEN token[o] ELSE None

\* RequesterImpl::Init: Url, then the POST data.
Message(o) ==
    [url |-> UrlToken(o), parts |-> Parts(o), post |-> PostToken(o),
     signature |-> [key |-> IF UsesSessionToken THEN token[o] ELSE None, over |-> Parts(o)]]

\* The Impl keeps the first callback it was given.
InitRequest_FirstCallback(c) ==
    /\ phase[c] = IF UsesSessionToken THEN "token" ELSE "waiting"
    /\ attempts[c] < MaxAttempts
    /\ callback' = [callback EXCEPT ![Object[c]] = IF @ = None THEN c ELSE @]
    /\ wire' = [d \in DOMAIN wire \cup {c} |->
                   IF d = c THEN Message(Object[c]) ELSE wire[d]]
    /\ attempts' = [attempts EXCEPT ![c] = @ + 1]
    /\ phase' = [phase EXCEPT ![c] = "sent"]
    /\ UNCHANGED << class, held, token, meant, lent >>

\* SessionMaintainerRequest::Init: another RequesterImpl on the same Impl gets the
\* callback proxy of this call, builds its message and starts the HTTP request.
InitRequest(c) ==
    /\ phase[c] = IF UsesSessionToken THEN "token" ELSE "waiting"
    /\ attempts[c] < MaxAttempts
    /\ callback' = [callback EXCEPT ![Object[c]] = c]
    /\ wire' = [d \in DOMAIN wire \cup {c} |->
                   IF d = c THEN Message(Object[c]) ELSE wire[d]]
    /\ attempts' = [attempts EXCEPT ![c] = @ + 1]
    /\ phase' = [phase EXCEPT ![c] = "sent"]
    /\ UNCHANGED << class, held, token, meant, lent >>

\* ApiBase::HandleContent and HandleError of the attempt of c: the answer goes to
\* callback_, which ends its call or, for some errors of a session token call, puts it
\* back among the waiting ones.
HandleContent(c, next) ==
    /\ c \in DOMAIN wire
    /\ next = "waiting" => UsesSessionToken
    /\ wire' = Restrict(wire, DOMAIN wire \ {c})
    /\ phase' = [phase EXCEPT ![callback[Object[c]]] = next]
    /\ lent' = [lent EXCEPT ![callback[Object[c]]] = None]
    /\ UNCHANGED << class, held, token, callback, meant, attempts >>

Next ==
    \/ \E o \in Objects : \E m \in This.impl.options : Set(o, m)
    \/ \E c \in Calls :
           \/ Call(c)
           \/ \E t \in Tokens : SetSessionToken(c, t)
           \/ InitRequest(c)
           \/ \E next \in {"waiting", "done"} : HandleContent(c, next)

Spec == Init /\ [][Next]_vars
-----------------------------------------------------------------------------
TypeOK ==
    /\ class \in Classes
    /\ held \in [Objects -> SUBSET UNION (This.impl.constructors \cup {This.impl.options})]
    /\ token \in [Objects -> Tokens \cup {None}]
    /\ callback \in [Objects -> Calls \cup {None}]
    /\ phase \in [Calls -> {"new", "waiting", "token", "sent", "done"}]
    /\ lent \in [Calls -> Tokens \cup {None}]
    /\ attempts \in [Calls -> 0 .. MaxAttempts]

\* Every attempt of a call sends what the object held when the call was made: each
\* argument of the constructor and each option that was set, once and under a part of
\* its own, and no option that was not set.
SentAsMeant ==
    \A c \in DOMAIN wire :
        /\ Range(wire[c].parts) = meant[c]
        /\ IsInjective(wire[c].parts)

\* An attempt carries the token it was given, once, signed with the secret key of the
\* same token over the parts that are sent: neither the token of the attempt before nor
\* that of another call.  A call without session token carries none, and the members keep
\* their types.
OwnToken ==
    /\ TypeOK
    /\ \A c \in DOMAIN wire :
          /\ {wire[c].url, wire[c].post} = IF UsesSessionToken THEN {lent[c], None} ELSE {None}
          /\ wire[c].signature = [key |-> lent[c], over |-> wire[c].parts]

\* An answer reaches the call whose HTTP request it answers and no other, although it
\* goes to whatever callback and token the shared Impl holds by then: when a request ends,
\* its call is over or waits for another attempt, its token is free again, and every other
\* call, of the same object or of another, keeps its place and its token.
OwnAnswer ==
    [][\A c \in DOMAIN wire \ DOMAIN wire' :
          /\ phase'[c] \in {"waiting", "done"} /\ lent'[c] = None
          /\ \A d \in Calls \ {c} : phase'[d] = phase[d] /\ lent'[d] = lent[d]]_vars
=============================================================================
