---------------------------- MODULE ApiResponse -----------------------------
(***************************************************************************)
(* How an API class turns an HTTP answer into the Response it gives to its *)
(* callback: ApiBase::HandleContent and HandleError (detail/api_base.hpp), *)
(* ResponseBase::InitializeWithContent (response_base.cpp) and the         *)
(* ParseResponse and extractor functions of the class, interpreted step by *)
(* step from the tables of ApiClasses.                                     *)
(*                                                                         *)
(* The answer of the server is revealed as it is read: every step chooses  *)
(* whether its value can be had, within a bound on what one answer lacks.  *)
(***************************************************************************)
EXTENDS ApiClasses, Naturals, FiniteSets, Functions

CONSTANTS
    Classes,      \* names of the API classes that are called
    ErrorFields,  \* what "response.error" may hold: subset of {"none", "zero", "set"}
    MaxLacking,   \* bound: members that one answer lacks
    MaxElements   \* bound: elements of one array

ASSUME ApiResponseAssumption ==
    /\ Classes \subseteq DOMAIN Api
    /\ ErrorFields \subseteq {"none", "zero", "set"}
    /\ MaxLacking \in Nat
    /\ MaxElements \in Nat \ {0}

\* How the tables of every class hang together.  A step sets a declared member; a branch
\* goes to the extractor of a struct, and only ParseResponse reads arrays of structs.  A
\* member whose absence is an error is neither optional nor given a default.  A member
\* that is neither optional nor a vector is set by a step that does not pass without it.
ASSUME TablesAssumption ==
    \A k \in Classes :
        /\ "Response" \in DOMAIN Api[k].steps
        /\ \A t \in DOMAIN Api[k].steps :
               LET steps == Api[k].steps[t]
                   declared == Api[k].members[t]
                   defaults == {s.member : s \in {s \in Range(steps) : s.kind = "preset"}}
               IN  /\ steps \in Seq([kind : STRING, member : STRING, type : STRING])
                   /\ \A s \in Range(steps) :
                          /\ s.member \in declared.plain \cup declared.optional \cup declared.vector
                          /\ s.kind \in {"struct", "optstruct", "array", "optarray"} =>
                                s.type \in DOMAIN Api[k].steps \ {"Response"}
                          /\ s.kind \in {"array", "optarray"} => t = "Response"
                          /\ s.kind \in {"req", "struct", "list", "array"} =>
                                s.member \notin declared.optional \cup defaults
                   /\ declared.plain \subseteq
                         {s.member : s \in {s \in Range(steps) :
                                        s.kind \in {"preset", "req", "struct", "list", "array"}}}

VARIABLES
    class,     \* the class that is called
    phase,     \* "asked", "parsing" or "called" (callback_ has been called)
    refused,   \* the answer reports a failure: no HTTP answer, a bad status, no success
    lacking,   \* <<struct, member>> whose value the answer does not hold
    offered,   \* elements and values the answer holds in its arrays
    pushed,    \* elements and values that were pushed into vectors
    error,     \* response.error_code, "none" when it tests false
    frames,    \* the functions being run, ParseResponse first
    returned,  \* what the extractor that has just ended returned
    value,     \* the members that the function that has just ended has written
    kept       \* structs that were moved into the response, as the members they have

vars == << class, phase, refused, lacking, offered, pushed, error, frames, returned, value,
           kept >>

\* A function at work on one struct: its next step, the members it has written and,
\* in an array (begun), the elements that are still to be read.
Frame(type) == [type |-> type, pos |-> 1, written |-> {}, begun |-> FALSE, left |-> << >>]

Top == frames[Len(frames)]
Steps(type) == Api[class].steps[type]
Running == phase = "parsing" /\ frames # << >> /\ returned = "none"
Step == Steps(Top.type)[Top.pos]
At(kinds) == Top.pos <= Len(Steps(Top.type)) /\ Step.kind \in kinds

\* The extractor at the top has come back to the step that called it.
Back(kinds) == phase = "parsing" /\ returned # "none" /\ At(kinds)

Init ==
    /\ class \in Classes
    /\ phase = "asked"
    /\ refused = FALSE
    /\ lacking = {}
    /\ offered = 0
    /\ pushed = 0
    /\ error = "none"
    /\ frames = << >>
    /\ returned = "none"
    /\ value = {}
    /\ kept = {}
-----------------------------------------------------------------------------
\* A ResponseType of its own for every answer: a retried request starts anew.
FreshResponse ==
    /\ phase \in {"asked", "called"}
    /\ lacking' = {}
    /\ offered' = 0
    /\ pushed' = 0
    /\ returned' = "none"
    /\ value' = {}
    /\ kept' = {}
    /\ UNCHANGED class

\* ApiBase::HandleError: the request has failed below the API.
HandleError ==
    /\ FreshResponse
    /\ refused' = TRUE
    /\ error' = "Http"
    /\ frames' = << >>
    /\ phase' = "called"

\* error_code of an answer with a "response.error" field f, or with the code other
\* when there is none.  std::error_code(0, result_category()) tests false.
ApiCode(f, other) ==
    CASE f = "none" -> other
      [] f = "zero" -> "none"
      [] f = "set" -> "Api"

\* Trusts that every failure has a status other than 200.
InitializeWithContent_StatusOnly(parses, ok, success, f) ==
    CASE ~ok /\ ~parses -> "HttpStatus"
      [] ~ok /\ parses -> ApiCode(f, "HttpStatus")
      [] ok /\ ~parses -> "ContentInvalidFormat"
      [] ok /\ parses -> "none"

\* ResponseBase::InitializeWithContent: error_code from the JSON text (parses), the
\* HTTP status (ok), "response.result" (success) and "response.error" (f).
InitializeWithContent(parses, ok, success, f) ==
    CASE ~ok /\ ~parses -> "HttpStatus"
      [] ~ok /\ parses -> ApiCode(f, "HttpStatus")
      [] ok /\ ~parses -> "ContentInvalidFormat"
      [] ok /\ parses /\ ~success -> ApiCode(f, "UnknownApiError")
      [] ok /\ parses /\ success -> "none"

\* ApiBase::HandleContent up to ParseResponse, which is run when there is no error;
\* otherwise the callback is called at once.
HandleContent ==
    /\ FreshResponse
    /\ \E parses, ok, success \in BOOLEAN, f \in ErrorFields :
           /\ refused' = (~parses \/ ~ok \/ ~success)
           /\ error' = InitializeWithContent(parses, ok, success, f)
    /\ IF error' = "none"
       THEN phase' = "parsing" /\ frames' = << Frame("Response") >>
       ELSE phase' = "called" /\ frames' = << >>

\* ApiBase::HandleContent after ParseResponse.
CallCallback ==
    /\ phase = "parsing"
    /\ frames = << >>
    /\ phase' = "called"
    /\ UNCHANGED << class, refused, lacking, offered, pushed, error, frames, returned,
                    value, kept >>
-----------------------------------------------------------------------------
\* The answer lacks the value of the member that is being read.
Lack ==
    /\ lacking' = lacking \cup {<< Top.type, Step.member >>}
    /\ Cardinality(lacking') <= MaxLacking

\* The function f at its next step, with members written.
Advanced(f, members) ==
    [f EXCEPT !.pos = @ + 1, !.written = @ \cup members, !.begun = FALSE, !.left = << >>]

Advance(members) == frames' = [frames EXCEPT ![Len(frames)] = Advanced(@, members)]

\* The function at the top returns; ParseResponse has no result.
Return(result) ==
    /\ frames' = SubSeq(frames, 1, Len(frames) - 1)
    /\ returned' = IF Len(frames) = 1 THEN "none" ELSE result
    /\ value' = Top.written

\* The extractor is called with a fresh optarg and returns false at once, without an
\* error: the branch is empty.
EmptyBranch == returned' = "false" /\ value' = {} /\ UNCHANGED frames

\* return_error(ContentInvalidData, ..): SetError, and return false from an extractor.
ReturnError == error' = "ContentInvalidData" /\ Return("false")

\* Called by a step of another function: the arguments are the elements offered to it.
Extract(type) == frames' = Append(frames, Frame(type))
-----------------------------------------------------------------------------
WritePreset ==
    /\ Running /\ At({"preset"})
    /\ Advance({Step.member})
    /\ UNCHANGED << class, phase, refused, lacking, offered, pushed, error, returned, value, kept >>

\* GetIfExists finds the value, of a required or of an optional member.
Read ==
    /\ Running /\ At({"req", "opt"})
    /\ Advance({Step.member})
    /\ UNCHANGED << class, phase, refused, lacking, offered, pushed, error, returned, value, kept >>

\* The result of GetIfExists is not tested.
LackRequired_Ignored ==
    /\ Running /\ At({"req"})
    /\ Lack
    /\ Advance({})
    /\ UNCHANGED << class, phase, refused, offered, pushed, error, returned, value, kept >>

LackRequired ==
    /\ Running /\ At({"req"})
    /\ Lack
    /\ ReturnError
    /\ UNCHANGED << class, phase, refused, offered, pushed, kept >>

LackOptional ==
    /\ Running /\ At({"opt"})
    /\ Lack
    /\ Advance({})
    /\ UNCHANGED << class, phase, refused, offered, pushed, error, returned, value, kept >>

\* The branch of a vector or a required struct is not there.
LackRequiredBranch ==
    /\ Running /\ At({"struct", "array", "list"}) /\ ~Top.begun
    /\ Lack
    /\ ReturnError
    /\ UNCHANGED << class, phase, refused, offered, pushed, kept >>

LackOptionalBranch ==
    /\ Running /\ At({"optstruct", "optarray", "optlist"}) /\ ~Top.begun
    /\ Lack
    /\ Advance({})
    /\ UNCHANGED << class, phase, refused, offered, pushed, error, returned, value, kept >>
-----------------------------------------------------------------------------
\* A list of n values of which the bad-th cannot be had (n + 1: none is bad).
Values(n, bad) ==
    /\ IF bad <= n \/ n = 0 THEN Lack ELSE UNCHANGED lacking
    /\ offered' = offered + (IF bad <= n THEN n - 1 ELSE n)

\* An empty list is an error, and so is a bad value.
ReadList ==
    /\ Running /\ At({"list"})
    /\ \E n \in 0 .. MaxElements : \E bad \in 1 .. n + 1 :
           /\ Values(n, bad)
           /\ pushed' = pushed + bad - 1
           /\ IF n = 0 \/ bad <= n
              THEN ReturnError
              ELSE Advance({Step.member}) /\ UNCHANGED << error, returned, value >>
    /\ UNCHANGED << class, phase, refused, kept >>

\* A bad value ends the loop.
ReadOptList ==
    /\ Running /\ At({"optlist"})
    /\ \E n \in 0 .. MaxElements : \E bad \in 1 .. n + 1 :
           /\ Values(n, bad)
           /\ pushed' = pushed + bad - 1
    /\ Advance({Step.member})
    /\ UNCHANGED << class, phase, refused, error, returned, value, kept >>
-----------------------------------------------------------------------------
\* The branch of a struct goes to its extractor, which returns false without an error
\* when the branch is empty.
OpenStruct ==
    /\ Running /\ At({"struct", "optstruct"})
    /\ \/ Extract(Step.type) /\ UNCHANGED << lacking, returned, value >>
       \/ Lack /\ EmptyBranch
    /\ UNCHANGED << class, phase, refused, offered, pushed, error, kept >>

\* The elements of an array go to the extractor one by one.
OpenArray ==
    /\ Running /\ At({"array", "optarray"}) /\ ~Top.begun
    /\ \E n \in 0 .. MaxElements : \E left \in [1 .. n -> {"object", "empty"}] :
           /\ frames' = [frames EXCEPT ![Len(frames)] = [@ EXCEPT !.begun = TRUE, !.left = left]]
           /\ IF \E i \in 1 .. n : left[i] = "empty" THEN Lack ELSE UNCHANGED lacking
           /\ offered' = offered + Cardinality({i \in 1 .. n : left[i] = "object"})
    /\ UNCHANGED << class, phase, refused, pushed, error, returned, value, kept >>

OpenElement ==
    /\ Running /\ At({"array", "optarray"}) /\ Top.begun /\ Top.left # << >>
    /\ IF Head(Top.left) = "object"
       THEN Extract(Step.type) /\ UNCHANGED << returned, value >>
       ELSE EmptyBranch
    /\ UNCHANGED << class, phase, refused, lacking, offered, pushed, error, kept >>

ArrayEnds ==
    /\ Running /\ At({"array", "optarray"}) /\ Top.begun /\ Top.left = << >>
    /\ Advance({Step.member})
    /\ UNCHANGED << class, phase, refused, lacking, offered, pushed, error, returned, value, kept >>

\* return true, and the end of ParseResponse.
FunctionEnds ==
    /\ Running
    /\ Top.pos > Len(Steps(Top.type))
    /\ Return("true")
    /\ UNCHANGED << class, phase, refused, lacking, offered, pushed, error, kept >>
-----------------------------------------------------------------------------
\* std::move(optarg) into the response.
Keep == kept' = kept \cup {[type |-> Step.type, members |-> value]}

CloseStruct ==
    /\ Back({"struct"})
    /\ \/ /\ returned = "true"
          /\ Advance({Step.member})
          /\ Keep
          /\ returned' = "none"
          /\ value' = {}
          /\ UNCHANGED error
       \/ /\ returned = "false"
          /\ ReturnError
          /\ UNCHANGED kept
    /\ UNCHANGED << class, phase, refused, lacking, offered, pushed >>

CloseOptStruct ==
    /\ Back({"optstruct"})
    /\ \/ returned = "true" /\ Advance({Step.member}) /\ Keep
       \/ returned = "false" /\ Advance({}) /\ UNCHANGED kept
    /\ returned' = "none"
    /\ value' = {}
    /\ UNCHANGED << class, phase, refused, lacking, offered, pushed, error >>

\* On to the element after this one.
NextElement ==
    /\ frames' = [frames EXCEPT ![Len(frames)].left = Tail(@)]
    /\ returned' = "none"
    /\ value' = {}

Push == pushed' = pushed + 1 /\ Keep

\* push_back(std::move(optarg)); else return;
CloseElement ==
    /\ Back({"array"})
    /\ \/ returned = "true" /\ Push /\ NextElement
       \/ returned = "false" /\ Return("none") /\ UNCHANGED << pushed, kept >>
    /\ UNCHANGED << class, phase, refused, lacking, offered, error >>

\* An element that fails ends the loop.
CloseOptElement_Break ==
    /\ Back({"optarray"})
    /\ \/ returned = "true" /\ Push /\ NextElement
       \/ /\ returned = "false"
          /\ Advance({Step.member})
          /\ returned' = "none"
          /\ value' = {}
          /\ UNCHANGED << pushed, kept >>
    /\ UNCHANGED << class, phase, refused, lacking, offered, error >>

\* push_back(std::move(optarg)); an element whose extractor fails is left out.
CloseOptElement ==
    /\ Back({"optarray"})
    /\ \/ returned = "true" /\ Push
       \/ returned = "false" /\ UNCHANGED << pushed, kept >>
    /\ NextElement
    /\ UNCHANGED << class, phase, refused, lacking, offered, error >>

Parse ==
    \/ WritePreset \/ Read \/ LackRequired \/ LackOptional
    \/ LackRequiredBranch \/ LackOptionalBranch
    \/ ReadList \/ ReadOptList
    \/ OpenStruct \/ OpenArray \/ OpenElement \/ ArrayEnds \/ FunctionEnds
    \/ CloseStruct \/ CloseOptStruct \/ CloseElement \/ CloseOptElement

Next == HandleError \/ HandleContent \/ Parse \/ CallCallback

Spec == Init /\ [][Next]_vars
-----------------------------------------------------------------------------
Declared(type) == Api[class].members[type]

TypeOK ==
    /\ class \in Classes
    /\ phase \in {"asked", "parsing", "called"}
    /\ refused \in BOOLEAN
    /\ \A l \in lacking : l[2] \in UNION {Declared(l[1])[k] : k \in {"plain", "optional", "vector"}}
    /\ offered \in Nat
    /\ pushed \in 0 .. offered
    /\ error \in {"none", "Http", "HttpStatus", "Api", "UnknownApiError",
                  "ContentInvalidFormat", "ContentInvalidData"}
    /\ returned \in {"none", "true", "false"}
    /\ \A i \in 1 .. Len(frames) :
           /\ frames[i].pos \in 1 .. Len(Steps(frames[i].type)) + 1
           /\ Len(frames[i].left) <= MaxElements
    /\ \A k \in kept : k.type \in DOMAIN Api[class].steps

Succeeded == phase = "called" /\ error = "none"

\* The answer lacks something in a member that is read by a step of one of these kinds.
LacksIn(kinds) ==
    \E l \in lacking : \E i \in DOMAIN Steps(l[1]) :
        Steps(l[1])[i].member = l[2] /\ Steps(l[1])[i].kind \in kinds

\* The callback is never given members that nobody has written: a Response without an
\* error_code holds a value in every member that the header does not declare
\* boost::optional, whatever the answer lacks, and a struct in a Response is whole, even
\* beside an error_code: an element whose extractor has stopped half way is not pushed.
\* An empty element of a required array is the exception: ParseResponse returns there
\* without an error.
NoGarbage ==
    /\ Succeeded /\ ~LacksIn({"array"}) => Declared("Response").plain \subseteq value
    /\ \A k \in kept : Declared(k.type).plain \subseteq k.members

\* A Response without an error_code has all elements and values of the arrays of the
\* answer: one that is empty does not take the ones after it with it.  Two kinds of loop
\* are the exception: the one over a required array returns at an empty element, the one
\* over an optional list breaks at a value that cannot be read.  Nothing is added that the
\* answer does not have (TypeOK).
NothingLost ==
    /\ TypeOK
    /\ Succeeded /\ ~LacksIn({"array", "optlist"}) => pushed = offered

\* The members the header declares optional, and those that ParseResponse or the
\* extractor gives a default.
Dispensable(type) ==
    Declared(type).optional \cup {s.member : s \in {s \in Range(Steps(type)) : s.kind = "preset"}}

\* error_code tells neither too little nor too much.  An answer that reports a failure
\* reaches the callback as an error: neither the HTTP status nor "response.result" alone
\* is trusted.  An answer that lacks dispensable members only is accepted and complete.
FailureReported ==
    phase = "called" =>
        /\ refused => error # "none"
        /\ ~refused /\ (\A l \in lacking : l[2] \in Dispensable(l[1])) =>
              error = "none" /\ Declared("Response").plain \subseteq value
=============================================================================
