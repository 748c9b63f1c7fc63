------------------------------ MODULE ApiSteps ------------------------------
(***************************************************************************)
(* The vocabulary in which the generated API classes are written down      *)
(* (src/mediafire_sdk/api/<group>/<call>/<version>.{hpp,cpp}).  Every class *)
(* is produced from templates/api_template.cpp and consists of the same    *)
(* four pieces, which are tables here:                                     *)
(*                                                                         *)
(*   <class>_<Struct>   the extractor <Struct>FromPropertyBranch, a         *)
(*                      sequence of steps over the members of one struct;  *)
(*   <class>_Parse      Impl::ParseResponse, a sequence of steps over the  *)
(*                      members of Response;                               *)
(*   <class>_Response   what the header declares: the members of Response  *)
(*                      and of its structs;                                *)
(*   <class>_Impl       class Impl, its constructors, its base and method; *)
(*   <class>_Post       Impl::GetPostData and the setters of Request.      *)
(*                                                                         *)
(* A step names the member it sets.  The path in the JSON text, the type a *)
(* value is converted to and the strings of an enum are left out: what a   *)
(* step tells apart is whether its value can be had.                       *)
(***************************************************************************)
EXTENDS Sequences

LOCAL Leaves(kind, members) ==
    [i \in DOMAIN members |-> [kind |-> kind, member |-> members[i], type |-> ""]]

LOCAL Branch(kind, member, type) ==
    << [kind |-> kind, member |-> member, type |-> type] >>

\* value->x = default; at the start of the function.
Preset(members) == Leaves("preset", members)

\* if ( ! GetIfExists(pt, path, &value->x) ) return_error(ContentInvalidData, ..)
Req(members) == Leaves("req", members)

\* The same with GetIfExistsArrayFront: the first value of an array.
Front(members) == Leaves("req", members)

\* { T optarg; if ( GetIfExists(.., &optarg) ) value->x = optarg; }
Opt(members) == Leaves("opt", members)

\* GetIfExists(pt, path, &value->x); without a test of the result.
Def(members) == Leaves("opt", members)

\* An enum whose absence, and whose unknown value, is return_error.
Enum(members) == Leaves("req", members)

\* An enum whose absence or unknown value leaves the member as it is.
OptEnum(members) == Leaves("opt", members)

\* Values pushed one by one; an empty branch, a bad value and a missing branch
\* are return_error.
List(members) == Leaves("list", members)

\* Values pushed one by one until the first bad one: break.
OptList(members) == Leaves("optlist", members)

\* A branch given to an extractor; false and a missing branch are return_error.
Struct(member, type) == Branch("struct", member, type)

\* A branch given to an extractor; false and a missing branch leave it unset.
OptStruct(member, type) == Branch("optstruct", member, type)

\* Elements given to an extractor one by one; on false ParseResponse returns as
\* it is.  A missing branch is return_error.
Array(member, type) == Branch("array", member, type)

\* Elements given to an extractor one by one, the ones that fail are skipped.  A
\* missing branch is ignored.
OptArray(member, type) == Branch("optarray", member, type)

\* The members a struct declares: those that are neither boost::optional nor a
\* std::vector, the optional ones, the vectors.
Members(plain, optional, vector) ==
    [plain |-> plain, optional |-> optional, vector |-> vector]

\* class Impl: its base, its GetRequestMethod, the arguments of each of its
\* constructors, its optional members.
Impl(base, method, constructors, options) ==
    [base |-> base, method |-> method, constructors |-> constructors, options |-> options]

\* GetPostData: parts[p] = the member it is made of, for the parts that are
\* always there and for the parts that are there when the member is set; each of
\* the latter members has a setter in Request.  Same: part and member have the
\* same name.
Post(always, whenSet) == [always |-> always, whenSet |-> whenSet]
Same(members) == [x \in members |-> x]

\* Response and its structs, with their steps.
Class(steps, members, impl, post) ==
    [steps |-> steps, members |-> members, impl |-> impl, post |-> post]
=============================================================================
