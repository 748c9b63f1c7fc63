---------------------------- MODULE MCApiRequest ----------------------------
(***************************************************************************)
(* Instances of ApiRequest: two calls made in turn with one object, and a  *)
(* third with another.                                                     *)
(***************************************************************************)
EXTENDS ApiRequest, TLC

CONSTANTS o1, o2, c1, c2, c3, t1, t2

TwoObjects == {o1, o2}
ThreeCalls == {c1, c2, c3}
TwoTokens == {t1, t2}
InTurn == c1 :> o1 @@ c2 :> o1 @@ c3 :> o2

AllClasses == DOMAIN Api
=============================================================================
