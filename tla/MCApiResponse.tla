--------------------------- MODULE MCApiResponse ----------------------------
(***************************************************************************)
(* Instances of ApiResponse.                                               *)
(***************************************************************************)
EXTENDS ApiResponse

AllClasses == DOMAIN Api

\* Every answer but a failure with the code 0.
Codes == {"none", "set"}
=============================================================================
