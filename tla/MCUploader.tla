----------------------------- MODULE MCUploader -----------------------------
(* Uploader with two contents of files, for TLC. *)
EXTENDS Uploader

CONSTANTS a, b, c, h1, h2

\* a and b are of the same content, c is of another one.
SameContent == [r \in Requests |-> IF r \in {a, b} THEN h1 ELSE h2]
=============================================================================
