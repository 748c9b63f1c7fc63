---------------------------- MODULE HttpExchange ----------------------------
(***************************************************************************)
(* What http::HttpRequest promises to the RequestResponseInterface it was  *)
(* given (http/request_response_interface.hpp): redirects come before the  *)
(* header of the response, the header comes once, content only after it,   *)
(* and one answer, an error or the completion, ends every started request. *)
(* The counters are the calls the interface has received; there may be any *)
(* number of redirects and pieces of content, so theirs only alternate.    *)
(***************************************************************************)
EXTENDS Naturals

VARIABLES asked, redirects, headers, content, errors, completes

vars == <<asked, redirects, headers, content, errors, completes>>

Answered == errors + completes > 0

Init ==
    /\ asked = FALSE
    /\ redirects = 0 /\ headers = 0 /\ content = 0
    /\ errors = 0 /\ completes = 0

\* HttpRequest::Start.
Ask ==
    /\ ~asked
    /\ asked' = TRUE
    /\ UNCHANGED <<redirects, headers, content, errors, completes>>

RedirectHeaderReceived ==
    /\ asked /\ headers = 0 /\ ~Answered
    /\ redirects' = 1 - redirects
    /\ UNCHANGED <<asked, headers, content, errors, completes>>

ResponseHeaderReceived ==
    /\ asked /\ headers = 0 /\ ~Answered
    /\ headers' = 1
    /\ UNCHANGED <<asked, redirects, content, errors, completes>>

ResponseContentReceived ==
    /\ headers = 1 /\ ~Answered
    /\ content' = 1 - content
    /\ UNCHANGED <<asked, redirects, headers, errors, completes>>

RequestResponseErrorEvent ==
    /\ asked /\ ~Answered
    /\ errors' = 1
    /\ UNCHANGED <<asked, redirects, headers, content, completes>>

RequestResponseCompleteEvent ==
    /\ headers = 1 /\ ~Answered
    /\ completes' = 1
    /\ UNCHANGED <<asked, redirects, headers, content, errors>>

Answer == RequestResponseErrorEvent \/ RequestResponseCompleteEvent

Next == \/ Ask \/ RedirectHeaderReceived \/ ResponseHeaderReceived
        \/ ResponseContentReceived \/ Answer

\* What may be told, and in which order; and that an answer is told at last.
Order == Init /\ [][Next]_vars

Promise == asked ~> Answered

Spec == Order /\ Promise
=============================================================================
