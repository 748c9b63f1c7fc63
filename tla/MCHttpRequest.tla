--------------------------- MODULE MCHttpRequest ----------------------------
(* Small instances of HttpRequest for TLC. *)
EXTENDS HttpRequest

Setup(s, p, pol, h, hs) ==
    [scheme |-> s, post |-> p, policy |-> pol, http_proxy |-> h,
     https_proxy |-> hs]

\* A request for each way through the transition table: the first follows
\* redirects between http and https, the others lead through proxies and POSTs.
MCSetups ==
    {Setup("http", "none", "DenyDowngrade", "none", "none"),
     Setup("http", "pipe", "Allow", "login", "none"),
     Setup("https", "buffer", "Deny", "none", "open"),
     Setup("invalid", "none", "Allow", "none", "none"),
     Setup("invalid", "buffer", "Allow", "none", "none")}

MCTimeouts == {1, 2}
=============================================================================
