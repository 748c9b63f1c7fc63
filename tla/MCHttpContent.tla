--------------------------- MODULE MCHttpContent ----------------------------
(* Small instances of HttpContent for TLC. *)
EXTENDS HttpContent

Bytes(n) == [i \in 1..n |-> Byte(i)]

Body(framing, length, wire, end, gzip, is_ssl, whole) ==
    [framing |-> framing, length |-> length, wire |-> wire, end |-> end,
     supported |-> TRUE, gzip |-> gzip, gzip_valid |-> TRUE,
     is_ssl |-> is_ssl, whole |-> whole]

\* Bodies of up to four bytes with any Content-Length up to four, and
\* without one.
Plain ==
    {Body("length", k, Bytes(n), e, g, FALSE, n = k) :
        k \in 0..4, n \in 0..4, e \in {"eof", "reset", "open"}, g \in BOOLEAN}
    \cup
    {Body("close", 0, Bytes(n), e, g, FALSE, TRUE) :
        n \in 0..4, e \in {"eof", "reset", "open"}, g \in BOOLEAN}

\* One chunk of two bytes and one of one, with the chunk that ends them.
Chunks == <<SizeLine(2), Byte(1), Byte(2), Cr, Lf,
            SizeLine(1), Byte(3), Cr, Lf, SizeLine(0), Cr, Lf>>

\* The chunks, cut off after n bytes; a size line may itself be cut.
CutAfter(n) ==
    {SubSeq(Chunks, 1, n)}
    \cup (IF n < Len(Chunks) /\ Chunks[n + 1].t = "size"
          THEN {Append(SubSeq(Chunks, 1, n), CutLine(1)),
                Append(SubSeq(Chunks, 1, n), BadLine)}
          ELSE {})

InChunks ==
    {Body("chunked", 0, w, e, g, s, IsPrefix(SubSeq(Chunks, 1, Len(Chunks) - 2), w)) :
        w \in UNION {CutAfter(n) : n \in 0..Len(Chunks)},
        e \in {"eof", "reset", "open"}, g \in BOOLEAN, s \in BOOLEAN}

Odd ==
    {[b EXCEPT !.supported = FALSE] : b \in {x \in Plain : x.whole}}
    \cup {[b EXCEPT !.gzip_valid = FALSE] : b \in {x \in Plain : x.gzip}}

MCBodies == Plain \cup InChunks \cup Odd
=============================================================================
