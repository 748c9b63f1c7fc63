---------------------------- MODULE HttpContent -----------------------------
(***************************************************************************)
(* How the body of an answer is read: http/detail/state_read_content.hpp.  *)
(* One thread runs the work io_service, so that a handler is one step.     *)
(*                                                                         *)
(* The server's bytes are tokens of the wire, each counted as one byte:    *)
(* the bytes of the body, the line with the size of a chunk, the two that  *)
(* end a chunk, and what is left of a size line that was cut off.  `body'  *)
(* is what the server is going to send and how the connection ends then.   *)
(***************************************************************************)
EXTENDS Integers, Sequences, SequencesExt

CONSTANTS
    Bodies,     \* the answers that are tried
    ReadSize    \* kMaxUnknownReadLength

Byte(i) == [t |-> "byte", n |-> i]
SizeLine(n) == [t |-> "size", n |-> n]
CutLine(n) == [t |-> "cut", n |-> n]
BadLine == [t |-> "bad", n |-> 0]
Cr == [t |-> "cr", n |-> 0]
Lf == [t |-> "lf", n |-> 0]

\* What the rest of a buffer holds that was allocated and never written.
Garbage == [t |-> "garbage", n |-> 0]

Token == [t: {"byte", "size", "cut", "bad", "cr", "lf"}, n: Nat]

\* Chunked transfer coding: a size line, so many bytes and the two that end
\* the chunk; the line of size 0 is followed by no more bytes of the body.
InFrame(wire) ==
    \A i \in DOMAIN wire : wire[i].t \in {"size", "cut"} =>
       \A j \in DOMAIN wire :
          j > i /\ (wire[i].n = 0 \/ j <= i + wire[i].n + 2) =>
             (wire[j].t = "byte" <=> j <= i + wire[i].n)

\* Every chunk is there, and after it the next one's size line.
AllChunks(wire) ==
    /\ wire # <<>> /\ wire[1].t = "size"
    /\ \A i \in DOMAIN wire : wire[i].t = "size" /\ wire[i].n # 0 =>
          LET next == i + wire[i].n + 3
          IN  next \in DOMAIN wire /\ wire[next].t = "size"

\* What a server puts on the wire for its framing, and what makes it whole.
WellFramed(b) ==
    IF b.framing = "chunked"
    THEN InFrame(b.wire) /\ (b.whole => AllChunks(b.wire))
    ELSE /\ \A i \in DOMAIN b.wire : b.wire[i].t = "byte"
         /\ b.framing = "length" /\ b.whole => Len(b.wire) = b.length

\* framing: a Content-Length, chunks, or until the connection is closed.
\* encodings: unknown ones are refused, and chunks with a Content-Length.
\* end: the connection is closed, breaks, or stays open.
\* whole: the server sends exactly the body that the framing announces.
ASSUME HttpContentAssumption ==
    /\ ReadSize \in Nat \ {0}
    /\ \A b \in Bodies :
          /\ b.framing \in {"length", "chunked", "close"}
          /\ b.length \in Nat
          /\ b.wire \in Seq(Token)
          /\ b.end \in {"eof", "reset", "open"}
          /\ {b.supported, b.gzip, b.gzip_valid, b.is_ssl, b.whole} \subseteq BOOLEAN
          /\ WellFramed(b)

VARIABLES
    body,       \* the answer
    step,       \* what the state waits for
    buffer,     \* read_buffer
    unread,     \* tokens the socket still has to give
    want,       \* bytes the current read or the next one asks for
    total,      \* total_previously_read, output_bytes_consumed
    early,      \* bytes_previously_transferred of the current read
    chunk,      \* chunk_size
    gzipped,    \* gzipped_buffer, or the read_buffer of a gzipped body
    out         \* the calls of ResponseContentReceived

vars == <<body, step, buffer, unread, want, total, early, chunk, gzipped, out>>

Ended == {"complete", "error"}

TypeOK ==
    /\ body \in Bodies
    /\ step \in {"headers", "read", "read_delay", "size_line", "chunk_delay",
                 "chunk"} \cup Ended
    /\ buffer \in Seq(Token)
    /\ unread \in Seq(Token)
    /\ want \in Nat /\ total \in Nat /\ early \in Nat /\ chunk \in Nat
    /\ gzipped \in Seq(Token)
    /\ \A i \in DOMAIN out : out[i].start \in Nat

-----------------------------------------------------------------------------
(* Reading from the socket *)

Smaller(a, b) == IF a < b THEN a ELSE b

Take(s, n) == SubSeq(s, 1, Smaller(n, Len(s)))
Drop(s, n) == SubSeq(s, n + 1, Len(s))

\* async_read with transfer_exactly(want): so many bytes more, or what there
\* was and the reason why there is no more.
Got == Take(unread, want)

ReadExactly(result) ==
    /\ unread' = Drop(unread, want)
    /\ IF Len(unread) >= want THEN result = "ok" ELSE result = body.end

HasLine(s) == \E i \in DOMAIN s : s[i].t \in {"size", "bad", "lf"}

\* async_read_until a line end: the buffer with a line in it and anything
\* that came after that, or all there was and the end of the connection.
ReadLine(result, all) ==
    \E n \in 0..Len(unread) :
       /\ unread' = Drop(unread, n)
       /\ all = buffer \o Take(unread, n)
       /\ IF HasLine(all) THEN result = "ok" /\ (HasLine(buffer) => n = 0)
          ELSE result = body.end /\ n = Len(unread)

\* dispatch of ResponseContentReceived; pieces without a byte are left out.
Deliver(start, bytes) ==
    out' = IF bytes = <<>> THEN out
           ELSE Append(out, [start |-> start, bytes |-> bytes])

\* A byte of the body, or what the framing adds to it.
Piece(token) == IF token.t = "byte" THEN <<token>> ELSE <<>>

Sent == FlattenSeq([i \in 1..Len(body.wire) |-> Piece(body.wire[i])])

\* What the server sent of the body it announced.
Announced == IF body.framing = "length" THEN Take(Sent, body.length) ELSE Sent

\* The decompressor gives the body when it is valid and nothing is missing.
Unzips(bytes) == body.gzip_valid /\ bytes = Announced

-----------------------------------------------------------------------------
(* A body with a Content-Length, or up to the end of the connection *)

\* ReadContent::on_entry.  Part of the body came with the header.
Enter ==
    /\ step = "headers"
    /\ IF ~body.supported
       THEN step' = "error" /\ UNCHANGED <<want, early>>
       ELSE IF body.framing = "chunked"
       THEN step' = "size_line" /\ UNCHANGED <<want, early>>
       ELSE /\ step' = "read"
            /\ early' = Len(buffer)
            /\ want' = IF body.framing = "length"
                       THEN Smaller(body.length, ReadSize) ELSE ReadSize
    /\ UNCHANGED <<body, buffer, unread, total, chunk, gzipped, out>>

\* Pass the unzipped body on, or fail.
Unzip(bytes) ==
    IF Unzips(bytes)
    THEN Deliver(0, bytes) /\ step' = "complete"
    ELSE step' = "error" /\ UNCHANGED out

\* HandleContentRead, an error other than the end of the connection.
ContentReadFails ==
    /\ step = "read"
    /\ ReadExactly("reset")
    /\ step' = "error"
    /\ UNCHANGED <<body, buffer, want, total, early, chunk, gzipped, out>>

\* A faulty HandleContentRead: the place of a piece, the end of a body and
\* the size of the next read are parameters to go wrong.
FaultyContentRead(start, complete(_, _), next(_)) ==
    /\ step = "read"
    /\ \E result \in {"ok", "eof"} :
          LET all == buffer \o Got
              read == total + early + Len(Got)
          IN  /\ ReadExactly(result)
              /\ total' = read /\ early' = 0 /\ buffer' = <<>>
              /\ Deliver(start, all)
              /\ step' = IF complete(result, read) THEN "complete"
                         ELSE IF body.framing = "length" /\ body.length < read
                         THEN "error" ELSE "read_delay"
              /\ want' = next(read)
    /\ UNCHANGED <<body, chunk, gzipped>>

EndsAt(result, read) ==
    IF body.framing = "length" THEN body.length = read ELSE result = "eof"
NextRead(read) ==
    IF body.framing = "length" /\ body.length >= read
    THEN Smaller(body.length - read, ReadSize) ELSE ReadSize
NoRead(read) == 0
AtEof(result, read) == result = "eof" \/ EndsAt(result, read)

HandleContentRead_AnyEof == FaultyContentRead(total, AtEof, NextRead)
HandleContentRead_Zero == FaultyContentRead(total, EndsAt, NoRead)

\* HandleContentRead: pass the bytes on (a gzipped body is kept), and see
\* whether the body ends here, has more bytes than announced, or goes on.
HandleContentRead ==
    /\ step = "read"
    /\ \E result \in {"ok", "eof"} :
          LET all == buffer \o Got
              read == total + early + Len(Got)
              complete == IF body.framing = "length" THEN body.length = read
                          ELSE result = "eof"
              exceeded == body.framing = "length" /\ body.length < read
          IN  /\ ReadExactly(result)
              /\ total' = read /\ early' = 0 /\ buffer' = <<>>
              /\ gzipped' = IF body.gzip THEN gzipped \o all ELSE gzipped
              /\ IF body.gzip /\ complete THEN Unzip(gzipped')
                 ELSE /\ IF body.gzip THEN UNCHANGED out
                         ELSE Deliver(total, all)
                      /\ step' = IF complete THEN "complete"
                                 ELSE IF exceeded THEN "error"
                                 ELSE "read_delay"
              /\ want' = IF step' # "read_delay" THEN 0
                         ELSE IF body.framing = "length"
                         THEN Smaller(body.length - read, ReadSize)
                         ELSE ReadSize
    /\ UNCHANGED <<body, chunk>>

HandleContentReadDelayCallback ==
    /\ step = "read_delay"
    /\ step' = "read"
    /\ UNCHANGED <<body, buffer, unread, want, total, early, chunk, gzipped, out>>

-----------------------------------------------------------------------------
(* A body in chunks *)

\* HandleContentChunkSizeRead: a size line, or what the end of the
\* connection left of it.  Anything else is an error, and so is the end of
\* the connection under SSL.
HandleContentChunkSizeRead ==
    /\ step = "size_line"
    /\ \E result \in {"ok", "eof", "reset"}, n \in 0..Len(unread) :
          LET all == buffer \o Take(unread, n)
              line == IF all = <<>> THEN BadLine ELSE Head(all)
              bad == \/ result = "reset"
                     \/ result = "eof" /\ body.is_ssl
                     \/ line.t \notin {"size", "cut"}
          IN  /\ ReadLine(result, all)
              /\ buffer' = IF bad THEN all ELSE Tail(all)
              /\ chunk' = IF bad THEN 0 ELSE line.n
              /\ IF ~bad /\ line.n = 0 /\ body.gzip THEN Unzip(gzipped)
                 ELSE /\ step' = IF bad THEN "error"
                                 ELSE IF line.n = 0 THEN "complete"
                                 ELSE "chunk_delay"
                      /\ UNCHANGED out
    /\ UNCHANGED <<body, want, total, early, gzipped>>

\* A faulty HandleNextChunk: the line end of the chunk is not read.
HandleContentChunkSizeReadDelay_NoEnd ==
    /\ step = "chunk_delay"
    /\ step' = "chunk"
    /\ want' = IF Len(buffer) > chunk THEN 0 ELSE chunk - Len(buffer)
    /\ UNCHANGED <<body, buffer, unread, total, early, chunk, gzipped, out>>

\* HandleNextChunk and HandleContentChunkSizeReadDelay: read what the buffer
\* does not hold of the chunk and its line end.
HandleContentChunkSizeReadDelay ==
    /\ step = "chunk_delay"
    /\ step' = "chunk"
    /\ want' = IF Len(buffer) > chunk + 2 THEN 0 ELSE chunk + 2 - Len(buffer)
    /\ UNCHANGED <<body, buffer, unread, total, early, chunk, gzipped, out>>

\* HandleContentChunkRead, an error other than the end of the connection.
ChunkReadFails ==
    /\ step = "chunk"
    /\ ReadExactly("reset")
    /\ step' = "error"
    /\ UNCHANGED <<body, buffer, want, total, early, chunk, gzipped, out>>

\* A faulty HandleContentChunkRead: everything in the buffer is passed on.
HandleContentChunkRead_All ==
    /\ step = "chunk"
    /\ \E result \in {"ok", "eof"} : ReadExactly(result)
    /\ step' = "size_line"
    /\ buffer' = Drop(buffer \o Got, Smaller(chunk + 2, Len(buffer \o Got)))
    /\ total' = total + chunk
    /\ Deliver(total, buffer \o Got)
    /\ UNCHANGED <<body, want, early, chunk, gzipped>>

\* HandleContentChunkRead: the chunk is taken to be there even at the end of
\* the connection, and the two bytes after it are skipped.
HandleContentChunkRead ==
    /\ step = "chunk"
    /\ \E result \in {"ok", "eof"} :
          LET all == buffer \o Got
              got == Take(all, chunk)
              rest == [i \in 1..chunk - Len(got) |-> Garbage]
          IN  /\ ReadExactly(result)
              /\ step' = "size_line"
              /\ buffer' = Drop(all, Smaller(chunk + 2, Len(all)))
              /\ total' = total + chunk
              /\ IF body.gzip
                 THEN gzipped' = gzipped \o got /\ UNCHANGED out
                 ELSE Deliver(total, got \o rest) /\ UNCHANGED gzipped
    /\ UNCHANGED <<body, want, early, chunk>>

-----------------------------------------------------------------------------
(* The specification *)

\* HandleAsyncTimeout: the server is silent and the read times out.
HandleAsyncTimeout ==
    /\ step \in {"read", "chunk", "size_line"}
    /\ body.end = "open"
    /\ step' = "error"
    /\ UNCHANGED <<body, buffer, unread, want, total, early, chunk, gzipped, out>>

Init ==
    /\ body \in Bodies
    /\ step = "headers"
    /\ \E n \in 0..Len(body.wire) :
          buffer = Take(body.wire, n) /\ unread = Drop(body.wire, n)
    /\ want = 0 /\ total = 0 /\ early = 0 /\ chunk = 0
    /\ gzipped = <<>> /\ out = <<>>

Reads ==
    \/ ContentReadFails \/ HandleContentRead
    \/ HandleContentChunkSizeRead \/ ChunkReadFails \/ HandleContentChunkRead

Next ==
    \/ Enter \/ Reads \/ HandleContentReadDelayCallback
    \/ HandleContentChunkSizeReadDelay \/ HandleAsyncTimeout

\* The server sends what it is going to send, or the timer expires.
Spec == Init /\ [][Next]_vars /\ WF_vars(Next)

-----------------------------------------------------------------------------
(* Properties *)

Delivered == FlattenSeq([i \in DOMAIN out |-> out[i].bytes])

\* A request completes only with the whole body the server announced: none
\* of it missing, nothing after it, and a compressed one intact.
CompleteIsWhole ==
    step = "complete" =>
        /\ Delivered = Announced
        /\ body.framing = "length" => Len(Delivered) = body.length

\* "The streamed data from the remote server" and "Where in the response content
\* the buffer starts": the callback is given the start of what the server sent,
\* each piece where the one before it ended.  A chunk that the end of the
\* connection cuts off is the exception: it is filled up with what was in the
\* buffer's memory, after everything the server sent.  No length that is computed
\* on the way is negative (TypeOK).
OnlyServerData ==
    /\ TypeOK
    /\ \A i \in DOMAIN out :
          out[i].start = Len(FlattenSeq([j \in 1..i - 1 |-> out[j].bytes]))
    /\ \/ IsPrefix(Delivered, Sent)
       \/ /\ body.framing = "chunked" /\ body.end = "eof" /\ ~body.whole
          /\ unread = <<>> /\ IsPrefix(Sent, Delivered)

\* A whole body, sent by a server that closes the connection as the request
\* asks it to, is accepted, wherever its bytes were split between reads.
WholeIsAccepted ==
    /\ body.end = "eof" /\ body.whole
    /\ body.supported /\ (body.gzip => body.gzip_valid)
    => step # "error"

\* The connection is closed before the Content-Length is reached.
CutShort ==
    body.framing = "length" /\ body.end = "eof" /\ Len(body.wire) < body.length

\* A body ends in completion or an error, wherever it is cut off and however
\* it is framed.  One that is closed before its Content-Length is the
\* exception: HandleContentRead takes the end of the connection for an empty
\* read and starts the next one, for ever.
Ends == ~CutShort => <>(step \in Ended)
=============================================================================
