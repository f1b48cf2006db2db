---------------------------- MODULE HttpMessages ----------------------------
(***************************************************************************)
(* The incremental HTTP/1.1 parser of the recorder.  It is fed the pieces    *)
(* that reads return, which end anywhere: inside a line, between CR and LF,  *)
(* inside a chunk.                                                           *)
(*                                                                         *)
(* A byte is a string.  CR and LF are bytes of their own; a method, a status,*)
(* a header or a chunk size is one byte, for its value is all that matters.  *)
(* An assertion that fails and an exception that is thrown stop the parser   *)
(* with `thrown` set.                                                        *)
(***************************************************************************)
EXTENDS Integers, SequencesExt

CRLF == <<"CR", "LF">>

ContentLength == [Length0 |-> 0, Length1 |-> 1, Length3 |-> 3]
ChunkSize == [zero |-> 0, one |-> 1, two |-> 2]

Unknown == -1

\* Where a needle starts in a buffer, 0 for npos.
Find(buffer, needle) ==
    LET at == {i \in 1 .. Len(buffer) - Len(needle) + 1 :
                  \A k \in DOMAIN needle : buffer[i + k - 1] = needle[k]}
    IN  IF at = {} THEN 0 ELSE Min(at)

have_complete_line(buffer) == Find(buffer, CRLF) > 0
Line(buffer) == SubSeq(buffer, 1, Find(buffer, CRLF) - 1)
pop_bytes(buffer, n) == SubSeq(buffer, n + 1, Len(buffer))
AfterLine(buffer) == pop_bytes(buffer, Len(Line(buffer)) + 2)

-----------------------------------------------------------------------------
(* Chunked bodies.  The parser keeps its own copy of the bytes it waits to   *)
(* complete, though its caller has already taken them as part of the body.   *)

NewChunkedBodyParser(trailers) ==
    [buffer |-> <<>>, size |-> 0, acked_so_far |-> 0, parsed_so_far |-> 0,
     state |-> "CHUNK_HDR", trailers_enabled |-> trailers, taken |-> 0, thrown |-> FALSE]

npos == -1

\* A read that does not reach the end of the body takes all of its input.
TakeAll(c, input) ==
    [c EXCEPT !.acked_so_far = @ + Len(input), !.taken = npos]

Shrink(c, n, next) ==
    [c EXCEPT !.parsed_so_far = @ + n, !.buffer = pop_bytes(@, n), !.state = next]

compute_ack_size(c, needle, input) ==
    LET loc == Find(c.buffer, needle)
        parsed == c.parsed_so_far + loc - 1 + Len(needle)
    IN  IF loc = 0 THEN TakeAll(c, input)
        ELSE [c EXCEPT !.parsed_so_far = parsed,
                       !.taken = parsed - c.acked_so_far,
                       !.thrown = parsed <= c.acked_so_far]

RECURSIVE ReadChunks(_, _)
ReadChunks(c, input) ==
    LET hdr == Find(c.buffer, CRLF)
        size == ChunkSize[c.buffer[1]]
    IN CASE c.buffer = <<>> -> TakeAll(c, input)
         [] c.buffer # <<>> /\ c.state = "CHUNK_HDR" ->
              IF hdr = 0 THEN TakeAll(c, input)
              ELSE ReadChunks([Shrink(c, hdr + 1, IF size = 0 THEN "TRAILER" ELSE "CHUNK")
                                 EXCEPT !.size = size], input)
         [] c.buffer # <<>> /\ c.state = "CHUNK" ->
              IF Len(c.buffer) < c.size + 2 THEN TakeAll(c, input)
              ELSE IF SubSeq(c.buffer, c.size + 1, c.size + 2) # CRLF
              THEN [c EXCEPT !.thrown = TRUE]
              ELSE ReadChunks(Shrink(c, c.size + 2, "CHUNK_HDR"), input)
         [] c.buffer # <<>> /\ c.state = "TRAILER" ->
              compute_ack_size(c, IF c.trailers_enabled THEN CRLF \o CRLF ELSE CRLF, input)

ChunkedRead(c, input) == ReadChunks([c EXCEPT !.buffer = @ \o input], input)

-----------------------------------------------------------------------------
(* HTTPMessage, HTTPRequest and HTTPResponse                                *)

Request(first_line, headers, body) ==
    [first_line |-> first_line, headers |-> headers, body |-> body]
NoRequest == Request(<<>>, <<>>, <<>>)

\* `kind` is the class of the message; `request` is what a response answers.
NewMessage(kind) ==
    [kind |-> kind, state |-> "FIRST_LINE_PENDING", first_line |-> <<>>, headers |-> <<>>,
     body |-> <<>>, size |-> Unknown, parser |-> "none",
     chunks |-> NewChunkedBodyParser(FALSE), request |-> NoRequest, thrown |-> FALSE]

has_header(m, h) == Contains(m.headers, <<h>>)
Lengths(m) == {h \in DOMAIN ContentLength : has_header(m, h)}

RequestBodyRule(m) ==
    CASE m.first_line[1] \in {"GET", "HEAD"} -> "empty"
      [] m.first_line[1] = "POST" /\ Lengths(m) # {} -> "length"
      [] OTHER -> "unsupported"

ResponseBodyRuleLengthFirst(m) ==
    IF m.first_line[1] \in {"Continue", "NoContent", "NotModified"} THEN "empty"
    ELSE IF Lengths(m) # {} THEN "length"
    ELSE IF has_header(m, "Chunked") THEN "chunked"
    ELSE "eof"

\* The rules of RFC 2616 section 4.4, in their order; multipart/byteranges, the
\* fourth, is not supported and left out.
ResponseBodyRule(m) ==
    IF m.request.first_line[1] = "HEAD"
       \/ m.first_line[1] \in {"Continue", "NoContent", "NotModified"} THEN "empty"
    ELSE IF has_header(m, "Chunked") THEN "chunked"
    ELSE IF Lengths(m) # {} THEN "length"
    ELSE "eof"

calculate_expected_body_size(m) ==
    LET rule == IF m.kind = "request" THEN RequestBodyRule(m) ELSE ResponseBodyRule(m)
    IN  CASE rule = "empty" -> [m EXCEPT !.size = 0]
          [] rule = "length" -> [m EXCEPT !.size = ContentLength[CHOOSE h \in Lengths(m) : TRUE]]
          [] rule = "chunked" -> [m EXCEPT !.parser = "chunked",
                                    !.chunks = NewChunkedBodyParser(has_header(m, "Trailer"))]
          [] rule = "eof" -> [m EXCEPT !.parser = "rule5"]
          [] rule = "unsupported" -> [m EXCEPT !.thrown = TRUE]

done_with_headers(m) == calculate_expected_body_size([m EXCEPT !.state = "BODY_PENDING"])

TakeBody(m, bytes, n) == [m EXCEPT !.body = @ \o SubSeq(bytes, 1, n)]

read_in_complex_body(m, bytes) ==
    LET c == IF m.parser = "chunked" THEN ChunkedRead(m.chunks, bytes)
             ELSE TakeAll(m.chunks, bytes)
        t == [m EXCEPT !.chunks = c, !.thrown = c.thrown]
    IN  IF c.taken = npos THEN TakeBody(t, bytes, Len(bytes))
        ELSE [TakeBody(t, bytes, c.taken) EXCEPT !.state = "COMPLETE"]

read_in_body(m, bytes) ==
    LET n == Min({m.size - Len(m.body), Len(bytes)})
        t == TakeBody(m, bytes, n)
    IN  IF m.size = Unknown THEN read_in_complex_body(m, bytes)
        ELSE IF Len(t.body) = m.size THEN [t EXCEPT !.state = "COMPLETE"] ELSE t

MessageEofOnlyBetweenMessages(m) ==
    IF m.state = "HEADERS_PENDING" THEN [m EXCEPT !.thrown = TRUE] ELSE m

\* The end of the stream completes a body of unknown size, also a chunked one.
MessageEof(m) ==
    CASE m.state = "FIRST_LINE_PENDING" -> m
      [] m.state = "BODY_PENDING" /\ m.parser # "none" -> [m EXCEPT !.state = "COMPLETE"]
      [] OTHER -> [m EXCEPT !.thrown = TRUE]

\* What str() writes and what is saved.
Contents(m) == Request(m.first_line, m.headers, m.body)

str(r) == r.first_line \o CRLF \o FlattenSeq([i \in DOMAIN r.headers |-> r.headers[i] \o CRLF])
          \o CRLF \o r.body

-----------------------------------------------------------------------------
(* HTTPMessageSequence.  A response parser has the queue of the requests     *)
(* that await their response.                                                *)

NewParser(kind) ==
    [buffer |-> <<>>, complete_messages |-> <<>>, message_in_progress |-> NewMessage(kind),
     requests |-> <<>>, thrown |-> FALSE]

initialize_new_message_from_latest(p) ==
    IF p.message_in_progress.kind = "request" THEN p
    ELSE IF p.requests = <<>> THEN [p EXCEPT !.thrown = TRUE]
    ELSE [p EXCEPT !.message_in_progress.request = Last(p.requests), !.requests = Front(@)]

\* A response belongs to the oldest request that has none.
initialize_new_message(p) ==
    IF p.message_in_progress.kind = "request" THEN p
    ELSE IF p.requests = <<>> THEN [p EXCEPT !.thrown = TRUE]
    ELSE [p EXCEPT !.message_in_progress.request = Head(p.requests), !.requests = Tail(@)]

set_first_line(p) ==
    LET q == initialize_new_message(p)
    IN  IF q.thrown THEN q
        ELSE [q EXCEPT !.message_in_progress.first_line = Line(p.buffer),
                       !.message_in_progress.state = "HEADERS_PENDING",
                       !.buffer = AfterLine(@)]

add_header(p) ==
    LET line == Line(p.buffer)
        m == p.message_in_progress
    IN  [p EXCEPT !.buffer = AfterLine(@),
                  !.message_in_progress =
                      IF line = <<>> THEN done_with_headers(m)
                      ELSE [m EXCEPT !.headers = Append(@, line)]]

\* Taking part of the buffer without completing the message would be an error.
AddBody(p) ==
    LET m == read_in_body(p.message_in_progress, p.buffer)
        n == Len(m.body) - Len(p.message_in_progress.body)
    IN  [p EXCEPT !.message_in_progress = m, !.buffer = pop_bytes(@, n),
                  !.thrown = n # Len(p.buffer) /\ m.state # "COMPLETE"]

Complete(p) ==
    [p EXCEPT !.complete_messages = Append(@, p.message_in_progress),
              !.message_in_progress = NewMessage(p.message_in_progress.kind)]

\* parsing_step returns whether to continue: after a piece of body, only if it was
\* the last.
RECURSIVE ParsingSteps(_)
ParsingSteps(p) ==
    LET state == p.message_in_progress.state
        q == AddBody(p)
    IN  CASE p.thrown \/ p.message_in_progress.thrown -> [p EXCEPT !.thrown = TRUE]
          [] state \in {"FIRST_LINE_PENDING", "HEADERS_PENDING"}
             /\ ~have_complete_line(p.buffer) -> p
          [] state = "FIRST_LINE_PENDING" -> ParsingSteps(set_first_line(p))
          [] state = "HEADERS_PENDING" -> ParsingSteps(add_header(p))
          [] state = "BODY_PENDING" ->
               IF q.message_in_progress.state = "COMPLETE" \/ q.thrown
                  \/ q.message_in_progress.thrown
               THEN ParsingSteps(q) ELSE q
          [] state = "COMPLETE" -> ParsingSteps(Complete(p))

\* An empty piece stands for the end of the stream.
parse(p, piece) ==
    ParsingSteps([p EXCEPT !.buffer = @ \o piece,
                           !.message_in_progress = IF piece = <<>> THEN MessageEof(@) ELSE @])

new_request_arrived(p, r) == [p EXCEPT !.requests = Append(@, r)]
pop(p) == [p EXCEPT !.complete_messages = Tail(@)]
front(p) == Contents(Head(p.complete_messages))
=============================================================================
