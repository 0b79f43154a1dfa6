----------------------------- MODULE PinnedRequest -----------------------------
(***************************************************************************)
(* A request of PinnedConnector: connect, perhaps a TLS handshake, send,   *)
(* and read the response with read_http_response, which must find the end  *)
(* of the body by itself; http_get and https_get run it under with_retry,  *)
(* the downloads once.  The server's response is a sequence of bytes that  *)
(* arrives in pieces of any size; the connection may be cut, fail or fall  *)
(* silent at any byte, in each attempt anew.                               *)
(*                                                                         *)
(* A byte is a symbol: "r" and "n" end lines, "0" to "f" are digits (the   *)
(* letters in either case), anything else is text.  A head is its last     *)
(* bytes before the blank line.  What a request without a body or a        *)
(* redirect would add is left out; the request asks to close the           *)
(* connection.                                                             *)
(***************************************************************************)
EXTENDS Naturals, FiniteSets, SequencesExt

CONSTANTS
  Byte,        \* the symbols
  Heads,       \* ends of the response's head, without the blank line
  Bodies,      \* bodies, each the sequence of the chunks it is sent in
  Endings,     \* what may follow the chunks: the last chunk, or anything else
  MaxUsize,    \* the greatest usize
  MaxAttempts  \* RetryConfig.max_attempts

Blank == <<"r", "n", "r", "n">>
LastChunk == <<"0">> \o Blank

-----------------------------------------------------------------------------
(* Lines of a chunked body.                                                *)

\* Where the line at i ends, or Len(d) + 1.
LineEnd(d, i) ==
  IF \E k \in i..Len(d) : d[k] = "r"
  THEN CHOOSE k \in i..Len(d) : d[k] = "r" /\ \A j \in i..(k - 1) : d[j] # "r"
  ELSE Len(d) + 1

Digits == <<"0", "1", "2", "3", "4", "5", "6", "7", "8", "9", "a", "b", "c", "d", "e", "f">>

BeforeExtension(line) ==
  LET semicolon == SelectInSeq(line, LAMBDA c : c = ";")
  IN  IF semicolon = 0 THEN line ELSE SubSeq(line, 1, semicolon - 1)

\* trim: a line feed is white space too.
Trimmed(s) ==
  LET ink == {i \in DOMAIN s : s[i] \notin {" ", "n"}}
  IN  IF ink = {} THEN <<>> ELSE SubSeq(s, Min(ink), Max(ink))

WithoutPlus(s) == IF s # <<>> /\ Head(s) = "+" THEN Tail(s) ELSE s

HexValue(s) == FoldLeft(LAMBDA v, c : 16 * v + (CHOOSE d \in 0..15 : Digits[d + 1] = c), 0, s)

\* The size a line gives.  One that is no number, or more than a usize holds,
\* ends the decoding as 0 does.
SizeOf(line) ==
  LET hex == WithoutPlus(Trimmed(BeforeExtension(line)))
  IN  IF Range(hex) \subseteq Range(Digits) /\ HexValue(hex) \in 1..MaxUsize THEN HexValue(hex) ELSE 0

\* What follows the chunks begins with no line that gives the size of another.
Closes(t) == LineEnd(t, 1) > Len(t) \/ SizeOf(SubSeq(t, 1, LineEnd(t, 1) - 1)) = 0

\* Bytes on the wire and what they stand for.
ChunkOf(c) == c.size \o <<"r", "n">> \o c.data \o <<"r", "n">>
Chunks(cs) == FlattenSeq([i \in DOMAIN cs |-> ChunkOf(cs[i])])
DataOf(cs) == FlattenSeq([i \in DOMAIN cs |-> cs[i].data])

\* A head ends at the first blank line.  A chunk has data, and its line gives
\* their size, in whatever form; all of it fits into memory.
ASSUME RequestAssumption ==
  /\ MaxAttempts \in Nat \ {0}
  /\ MaxUsize \in Nat
  /\ {"r", "n", "x", "0"} \subseteq Byte /\ "panic" \notin Byte
  /\ \A h \in Heads :
       /\ h \in Seq(Byte)
       /\ \A k \in 4..(Len(h) + 3) : SubSeq(h \o Blank, k - 3, k) # Blank
  /\ \A cs \in Bodies :
       /\ cs \in Seq([size : Seq(Byte \ {"r"}), data : Seq(Byte)])
       /\ \A i \in DOMAIN cs : cs[i].data # <<>> /\ SizeOf(cs[i].size) = Len(cs[i].data)
       /\ Len(Chunks(cs)) <= MaxUsize
  /\ Endings \subseteq Seq(Byte)

VARIABLES
  call,     \* [tls, download]: which of the four operations
  resp,     \* the response the server sends
  phase,    \* what the client does next, or how the request ended
  attempt,  \* of with_retry
  error,    \* what the last attempt failed of, "" if it has not
  got,      \* bytes read in this attempt
  cut,      \* history: this attempt's connection ended before the response did
  body      \* the body returned

vars == <<call, resp, phase, attempt, error, got, cut, body>>

\* A body of known length may be followed by bytes that do not belong to it.
Sent(r) ==
  CASE r.framing = "chunked" -> Chunks(r.chunks) \o r.ending
    [] r.framing = "length" -> DataOf(r.chunks) \o <<"x">>
    [] OTHER -> DataOf(r.chunks)
Wire(r) == r.head \o Blank \o Sent(r)
TrueBody(r) == DataOf(r.chunks)

Responses ==
  {r \in [head : Heads, chunks : Bodies, ending : Endings, framing : {"chunked", "length", "close"},
          status : {"success", "other", "garbled"}] :
     r.framing # "chunked" => r.ending = LastChunk}

Buffer == SubSeq(Wire(resp), 1, got)
EndsWith(s, t) == IsSuffix(t, s)

\* The first blank line.
HeaderLen(s) ==
  IF \E k \in 4..Len(s) : SubSeq(s, k - 3, k) = Blank
  THEN CHOOSE k \in 4..Len(s) :
         SubSeq(s, k - 3, k) = Blank /\ \A j \in 4..(k - 1) : SubSeq(s, j - 3, j) # Blank
  ELSE 0

-----------------------------------------------------------------------------
(* decode_chunked                                                          *)

\* Bytes between the end of a chunk and the next size line.
AfterChunk == 2

\* The rest of the data from byte i on, decoded.  It panics when a size line is
\* cut between its two end bytes, and when a chunk's end is no usize: the sum
\* overflows, or comes out before the chunk's start.
Panic == <<"panic">>
DecodeChunked(d) ==
  LET dec[i \in 1..(Len(d) + 1)] ==
        LET e == LineEnd(d, i)
            n == SizeOf(SubSeq(d, i, e - 1))
            next == e + 2 + n + AfterChunk
        IN  IF e > Len(d) \/ n = 0 THEN <<>>
            ELSE IF e + 1 + n > MaxUsize \/ e + 1 > Len(d) THEN Panic
            ELSE IF e + 1 + n > Len(d) THEN SubSeq(d, e + 2, Len(d))
            ELSE SubSeq(d, e + 2, e + 1 + n)
                 \o (IF next > Len(d) THEN <<>> ELSE dec[next])
  IN  dec[1]

-----------------------------------------------------------------------------
(* The attempts.                                                           *)

Init ==
  /\ call \in [tls : BOOLEAN, download : BOOLEAN]
  /\ resp \in Responses
  /\ phase = "connect" /\ attempt = 1 /\ error = "" /\ got = 0 /\ cut = FALSE /\ body = <<>>

Busy == {"connect", "handshake", "send", "read"}
Ended == {"ok", "failed", "panicked"}

Goto(p) == phase' = p /\ UNCHANGED <<call, resp, attempt, error, got, cut, body>>

\* connect_tcp, and for TLS connect_tls.
Connect == phase = "connect" /\ Goto(IF call.tls THEN "handshake" ELSE "send")
Handshake == phase = "handshake" /\ Goto("send")
SendRequest == phase = "send" /\ Goto("read")

\* The errors is_retryable_error calls transient: timeouts and resets of the
\* socket.  Inside the handshake a reset is a TLS error, whose text it does not
\* know; a response without the end of its head is an HTTP error, which it does
\* not repeat.
Retryable(e) == e \in {"timed out", "reset"}

\* with_retry goes round again.  A download is not run under it.
Retries(e) == ~call.download /\ attempt < MaxAttempts /\ Retryable(e)

Fails(e) ==
  /\ error' = e
  /\ phase' = IF Retries(e) THEN "backoff" ELSE "failed"
  /\ UNCHANGED <<call, resp, attempt>>

\* The sleep between two attempts; the next one starts from nothing.
Backoff ==
  /\ phase = "backoff"
  /\ phase' = "connect" /\ attempt' = attempt + 1 /\ got' = 0 /\ cut' = FALSE
  /\ UNCHANGED <<call, resp, error, body>>

\* What can go wrong on the way: a socket error, or an alert or a server name
\* that is none in the handshake.
NetworkFails ==
  /\ phase \in Busy
  /\ \E e \in IF phase = "handshake" THEN {"tls"} ELSE {"reset", "other"} : Fails(e)
  /\ UNCHANGED <<got, cut, body>>

\* Mutant: only the connection is timed.
TimedConnectOnly == {"connect", "handshake"}

\* The phases under a timeout: connect_timeout for each of the first two, one
\* deadline for all reads together.  Sending has none.
Timed == {"connect", "handshake", "read"}

Timeout == phase \in Timed /\ Fails("timed out") /\ UNCHANGED <<got, cut, body>>

\* Mutant: any blank line ends a chunked body.
LooksDoneAtBlank(s) == EndsWith(s, Blank)

\* The test for the end of a chunked body, on the whole buffer.
LooksDone(s) == EndsWith(s, LastChunk)

HasLength(s, h) == Len(s) - h >= Len(TrueBody(resp))

Complete(s) ==
  LET h == HeaderLen(s)
  IN  h # 0 /\ CASE resp.framing = "chunked" -> LooksDone(s)
                 [] resp.framing = "length" -> HasLength(s, h)
                 [] OTHER -> FALSE

\* A body of known length leaves what follows it in the buffer.
Counted(raw) == SubSeq(raw, 1, Min({Len(raw), Len(TrueBody(resp))}))

\* What is returned of the buffer.
BodyOf(s) ==
  LET raw == SubSeq(s, HeaderLen(s) + 1, Len(s))
  IN  CASE resp.framing = "chunked" -> DecodeChunked(raw)
        [] resp.framing = "length" -> Counted(raw)
        [] OTHER -> raw

\* The loop has ended with s in the buffer.  A status line that cannot be read
\* counts as 200; downloads want success, and their error is not repeated.
Finish(s) ==
  \/ /\ HeaderLen(s) = 0
     /\ Fails("http") /\ UNCHANGED body
  \/ /\ HeaderLen(s) # 0 /\ call.download /\ resp.status = "other"
     /\ ~EndsWith(BodyOf(s), Panic)
     /\ Fails("http") /\ UNCHANGED body
  \/ /\ HeaderLen(s) # 0 /\ EndsWith(BodyOf(s), Panic)
     /\ phase' = "panicked" /\ UNCHANGED <<call, resp, attempt, error, body>>
  \/ /\ HeaderLen(s) # 0 /\ ~(call.download /\ resp.status = "other")
     /\ ~EndsWith(BodyOf(s), Panic)
     /\ phase' = "ok" /\ body' = BodyOf(s) /\ UNCHANGED <<call, resp, attempt, error>>

\* A read returns some of the bytes that are there, and the loop goes on or ends.
Read ==
  /\ phase = "read"
  /\ \E more \in 1..(Len(Wire(resp)) - got) :
       LET s == SubSeq(Wire(resp), 1, got + more)
       IN  /\ got' = got + more
           /\ IF Complete(s) THEN Finish(s)
              ELSE UNCHANGED <<call, resp, phase, attempt, error, body>>
  /\ UNCHANGED cut

\* The peer ends the connection, after the response or within it.
ReadEof ==
  /\ phase = "read"
  /\ cut' = (got < Len(Wire(resp)))
  /\ Finish(Buffer)
  /\ UNCHANGED got

\* What the client's own runtime does: timers fire, and a request that fits the
\* socket's buffer is written.
ClientStep == SendRequest \/ Timeout \/ Backoff

Next == ClientStep \/ Connect \/ Handshake \/ Read \/ ReadEof \/ NetworkFails

Spec == Init /\ [][Next]_vars /\ WF_vars(ClientStep)

-----------------------------------------------------------------------------
(* Properties.                                                             *)

TypeOK ==
  /\ phase \in Busy \cup Ended \cup {"backoff"}
  /\ attempt \in 1..MaxAttempts
  /\ got \in 0..Len(Wire(resp)) /\ cut \in BOOLEAN
  /\ error \in {"", "timed out", "reset", "other", "tls", "http"}

\* Some of what was read up to the end of the head or later, without being all,
\* ends like the last chunk.
LooksDoneEarly ==
  /\ resp.framing = "chunked"
  /\ \E k \in (Len(resp.head) + 4)..(Len(Wire(resp)) - 1) : EndsWith(SubSeq(Wire(resp), 1, k), LastChunk)

\* The response has no chunk whose data are not there.
WellSent == resp.framing = "chunked" => Closes(resp.ending)

\* http_get, https_get and the downloads: however the bytes arrive, a response
\* taken for complete while the connection held is the whole body: none ends at
\* a read that happens to stop at a line's end, runs on into the bytes after it
\* or keeps something of an earlier attempt.  A connection cut short, or a part
\* of the response that looks like the last chunk, can only shorten it; and the
\* decoder walks off its data (a panic of the request's task) only in a
\* response cut short.  All but a response that announces a chunk and sends
\* something else: of that the decoder makes what it can, or panics.
BodyIsWhole ==
  WellSent =>
    /\ phase = "ok" =>
         \/ body = TrueBody(resp)
         \/ (cut \/ LooksDoneEarly) /\ IsPrefix(body, TrueBody(resp))
    /\ phase = "panicked" => cut

\* A request ends, however slowly or partially the server answers: each attempt
\* under its timeouts, the attempts under their limit.
RequestEnds == <>(phase \in Ended)
================================================================================
