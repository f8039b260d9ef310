------------------------------ MODULE Request -------------------------------
(***************************************************************************)
(* How the proxy takes a request (src/src/toolchain/http.rs, auth.rs and   *)
(* the first half of proxy.rs:handle_connection): it reads it from a       *)
(* connection that delivers it in pieces of any size, and then checks it,  *)
(* one check after the other, up to the first that fails.                  *)
(*                                                                         *)
(* What is on the wire is a sequence of tokens: a header line, the one     *)
(* that gives the framing ("chunked" or "length"), a chunk size, a unit of *)
(* the payload, and CR and LF, which a read may separate.                  *)
(***************************************************************************)
EXTENDS Naturals, Sequences, SequencesExt, FiniteSetsExt

CONSTANTS
  HdrCap,     (* HDR_CAP, in tokens                                          *)
  LineCap,    (* the number of header lines that is allowed                  *)
  BodyCap,    (* BODY_CAP, in units of the payload                           *)
  ReadCap     (* how much a read brings at most; never more than BodyCap     *)

(* A read brings 1024 bytes at most, or 8 KiB, and BODY_CAP is 1 MiB.       *)
ASSUME RequestAssumption ==
  /\ HdrCap \in Nat /\ LineCap \in Nat /\ BodyCap \in Nat
  /\ ReadCap \in 1..BodyCap

Units == <<"a", "b", "c", "d">>
Sizes == <<"0", "1", "2", "3", "4">>
MaxSize == Len(Units)
SizeOf(t) == CHOOSE n \in 0..MaxSize : Sizes[n + 1] = t
Piece == {"line", "chunked", "length", "cr", "lf"} \cup Range(Units) \cup Range(Sizes)

VARIABLES
  sent,       (* the request as its sender made it                           *)
  rest,       (* what the reader has not got of it                           *)
  rpc,        (* where the reader is                                         *)
  rbuf,       (* what it has got and not looked at                           *)
  body,       (* the body as far as it has been read                         *)
  need,       (* how much of a chunk or of the body is to come               *)
  verdict     (* the endpoint the request goes to, or why it is refused      *)

reading == <<rest, rpc, rbuf, body, need>>
reqVars == <<sent, reading, verdict>>

-----------------------------------------------------------------------------
(* Requests as they are sent: the native client sends tools' requests in    *)
(* chunks, everything else comes with a length.  Its sender may stop        *)
(* anywhere: it is killed, or takes longer than the read timeout.           *)

Payload(s) == SubSeq(Units, 1, s.size)

(* The sizes of the chunks of a payload.                                    *)
Chunkings(n) == {c \in UNION {[1..k -> 1..n] : k \in 0..n} :
                   FoldLeft(LAMBDA x, y : x + y, 0, c) = n}

Chunk(s, i) ==
  LET before == FoldLeft(LAMBDA x, y : x + y, 0, SubSeq(s.chunks, 1, i - 1))
  IN <<Sizes[s.chunks[i] + 1]>> \o s.eol
       \o SubSeq(Units, before + 1, before + s.chunks[i]) \o s.eol

Headers(s) == FlattenSeq([i \in 1..s.lines |-> <<"line">> \o s.eol])
                \o <<s.framing>> \o s.eol \o s.eol

Wire(s) ==
  Headers(s) \o
  (IF s.framing = "length" THEN Payload(s)
   ELSE FlattenSeq([i \in 1..Len(s.chunks) |-> Chunk(s, i)]) \o <<"0">> \o s.eol \o s.eol)

Requests(framing, lines) ==
  {s \in [framing: {framing}, eol: {<<"cr", "lf">>, <<"lf">>}, lines: 1..lines, size: 0..MaxSize,
          chunks: UNION {Chunkings(n) : n \in 0..MaxSize}] :
     s.chunks \in IF framing = "length" THEN {<<>>} ELSE Chunkings(s.size)}

Nothing == [framing |-> "length", eol |-> <<"lf">>, lines |-> 0, size |-> 0,
            chunks |-> <<>>, whole |-> FALSE]

ReqInit ==
  /\ sent = Nothing
  /\ rest = <<>> /\ rbuf = <<>> /\ body = <<>>
  /\ rpc = "idle"
  /\ need = 0
  /\ verdict = "none"

(* A connection is accepted; its sender gets n tokens of the request out.   *)
Accept(s, n) ==
  /\ rpc = "idle"
  /\ n <= Len(Wire(s))
  /\ sent' = [framing |-> s.framing, eol |-> s.eol, lines |-> s.lines, size |-> s.size,
              chunks |-> s.chunks, whole |-> n = Len(Wire(s))]
  /\ rest' = SubSeq(Wire(s), 1, n)
  /\ rpc' = "headers"
  /\ UNCHANGED <<rbuf, body, need, verdict>>

-----------------------------------------------------------------------------
(* The reader.                                                             *)

Pieces == 1..Min({ReadCap, Len(rest)})

Refused(status) == /\ rpc' = "refused"
                   /\ verdict' = status

(* Nothing more will come.  A sender that waits for its answer has not      *)
(* closed the connection: then the reader would wait for ever.              *)
AtEnd == rest = <<>> /\ ~sent.whole

GetMore ==
  /\ \E n \in Pieces : /\ rbuf' = rbuf \o SubSeq(rest, 1, n)
                       /\ rest' = SubSeq(rest, n + 1, Len(rest))
  /\ UNCHANGED <<sent, rpc, body, need, verdict>>

Ends(text, mark) == {i \in 1..(Len(text) - Len(mark) + 1) :
                       SubSeq(text, i, i + Len(mark) - 1) = mark}

CRLF == <<"cr", "lf">>
LF == <<"lf">>

(* The first CRLFCRLF, or else the first LFLF: where the headers end.       *)
HeaderEnd(text) ==
  IF Ends(text, CRLF \o CRLF) # {} THEN Min(Ends(text, CRLF \o CRLF)) + 3
  ELSE IF Ends(text, LF \o LF) # {} THEN Min(Ends(text, LF \o LF)) + 1
  ELSE 0

ReadHeaders ==
  /\ rpc = "headers"
  /\ HeaderEnd(rbuf) = 0
  /\ Len(rbuf) < HdrCap
  /\ GetMore

(* Without an end of the headers everything that has come is headers.       *)
HeadersRead == HeaderEnd(rbuf) # 0 \/ Len(rbuf) >= HdrCap \/ AtEnd

Lines(text) == Cardinality({i \in DOMAIN text : text[i] \in {"line", "chunked", "length"}})

(* The headers name the framing; a body of a known length, up to the cap,   *)
(* has been read as far as it came with them.  A read error is a refusal.   *)
TakeHeaders ==
  /\ rpc = "headers"
  /\ HeadersRead
  /\ LET end == IF HeaderEnd(rbuf) # 0 THEN HeaderEnd(rbuf) ELSE Len(rbuf)
         head == SubSeq(rbuf, 1, end)
         came == SubSeq(rbuf, end + 1, Len(rbuf))
         length == IF Contains(head, "length") THEN Min({sent.size, BodyCap}) ELSE 0
     IN \/ /\ Lines(head) <= LineCap + 1
           /\ Contains(head, "chunked")
           /\ rbuf' = came
           /\ rpc' = "size"
           /\ UNCHANGED <<body, need, verdict>>
        \/ /\ Lines(head) <= LineCap + 1
           /\ ~Contains(head, "chunked")
           /\ rbuf' = <<>>
           /\ IF length > 0 /\ Len(came) > length
                THEN Refused("malformed") /\ UNCHANGED <<body, need>>
                ELSE /\ body' = came
                     /\ need' = IF length > Len(came) THEN length - Len(came) ELSE 0
                     /\ rpc' = "length"
                     /\ UNCHANGED verdict
        \/ /\ Lines(head) > LineCap + 1
           /\ Refused("431")
           /\ UNCHANGED <<rbuf, body, need>>
        \/ /\ HeaderEnd(rbuf) = 0 /\ AtEnd
           /\ Refused("malformed")
           /\ UNCHANGED <<rbuf, body, need>>
  /\ UNCHANGED <<sent, rest>>

(* No more than the length says is read, and less if less comes.            *)
ReadLength ==
  /\ rpc = "length"
  /\ \/ /\ need > 0
        /\ \E n \in Pieces :
             /\ n <= need
             /\ body' = body \o SubSeq(rest, 1, n)
             /\ rest' = SubSeq(rest, n + 1, Len(rest))
             /\ need' = need - n
        /\ UNCHANGED rpc
     \/ /\ need = 0 \/ AtEnd
        /\ rpc' = "read"
        /\ UNCHANGED <<rest, body, need>>
  /\ UNCHANGED <<sent, rbuf, verdict>>

(* A line of the chunked framing: up to the first CRLF in the buffer, or    *)
(* else the first LF.                                                       *)
LineMark == IF Ends(rbuf, CRLF) # {} THEN CRLF ELSE LF
HasLine == Ends(rbuf, LF) # {}

(* str::trim: what is left between the first and the last that is no CR.    *)
Trim(text) ==
  LET solid == {i \in DOMAIN text : text[i] # "cr"}
  IN IF solid = {} THEN <<>> ELSE SubSeq(text, Min(solid), Max(solid))

Line == Trim(SubSeq(rbuf, 1, Min(Ends(rbuf, LineMark)) - 1))
AfterLine == SubSeq(rbuf, Min(Ends(rbuf, LineMark)) + Len(LineMark), Len(rbuf))

Full == Len(body) >= BodyCap

(* A chunk size.  Once the body is full the rest is only drained, without   *)
(* a limit for a chunk and without tolerance for an empty line.             *)
ReadSize ==
  /\ rpc = "size"
  /\ HasLine
  /\ rbuf' = AfterLine
  /\ \/ /\ Line = <<>> /\ ~Full
        /\ UNCHANGED <<rpc, need, verdict>>
     \/ /\ Line # <<>> /\ Len(Line) = 1 /\ Line[1] \in Range(Sizes)
        /\ SizeOf(Line[1]) <= BodyCap \/ Full
        /\ need' = SizeOf(Line[1])
        /\ rpc' = IF need' = 0 THEN "trailers" ELSE "payload"
        /\ UNCHANGED verdict
     \/ /\ \/ Line = <<>> /\ Full
           \/ Line # <<>> /\ ~(Len(Line) = 1 /\ Line[1] \in Range(Sizes))
           \/ Line # <<>> /\ Line[1] \in Range(Sizes) /\ SizeOf(Line[1]) > BodyCap /\ ~Full
        /\ Refused("malformed")
        /\ UNCHANGED need
  /\ UNCHANGED <<sent, rest, body>>

(* Mutant: what one read brought is taken for the chunk.                    *)
TakeChunkAsItCame ==
  /\ rpc = "payload"
  /\ rbuf # <<>> \/ AtEnd
  /\ LET take == Min({need, Len(rbuf)})
     IN /\ body' = SubSeq(body \o SubSeq(rbuf, 1, take), 1, Min({BodyCap, Len(body) + take}))
        /\ rbuf' = SubSeq(rbuf, take + 1, Len(rbuf))
  /\ rpc' = "ending"
  /\ UNCHANGED <<sent, rest, need, verdict>>

TakeChunk ==
  /\ rpc = "payload"
  /\ Len(rbuf) >= need \/ AtEnd
  /\ LET take == Min({need, Len(rbuf)})
     IN /\ body' = SubSeq(body \o SubSeq(rbuf, 1, take), 1, Min({BodyCap, Len(body) + take}))
        /\ rbuf' = SubSeq(rbuf, take + 1, Len(rbuf))
  /\ rpc' = "ending"
  /\ UNCHANGED <<sent, rest, need, verdict>>

(* The line end behind a chunk.                                             *)
EndChunk ==
  /\ rpc = "ending"
  /\ Len(rbuf) >= 2 \/ AtEnd
  /\ rbuf' = SubSeq(rbuf, 1 + (IF IsPrefix(CRLF, rbuf) THEN 2 ELSE IF IsPrefix(LF, rbuf) THEN 1
                               ELSE 0), Len(rbuf))
  /\ rpc' = "size"
  /\ UNCHANGED <<sent, rest, body, need, verdict>>

(* Mutant: the trailers end with the connection.                            *)
TrailersToTheEnd ==
  /\ rpc = "trailers"
  /\ HasLine \/ AtEnd
  /\ rbuf' = IF HasLine THEN AfterLine ELSE rbuf
  /\ rpc' = IF AtEnd THEN "read" ELSE "trailers"
  /\ UNCHANGED <<sent, rest, body, need, verdict>>

Trailers ==
  /\ rpc = "trailers"
  /\ HasLine
  /\ rbuf' = AfterLine
  /\ rpc' = IF Line = <<>> THEN "read" ELSE "trailers"
  /\ UNCHANGED <<sent, rest, body, need, verdict>>

(* More is asked for only when what is there does not do.                   *)
ReadChunked ==
  /\ \/ rpc \in {"size", "trailers"} /\ ~HasLine
     \/ rpc = "payload" /\ Len(rbuf) < need
     \/ rpc = "ending" /\ Len(rbuf) < 2
  /\ GetMore

(* A body that was cut in its framing is taken as far as it came.           *)
ChunkedEnds ==
  /\ rpc \in {"size", "trailers"}
  /\ ~HasLine
  /\ AtEnd
  /\ rpc' = "read"
  /\ UNCHANGED <<sent, rest, rbuf, body, need, verdict>>

-----------------------------------------------------------------------------
(* The gate.                                                               *)

(* What the checks look at.  "args" stands for the working directory and    *)
(* the caps on what was asked for, "name" for the tool, the command of a    *)
(* notification, or the exec id of a signal; "kind" for the allowlist of    *)
(* the sidecar that was chosen, or the signals that may be sent.            *)
Facts == [path: {"exec", "notify", "signal", "other"}, post: BOOLEAN, args: BOOLEAN,
          auth: BOOLEAN, proto: {"1", "2", "bad"}, noauth: BOOLEAN,
          name: {"known", "unknown", "none"}, kind: BOOLEAN, running: BOOLEAN,
          readable: BOOLEAN]

(* validate_auth_and_proto: the token is looked at before the version.      *)
Auth(f) == <<<<~f.auth, "401">>, <<f.proto = "bad", "426">>>>

CommonChecks(f) ==
  <<<<f.path = "other", "404">>, <<~f.post, "405">>, <<~f.args, "400">>>>

(* Without authentication a notification must still say version 2.          *)
NotifyChecks(f) ==
  (IF f.noauth THEN <<>> ELSE Auth(f))
    \o <<<<f.proto # "2", "426">>, <<f.name = "none", "400">>>>

SignalChecks(f) ==
  Auth(f) \o <<<<f.name = "none", "400">>, <<f.name = "unknown", "404">>, <<~f.kind, "400">>>>

(* A tool that no sidecar may run is refused before anybody asks who wants  *)
(* it.                                                                      *)
ExecChecks(f) ==
  <<<<f.name = "unknown", "403">>>> \o Auth(f)
    \o <<<<f.name = "none", "400">>, <<~f.kind, "403">>, <<~f.running, "409">>,
         <<~f.readable, "409">>>>

Checks(f) == CommonChecks(f) \o CASE f.path = "notify" -> NotifyChecks(f)
                                  [] f.path = "signal" -> SignalChecks(f)
                                  [] OTHER -> ExecChecks(f)

Verdict(f) == LET failed == SelectInSeq(Checks(f), LAMBDA check : check[1])
              IN IF failed = 0 THEN f.path ELSE Checks(f)[failed][2]

Endpoints == {"exec", "notify", "signal"}
Verdicts == {Verdict(f) : f \in Facts}
VerdictsWithoutBody == {Verdict(f) : f \in {g \in Facts : g.name = "none"}}

(* The names come from the body alone, and a body of nothing has none.      *)
Judge(paths) ==
  /\ rpc = "read"
  /\ \E v \in IF body = <<>> THEN VerdictsWithoutBody ELSE Verdicts :
       /\ v \in Endpoints => v \in paths
       /\ verdict' = v
       /\ rpc' = IF v \in Endpoints THEN "admitted" ELSE "refused"
  /\ UNCHANGED <<sent, rest, rbuf, body, need>>

(* The accept loop drops a connection that is over the limit.               *)
Drop ==
  /\ rpc = "headers"
  /\ rbuf = <<>>
  /\ rpc' = "dropped"
  /\ UNCHANGED <<sent, rest, rbuf, body, need, verdict>>

Reader == ReadHeaders \/ TakeHeaders \/ ReadLength \/ ReadChunked \/ ReadSize \/ TakeChunk
            \/ EndChunk \/ Trailers \/ ChunkedEnds

-----------------------------------------------------------------------------
ReqTypeOK ==
  /\ sent.whole \in BOOLEAN
  /\ rest \in Seq(Piece) /\ rbuf \in Seq(Piece) /\ body \in Seq(Piece)
  /\ rpc \in {"idle", "headers", "length", "size", "payload", "ending", "trailers", "read",
              "admitted", "refused", "dropped"}
  /\ need \in 0..MaxSize
  /\ verdict \in Verdicts \cup {"none", "431", "malformed"}

(* Headers within the caps, and no chunk over the cap of the body.          *)
Regular == /\ Len(Headers(sent)) <= HdrCap
           /\ sent.lines <= LineCap
           /\ \A i \in DOMAIN sent.chunks : sent.chunks[i] <= BodyCap

(* However the connection cuts a request in pieces, what is read of it is   *)
(* what was sent: all of it, up to the cap of the body, when all of it      *)
(* came, and otherwise a part from its beginning on.  It is not refused for *)
(* the way it came (http.rs:45, "Parse a single HTTP request").             *)
ReadsWhatWasSent ==
  Regular =>
    /\ rpc \in {"read", "admitted"} =>
         /\ IsPrefix(body, Payload(sent))
         /\ sent.whole => Len(body) = Min({sent.size, BodyCap})
    /\ rpc = "refused" /\ sent.whole => verdict \notin {"431", "malformed"}
=============================================================================
