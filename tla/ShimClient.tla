----------------------------- MODULE ShimClient -----------------------------
(***************************************************************************)
(* The shim (src/src/bin/aifo-shim.rs): it stands in for a tool in the     *)
(* agent's container and asks the proxy to run it, over a connection of    *)
(* its own ("native") or, when that cannot be used, through curl.  What it *)
(* talks to is ToolCall, the promise that ExecProxy keeps, together with   *)
(* what the proxy writes to a connection while it keeps it.                *)
(*                                                                         *)
(* A token of an answer is "plain" (a complete refusal), "prelude" (status *)
(* line and headers of a stream), "chunk", "timeout" (the chunk that says  *)
(* so) or an exit code in a trailer.  A read takes any number of them.     *)
(* Both connections carry the same exec id.                                *)
(***************************************************************************)
EXTENDS Naturals, Sequences, SequencesExt

CONSTANTS
  MaxInts,    (* bound: how often the user presses Ctrl-C                    *)
  MaxChunks   (* bound: the chunks a tool may print                          *)

ASSUME ShimAssumption == MaxInts \in Nat /\ MaxChunks \in Nat

Conn == {"native", "curl"}
Codes == {"tool", "124"}
Token == {"plain", "prelude", "chunk", "timeout"} \cup Codes

VARIABLES
  pc,         (* where the shim is                                           *)
  ints,       (* SIGINT_COUNT                                                *)
  term,       (* GOT_TERM or GOT_HUP                                         *)
  stdout,     (* the shim's own output: "open", or its reader has gone       *)
  posted,     (* the connections the request was sent on                     *)
  buf,        (* what the native reader has not looked at yet                *)
  curl,       (* the child: "no", "running", "done"                          *)
  header,     (* the exit code in curl's header file                         *)
  marker,     (* whether ~/.aifo-exec/<id> exists                            *)
  exit,       (* what the shim's exit code stands for                        *)
  tool, cause, reply,  (* as in ToolCall                                     *)
  group,      (* the connection whose tool the exec id's group file names    *)
  signalled,  (* a signal for the exec id was taken by the proxy             *)
  wire,       (* what the proxy wrote and the shim has not read              *)
  printed,    (* the chunks each tool has printed                            *)
  closed      (* the connections the proxy has closed                        *)

Proxy == INSTANCE ToolCall WITH Call <- Conn, Alone <- {}

pending == <<ints, term>>
process == <<buf, curl, header, marker, exit>>
call == <<tool, cause, reply>>
stream == <<wire, printed, closed>>
vars == <<pc, pending, stdout, posted, process, call, group, signalled, stream>>

None == "none"

Init ==
  /\ pc = "start"
  /\ ints = 0 /\ term = FALSE
  /\ stdout = "open"
  /\ posted = {}
  /\ buf = <<>> /\ curl = "no" /\ header = None
  /\ marker = FALSE
  /\ exit = None
  /\ Proxy!Init
  /\ group = None
  /\ signalled = FALSE
  /\ wire = [c \in Conn |-> <<>>]
  /\ printed = [c \in Conn |-> 0]
  /\ closed = {}

-----------------------------------------------------------------------------
(* Choosing a transport.                                                   *)

(* Smart routing, "uvx --from", or a missing proxy with a local binary.     *)
RunLocally ==
  /\ pc = "start"
  /\ exit' = "local"
  /\ pc' = "exited"
  /\ UNCHANGED <<pending, stdout, posted, buf, curl, header, marker, call, group,
                 signalled, stream>>

NotConfigured ==
  /\ pc = "start"
  /\ exit' = "86"
  /\ pc' = "exited"
  /\ UNCHANGED <<pending, stdout, posted, buf, curl, header, marker, call, group,
                 signalled, stream>>

(* The markers are written before a connection is tried.  Errors of the     *)
(* writes that follow it are ignored.                                       *)
PostNative ==
  /\ pc = "start"
  /\ marker' = TRUE
  /\ posted' = posted \cup {"native"}
  /\ pc' = "head"
  /\ UNCHANGED <<pending, stdout, buf, curl, header, exit, call, group, signalled,
                 stream>>

NativeUnavailable ==
  /\ pc = "start"
  /\ marker' = TRUE
  /\ pc' = "spawn"
  /\ UNCHANGED <<pending, stdout, posted, buf, curl, header, exit, call, group,
                 signalled, stream>>

-----------------------------------------------------------------------------
(* Signals.                                                                *)

Pending == ints > 0 \/ term

(* The Ctrl-Cs count before TERM and HUP, which are posted as they came.    *)
SignalToPost == CASE ints = 1 -> "INT" [] ints > 2 -> "KILL" [] OTHER -> "TERM"

(* POST /signal: it may be lost at the connection limit, come before the    *)
(* exec is registered or after it is over, or reach the group of the id.  A *)
(* tool may survive anything but KILL.                                      *)
PostSignal(sig) ==
  \/ UNCHANGED <<call, signalled>>
  \/ /\ \E c \in Conn : tool[c] = "running"
     /\ signalled' = TRUE
     /\ \/ sig # "KILL" /\ UNCHANGED call
        \/ group # None /\ Proxy!End({group}, "signal")
        \/ tool[group] # "running" /\ UNCHANGED call

(* One signal is posted, then the shim tells the user and waits a little.   *)
PostAndLeave ==
  /\ Pending
  /\ PostSignal(SignalToPost)
  /\ exit' = "signalled"
  /\ pc' = "leaving"

Leave ==
  /\ pc = "leaving"
  /\ pc' = "exited"
  /\ UNCHANGED <<pending, stdout, posted, process, call, group, signalled, stream>>

-----------------------------------------------------------------------------
(* The native client.                                                      *)

Finish(how) == /\ exit' = how
               /\ marker' = FALSE
               /\ pc' = "exited"

(* A read returns a non-empty part of what has arrived.                     *)
Arrived == 1..Len(wire["native"])
Got(n) == SubSeq(wire["native"], 1, n)
Take(n) == wire' = [wire EXCEPT !["native"] = SubSeq(@, n + 1, Len(@))]

(* Everything up to the headers is header text, a late timeout chunk        *)
(* included.                                                                *)
HeadRead ==
  /\ pc = "head"
  /\ \E n \in Arrived :
       LET text == buf \o Got(n)
           at == SelectInSeq(text, LAMBDA t : t \in {"plain", "prelude"})
       IN /\ Take(n)
          /\ buf' = IF at = 0 THEN text ELSE SubSeq(text, at + 1, Len(text))
          /\ pc' = IF at = 0 THEN "head" ELSE IF text[at] = "plain" THEN "drain" ELSE "lines"
  /\ UNCHANGED <<pending, stdout, posted, curl, header, marker, exit, call, group,
                 signalled, printed, closed>>

Idle == wire["native"] = <<>> /\ "native" \notin closed
Over == wire["native"] = <<>> /\ "native" \in closed

(* Mutant: a Ctrl-C counts when it is the first.                            *)
HeadSignalledOnce ==
  /\ pc = "head"
  /\ Idle
  /\ ints = 1
  /\ PostAndLeave
  /\ UNCHANGED <<pending, stdout, posted, buf, curl, header, marker, group, stream>>

(* A second without headers, or an interrupted read: the signals are looked *)
(* at.  The markers stay.                                                   *)
HeadSignalled ==
  /\ pc = "head"
  /\ Idle
  /\ PostAndLeave
  /\ UNCHANGED <<pending, stdout, posted, buf, curl, header, marker, group, stream>>

(* Mutant: the end of the connection is taken for an idle read.             *)
HeadersMissingIsIdle ==
  /\ pc = "head"
  /\ Over
  /\ PostAndLeave
  /\ UNCHANGED <<pending, stdout, posted, buf, curl, header, marker, group, stream>>

HeadersMissing ==
  /\ pc = "head"
  /\ Over
  /\ Finish("lost")
  /\ UNCHANGED <<pending, stdout, posted, buf, curl, header, call, group, signalled,
                 stream>>

(* A refusal is copied to its end, whatever signals come.                   *)
Drained ==
  /\ pc = "drain"
  /\ Over
  /\ Finish("86")
  /\ UNCHANGED <<pending, stdout, posted, buf, curl, header, call, group, signalled,
                 stream>>

(* Mutant: any trailer is a success of the tool.                            *)
TrailerIsSuccess ==
  /\ pc = "lines"
  /\ buf # <<>>
  /\ Head(buf) \in Codes
  /\ Finish("tool")
  /\ UNCHANGED <<pending, stdout, posted, buf, curl, header, call, group, signalled,
                 stream>>

(* A chunk is copied to the output.  When that fails, which buffering may   *)
(* hide, its payload is left in the buffer and read as the next size: it is *)
(* malformed, and the caller falls back to curl, or it happens to be a size *)
(* and the rest is swallowed.                                               *)
CopyChunk ==
  /\ pc = "lines"
  /\ buf # <<>>
  /\ Head(buf) \in {"chunk", "timeout"}
  /\ \/ buf' = Tail(buf) /\ UNCHANGED <<pc, marker, exit>>
     \/ /\ stdout = "broken"
        /\ pc' = "spawn"
        /\ buf' = <<>>
        /\ UNCHANGED <<marker, exit>>
     \/ /\ stdout = "broken"
        /\ Finish("lost")
        /\ UNCHANGED buf
  /\ UNCHANGED <<pending, stdout, posted, curl, header, call, group, signalled, stream>>

Trailer ==
  /\ pc = "lines"
  /\ buf # <<>>
  /\ Head(buf) \in Codes
  /\ Finish(Head(buf))
  /\ UNCHANGED <<pending, stdout, posted, buf, curl, header, call, group, signalled,
                 stream>>

(* Bytes have arrived, and only then the signals are looked at: an idle     *)
(* read goes round without it.                                              *)
ReadLine ==
  /\ pc = "lines"
  /\ buf = <<>>
  /\ \E n \in Arrived : Take(n) /\ buf' = Got(n)
  /\ \/ /\ ~Pending
        /\ UNCHANGED <<pc, marker, exit, call, signalled>>
     \/ PostAndLeave /\ marker' = FALSE
  /\ UNCHANGED <<pending, stdout, posted, curl, header, group, printed, closed>>

(* Mutant: what arrived with the end of the stream is not read.             *)
StreamEndsEarly ==
  /\ pc = "lines"
  /\ buf = <<>>
  /\ "native" \in closed
  /\ Finish("lost")
  /\ UNCHANGED <<pending, stdout, posted, buf, curl, header, call, group, signalled,
                 stream>>

(* Mutant: a stream that was cut is tried again through curl.               *)
StreamEndsInRetry ==
  /\ pc = "lines"
  /\ buf = <<>>
  /\ Over
  /\ pc' = "spawn"
  /\ UNCHANGED <<pending, stdout, posted, buf, curl, header, marker, exit, call, group,
                 signalled, stream>>

(* Mutant: the markers stay for the proxy.                                  *)
StreamEndsWithMarker ==
  /\ pc = "lines"
  /\ buf = <<>>
  /\ Over
  /\ exit' = "lost"
  /\ pc' = "exited"
  /\ UNCHANGED <<pending, stdout, posted, buf, curl, header, marker, call, group,
                 signalled, stream>>

(* The stream ends without a trailer: a "benign finish".                    *)
StreamEnds ==
  /\ pc = "lines"
  /\ buf = <<>>
  /\ Over
  /\ Finish("lost")
  /\ UNCHANGED <<pending, stdout, posted, buf, curl, header, call, group, signalled,
                 stream>>

-----------------------------------------------------------------------------
(* curl.                                                                   *)

SpawnFails ==
  /\ pc = "spawn"
  /\ exit' = "86"
  /\ pc' = "exited"
  /\ UNCHANGED <<pending, stdout, posted, buf, curl, header, marker, call, group,
                 signalled, stream>>

(* curl posts the request, or cannot connect.                               *)
SpawnCurl ==
  /\ pc = "spawn"
  /\ \/ posted' = posted \cup {"curl"} /\ curl' = "running"
     \/ curl' = "done" /\ UNCHANGED posted
  /\ pc' = "poll"
  /\ UNCHANGED <<pending, stdout, buf, header, marker, exit, call, group, signalled,
                 stream>>

(* Mutant: whatever follows the first colon is taken for an exit code.      *)
CurlReadsAnyHeader ==
  /\ curl = "running"
  /\ wire["curl"] # <<>>
  /\ wire' = [wire EXCEPT !["curl"] = Tail(@)]
  /\ header' = Head(wire["curl"])
  /\ UNCHANGED <<pc, pending, stdout, posted, buf, curl, marker, exit, call, group,
                 signalled, printed, closed>>

(* curl copies the answer and notes the exit code it finds in headers or    *)
(* trailers.  What is no HTTP answer, and output it cannot write, end it.   *)
CurlReads ==
  /\ curl = "running"
  /\ wire["curl"] # <<>>
  /\ LET t == Head(wire["curl"]) IN
       /\ wire' = [wire EXCEPT !["curl"] = Tail(@)]
       /\ header' = IF t \in Codes THEN t ELSE IF t = "plain" THEN "86" ELSE header
       /\ \/ UNCHANGED curl
          \/ curl' = "done" /\ (t = "timeout" \/ stdout = "broken")
  /\ UNCHANGED <<pc, pending, stdout, posted, buf, marker, exit, call, group, signalled,
                 printed, closed>>

(* curl is at the end of the answer, or the Ctrl-C of the terminal, which   *)
(* it gets too, has ended it.                                               *)
CurlEnds ==
  /\ curl = "running"
  /\ \/ "curl" \in closed /\ wire["curl"] = <<>>
     \/ ints > 0
  /\ curl' = "done"
  /\ UNCHANGED <<pc, pending, stdout, posted, buf, header, marker, exit, call, group,
                 signalled, stream>>

(* The loop looks for curl's end first and for signals then.                *)
PollSignalled ==
  /\ pc = "poll"
  /\ curl = "running"
  /\ PostAndLeave
  /\ curl' = "done"
  /\ UNCHANGED <<pending, stdout, posted, buf, header, marker, group, stream>>

CurlAnswered ==
  /\ pc = "poll"
  /\ curl = "done"
  /\ header # None
  /\ Finish(header)
  /\ UNCHANGED <<pending, stdout, posted, buf, curl, header, call, group, signalled,
                 stream>>

(* No exit code: the shim escalates on its own before it leaves.            *)
CurlLost ==
  /\ pc = "poll"
  /\ curl = "done"
  /\ header = None
  /\ exit' = "lost"
  /\ pc' = "INT"
  /\ UNCHANGED <<pending, stdout, posted, buf, curl, header, marker, call, group,
                 signalled, stream>>

EscalateOnDisconnect ==
  /\ pc \in {"INT", "TERM", "KILL"}
  /\ PostSignal(pc)
  /\ pc' = CASE pc = "INT" -> "TERM" [] pc = "TERM" -> "KILL" [] pc = "KILL" -> "leaving"
  /\ marker' = IF pc = "KILL" THEN FALSE ELSE marker
  /\ UNCHANGED <<pending, stdout, posted, buf, curl, header, exit, group, stream>>

-----------------------------------------------------------------------------
(* The proxy's side of a connection.                                       *)

Open(c) == c \in posted \ closed

(* The shim is still at the other end.                                      *)
Connected(c) == IF c = "native" THEN curl = "no" /\ pc \notin {"spawn", "exited"}
                ELSE curl = "running"

HasPrelude(c) == printed[c] > 0

(* A refusal is written and the connection closed; one over the limit is    *)
(* closed without a word.                                                   *)
Refuses(c) ==
  /\ Open(c)
  /\ Proxy!Refuse(c)
  /\ wire' \in {wire, [wire EXCEPT ![c] = @ \o <<"plain">>]}
  /\ closed' = closed \cup {c}
  /\ UNCHANGED <<pc, pending, stdout, posted, process, group, signalled, printed>>

Starts(c) ==
  /\ Open(c)
  /\ Proxy!Start(c)
  /\ group' = c
  /\ UNCHANGED <<pc, pending, stdout, posted, process, signalled, stream>>

(* The first chunk brings the prelude with it.                              *)
Prints(c) ==
  /\ Open(c)
  /\ tool[c] = "running"
  /\ Connected(c)
  /\ printed[c] < MaxChunks
  /\ printed' = [printed EXCEPT ![c] = @ + 1]
  /\ wire' = [wire EXCEPT ![c] = @ \o IF HasPrelude(c) THEN <<"chunk">>
                                      ELSE <<"prelude", "chunk">>]
  /\ UNCHANGED <<pc, pending, stdout, posted, process, call, group, signalled, closed>>

ToolEnds(c) ==
  /\ \E why \in {"itself", "watcher", "session"} : Proxy!End({c}, why)
  /\ UNCHANGED <<pc, pending, stdout, posted, process, group, signalled, stream>>

(* The end of an answer: the timeout chunk when it is due, in front of a    *)
(* prelude that was not sent yet when it was noticed late, and the trailer. *)
Tails(c, code) ==
  LET prelude == IF HasPrelude(c) THEN <<>> ELSE <<"prelude">>
  IN IF code = "tool" THEN {prelude \o <<code>>}
     ELSE {prelude \o <<"timeout", code>>, <<"timeout">> \o prelude \o <<code>>}

Answers(c) ==
  /\ Open(c)
  /\ Proxy!Answer(c)
  /\ \E tail \in Tails(c, reply'[c]) : wire' = [wire EXCEPT ![c] = @ \o tail]
  /\ closed' = closed \cup {c}
  /\ UNCHANGED <<pc, pending, stdout, posted, process, group, signalled, printed>>

(* A write to a shim that has gone fails: the group of the id is killed,    *)
(* unless a signal for it was taken lately.                                 *)
GivesUp(c) ==
  /\ Open(c)
  /\ ~Connected(c)
  /\ tool[c] # "none"
  /\ Proxy!Conclude(c, "gaveUp")
  /\ \/ signalled /\ UNCHANGED <<tool, cause>>
     \/ /\ group # None
        /\ tool' = [tool EXCEPT ![group] = "over"]
        /\ cause' = [cause EXCEPT ![group] = IF tool[group] = "running"
                                               THEN "disconnect" ELSE @]
  /\ closed' = closed \cup {c}
  /\ UNCHANGED <<pc, pending, stdout, posted, process, group, signalled, wire, printed>>

(* The launcher dies with the proxy in it: the connection is cut.           *)
Cut(c) ==
  /\ Open(c)
  /\ closed' = closed \cup {c}
  /\ UNCHANGED <<pc, pending, stdout, posted, process, call, group, signalled, wire,
                 printed>>

-----------------------------------------------------------------------------
(* The user, the agent and the reader of the output.                       *)

Handling == pc \notin {"start", "exited"}

Interrupt == /\ Handling
             /\ ints < MaxInts
             /\ ints' = ints + 1
             /\ UNCHANGED <<pc, term, stdout, posted, process, call, group,
                            signalled, stream>>

Terminate == /\ Handling
             /\ term' = TRUE
             /\ UNCHANGED <<pc, ints, stdout, posted, process, call, group, signalled,
                            stream>>

OutputBreaks == /\ Handling
                /\ stdout' = "broken"
                /\ UNCHANGED <<pc, pending, posted, process, call, group, signalled,
                               stream>>

-----------------------------------------------------------------------------
Native == HeadRead \/ HeadSignalled \/ HeadersMissing \/ Drained \/ CopyChunk
            \/ Trailer \/ ReadLine \/ StreamEnds

Curl == SpawnFails \/ SpawnCurl \/ CurlReads \/ CurlEnds \/ PollSignalled
          \/ CurlAnswered \/ CurlLost \/ EscalateOnDisconnect

Shim == RunLocally \/ NotConfigured \/ PostNative \/ NativeUnavailable \/ Native
          \/ Curl \/ Leave

Serve(c) == Refuses(c) \/ Starts(c) \/ Prints(c) \/ ToolEnds(c) \/ Answers(c)
              \/ GivesUp(c) \/ Cut(c)

Next ==
  \/ Shim
  \/ \E c \in Conn : Serve(c)
  \/ Interrupt \/ Terminate \/ OutputBreaks

(* The shim and its curl run; nothing is assumed of the proxy and the user. *)
Spec == Init /\ [][Next]_vars /\ WF_vars(Shim)

-----------------------------------------------------------------------------
(* Properties.                                                             *)

TypeOK ==
  /\ pc \in {"start", "head", "lines", "drain", "spawn", "poll", "INT", "TERM", "KILL",
             "leaving", "exited"}
  /\ ints \in 0..MaxInts /\ term \in BOOLEAN
  /\ stdout \in {"open", "broken"}
  /\ posted \subseteq Conn
  /\ buf \in Seq(Token)
  /\ curl \in {"no", "running", "done"}
  /\ header \in Codes \cup {None, "86"}
  /\ marker \in BOOLEAN
  /\ exit \in Codes \cup {None, "local", "86", "signalled", "lost"}
  /\ Proxy!TypeOK
  /\ group \in Conn \cup {None}
  /\ signalled \in BOOLEAN
  /\ wire \in [Conn -> Seq(Token)]
  /\ printed \in [Conn -> 0..MaxChunks]
  /\ closed \subseteq Conn

(* One call runs its tool once, although it may be posted twice: the second *)
(* post follows a native answer that the shim could not pass on, because    *)
(* its own output was closed ("tool | head"), or a connection that was      *)
(* never made.                                                              *)
RunTwiceOnlyOnBrokenOutput ==
  (\A c \in Conn : tool[c] # "none") => stdout = "broken"

(* The shim exits as if nothing had been answered (by default with 0) only  *)
(* when that is so: an exit code that the proxy has sent is not replaced.   *)
(* Excepted are an output that broke, a curl that Ctrl-C ended, and, for    *)
(* curl, a timeout chunk in front of the headers.                           *)
LostOnlyWithoutAnswer ==
  exit = "lost" /\ stdout = "open" =>
    \/ /\ reply["native"] \notin Codes
       /\ reply["curl"] # "tool"
    \/ curl = "done" /\ ints > 0

(* The exit code the agent sees is one that the proxy decided on, for the   *)
(* request that was posted last.                                            *)
ExitIsReplied ==
  exit \in Codes =>
    reply[IF "curl" \in posted THEN "curl" ELSE "native"] = exit

(* A finished call leaves no marker behind that would end the agent's next  *)
(* shell, except after an interrupt and where curl is missing.              *)
MarkersCleared ==
  pc = "exited" /\ marker => exit = "signalled" \/ (exit = "86" /\ curl = "no")

(* Once its answer is complete, or its connection closed, a call ends.      *)
ClosedCallsEnd ==
  ("curl" \in closed \/ ("native" \in closed /\ "curl" \notin posted))
    ~> (pc = "exited" \/ (curl = "running" /\ "curl" \notin closed))

(* Ctrl-C ends the call, unless the native client waits in the body of an   *)
(* answer that makes no progress.                                           *)
InterruptEnds ==
  (ints > 0) ~> (pc = "exited" \/ (pc \in {"lines", "drain"} /\ Idle))
=============================================================================
