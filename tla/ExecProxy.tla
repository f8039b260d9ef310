----------------------------- MODULE ExecProxy -----------------------------
(***************************************************************************)
(* The tool execution proxy (src/src/toolchain/proxy.rs).  Shims connect   *)
(* to it from the agent's container and ask it to run a tool in a sidecar  *)
(* (/exec) or to signal one that runs (/signal).  One thread accepts; each *)
(* connection gets a handler thread, each exec a watcher thread that       *)
(* escalates when the tool runs too long.  Handlers meet in two maps,      *)
(* exec_registry and recent_signals, and in the sidecar, where the process *)
(* group of an exec is known only by the file its wrapper writes.          *)
(*                                                                         *)
(* Time is left out: a timer may go off at any moment it is armed.  Two    *)
(* orders that the code gets from its delays are kept as guards: a wrapper *)
(* records its group before the tool's first output and before the maximal *)
(* runtime is over.  All execs run in one sidecar.                         *)
(***************************************************************************)
EXTENDS Naturals, Sequences, FiniteSets

CONSTANTS
  Exec,        (* the connections that POST /exec                             *)
  Signal,      (* the connections that POST /signal                           *)
  Id,          (* exec ids                                                    *)
  IdOf,        (* the exec id each connection names                           *)
  Streaming,   (* the execs served with protocol v2, the others with v1       *)
  SignalOf,    (* the signal each /signal asks for                            *)
  FallbackDir, (* the execs whose wrapper cannot use $HOME/.aifo-exec         *)
  MaxConns,    (* AIFO_TOOLEEXEC_MAX_CONNECTIONS                              *)
  ChannelCap,  (* AIFO_PROXY_CHANNEL_CAP                                      *)
  MaxOutput,   (* bound: the chunks a tool may print                          *)
  NoExec

Conn == Exec \cup Signal

ASSUME ProxyAssumption ==
  /\ Exec \cap Signal = {}
  /\ IsFiniteSet(Conn)
  /\ NoExec \notin Exec
  /\ IdOf \in [Conn -> Id]
  /\ Streaming \subseteq Exec
  /\ FallbackDir \subseteq Exec
  /\ SignalOf \in [Signal -> {"INT", "TERM", "HUP", "KILL"}]
  /\ MaxConns \in Nat \ {0}
  /\ ChannelCap \in Nat \ {0}
  /\ MaxOutput \in Nat

VARIABLES
  running,        (* cleared when the session ends                            *)
  active_conns,   (* the connections the accept loop believes are served      *)
  pc,             (* where the handler of each connection is                  *)
  exec_registry,  (* the exec ids /signal can name                            *)
  recent_signals, (* for each exec id, whether its last signal is recent      *)
  proc,           (* the tool of each exec, or what ended it                  *)
  pgid,           (* the exec whose group the file of an exec id names        *)
  produced,       (* the chunks each tool has printed                         *)
  channel,        (* how many of them wait between reader and handler         *)
  watcher,        (* the next thing the watcher of each exec does             *)
  timed_out,      (* set with the INT of the watcher                          *)
  done,           (* tells the watcher to stop                                *)
  suppress,       (* the execs whose disconnect was not escalated             *)
  client,         (* the peer of each exec                                    *)
  wire,           (* what was written to it                                   *)
  code            (* the exit code decided on                                 *)

shared == <<exec_registry, recent_signals>>
tool == <<proc, pgid>>
output == <<produced, channel>>
timer == <<watcher, timed_out, done>>
answer == <<wire, code>>
vars == <<running, active_conns, pc, shared, tool, output, timer, suppress,
          client, answer>>

Waiting == {"calling", "dropped"}
Served == {"accepted", "registered", "stream", "recv", "wait", "trailer",
           "buffer", "respond", "grace", "discInt", "discTerm", "discKill",
           "reap", "found", "recorded"}
Stage == Waiting \cup Served \cup {"closed"}

(* What ended a tool, when it is over.                                      *)
Ended == {"itself", "watcher", "signal", "disconnect", "session"}

(* The watcher's life: it sends INT, TERM and KILL, each after a check of   *)
(* "done"; "sendX" is between the check and the kill.                       *)
Watching == {"off", "INT", "sendINT", "TERM", "sendTERM", "KILL", "sendKILL",
             "over"}

-----------------------------------------------------------------------------
Init ==
  /\ running = TRUE
  /\ active_conns = 0
  /\ pc = [c \in Conn |-> "calling"]
  /\ exec_registry = {}
  /\ recent_signals = [i \in Id |-> "none"]
  /\ proc = [e \in Exec |-> "none"]
  /\ pgid = [i \in Id |-> NoExec]
  /\ produced = [e \in Exec |-> 0]
  /\ channel = [e \in Exec |-> 0]
  /\ watcher = [e \in Exec |-> "off"]
  /\ timed_out = [e \in Exec |-> FALSE]
  /\ done = [e \in Exec |-> FALSE]
  /\ suppress = {}
  /\ client = [e \in Exec |-> "reading"]
  /\ wire = [e \in Exec |-> <<>>]
  /\ code = [e \in Exec |-> "none"]

Goto(c, stage) == pc' = [pc EXCEPT ![c] = stage]

(* A handler returns: the connection is closed and active_conns goes down.  *)
Close(c) == /\ Goto(c, "closed")
            /\ active_conns' = active_conns - 1

-----------------------------------------------------------------------------
(* The accept loop.                                                        *)

Accept(c) ==
  /\ running
  /\ pc[c] = "calling"
  /\ active_conns < MaxConns
  /\ active_conns' = active_conns + 1
  /\ Goto(c, "accepted")
  /\ UNCHANGED <<running, shared, tool, output, timer, suppress, client, answer>>

(* A connection over the limit is dropped without a word.                   *)
Drop(c) ==
  /\ running
  /\ pc[c] = "calling"
  /\ active_conns >= MaxConns
  /\ Goto(c, "dropped")
  /\ UNCHANGED <<running, active_conns, shared, tool, output, timer, suppress,
                 client, answer>>

(* The session ends: the accept loop stops; handlers go on.                 *)
StopAccepting ==
  /\ running
  /\ running' = FALSE
  /\ UNCHANGED <<active_conns, pc, shared, tool, output, timer, suppress, client,
                 answer>>

(* ... and then the sidecars are stopped, with everything that runs in them.*)
StopSidecars ==
  /\ ~running
  /\ \E e \in Exec : proc[e] \in {"starting", "running"}
  /\ proc' = [e \in Exec |->
                IF proc[e] \in {"starting", "running"} THEN "session" ELSE proc[e]]
  /\ UNCHANGED <<running, active_conns, pc, shared, pgid, output, timer, suppress,
                 client, answer>>

(* Every way a request is refused before an exec is registered or a signal  *)
(* looked up: parsing, authorization, allowlist, missing container.         *)
Reject(c) ==
  /\ pc[c] = "accepted"
  /\ Close(c)
  /\ UNCHANGED <<running, shared, tool, output, timer, suppress, client, answer>>

-----------------------------------------------------------------------------
(* The tool in the sidecar.                                                *)

(* The wrapper starts the tool in a session of its own and writes the group *)
(* where kills look for it, unless it had to fall back to /tmp.             *)
RecordGroup(e) ==
  /\ proc[e] = "starting"
  /\ proc' = [proc EXCEPT ![e] = "running"]
  /\ pgid' = IF e \in FallbackDir THEN pgid ELSE [pgid EXCEPT ![IdOf[e]] = e]
  /\ UNCHANGED <<running, active_conns, pc, shared, output, timer, suppress,
                 client, answer>>

(* The tool ends by itself.  After a success the wrapper removes its        *)
(* directory; after a failure "set -e" ends it before that.                 *)
ToolExits(e) ==
  /\ proc[e] = "running"
  /\ proc' = [proc EXCEPT ![e] = "itself"]
  /\ \/ UNCHANGED pgid
     \/ e \notin FallbackDir /\ pgid' = [pgid EXCEPT ![IdOf[e]] = NoExec]
  /\ UNCHANGED <<running, active_conns, pc, shared, output, timer, suppress,
                 client, answer>>

(* Mutant: a full channel takes one chunk more.                             *)
ToolPrintsOverCap(e) ==
  /\ proc[e] = "running"
  /\ pc[e] \in {"stream", "recv"}
  /\ produced[e] < MaxOutput
  /\ produced' = [produced EXCEPT ![e] = @ + 1]
  /\ channel' = IF channel[e] <= ChannelCap
                  THEN [channel EXCEPT ![e] = @ + 1] ELSE channel
  /\ UNCHANGED <<running, active_conns, pc, shared, tool, timer, suppress, client,
                 answer>>

(* The tool prints; a full channel drops the chunk.                         *)
ToolPrints(e) ==
  /\ proc[e] = "running"
  /\ pc[e] \in {"stream", "recv"}
  /\ produced[e] < MaxOutput
  /\ produced' = [produced EXCEPT ![e] = @ + 1]
  /\ channel' = IF channel[e] < ChannelCap
                  THEN [channel EXCEPT ![e] = @ + 1] ELSE channel
  /\ UNCHANGED <<running, active_conns, pc, shared, tool, timer, suppress, client,
                 answer>>

(* kill_in_container: the group named by the file of an exec id, if there   *)
(* is one.  A tool may survive anything but KILL; one that dies of a signal *)
(* leaves its directory behind.                                             *)
KillGroup(i, sig, by) ==
  LET e == pgid[i] IN
  IF e = NoExec \/ (e # NoExec /\ proc[e] # "running")
    THEN UNCHANGED proc
    ELSE \/ proc' = [proc EXCEPT ![e] = by]
         \/ sig # "KILL" /\ UNCHANGED proc

-----------------------------------------------------------------------------
(* An exec handler: registering and starting.                              *)

(* Mutant: the id is made known only by the answer of a finished exec.      *)
RegisterNothing(e) ==
  /\ pc[e] = "accepted"
  /\ Goto(e, "registered")
  /\ UNCHANGED <<running, active_conns, shared, tool, output, timer, suppress,
                 client, answer>>

Register(e) ==
  /\ pc[e] = "accepted"
  /\ exec_registry' = exec_registry \cup {IdOf[e]}
  /\ Goto(e, "registered")
  /\ UNCHANGED <<running, active_conns, recent_signals, tool, output, timer,
                 suppress, client, answer>>

(* docker cannot be run: 500, and the id stays registered.                  *)
SpawnFailed(e) ==
  /\ pc[e] = "registered"
  /\ code' = [code EXCEPT ![e] = "86"]
  /\ Close(e)
  /\ UNCHANGED <<running, shared, tool, output, timer, suppress, client, wire>>

Spawn(e) ==
  /\ pc[e] = "registered"
  /\ proc' = [proc EXCEPT ![e] = "starting"]
  /\ watcher' = [watcher EXCEPT ![e] = "INT"]
  /\ Goto(e, IF e \in Streaming THEN "stream" ELSE "buffer")
  /\ UNCHANGED <<running, active_conns, shared, pgid, output, timed_out, done,
                 suppress, client, answer>>

-----------------------------------------------------------------------------
(* The watcher.                                                            *)

(* Mutant: the flag is set by the KILL of the escalation, not by its INT.   *)
WatcherWakesLateFlag(e) ==
  /\ watcher[e] \in {"INT", "TERM", "KILL"}
  /\ proc[e] # "starting"
  /\ IF done[e]
       THEN watcher' = [watcher EXCEPT ![e] = "over"] /\ UNCHANGED timed_out
       ELSE /\ watcher' = [watcher EXCEPT ![e] =
                 CASE @ = "INT" -> "sendINT" [] @ = "TERM" -> "sendTERM"
                   [] @ = "KILL" -> "sendKILL"]
            /\ timed_out' = [timed_out EXCEPT ![e] = @ \/ watcher[e] = "KILL"]
  /\ UNCHANGED <<running, active_conns, pc, shared, tool, output, done, suppress,
                 client, answer>>

(* A delay is over: the watcher stops when the exec is done, otherwise it   *)
(* is about to send its signal, INT with the flag set first.                *)
WatcherWakes(e) ==
  /\ watcher[e] \in {"INT", "TERM", "KILL"}
  /\ proc[e] # "starting"
  /\ IF done[e]
       THEN watcher' = [watcher EXCEPT ![e] = "over"] /\ UNCHANGED timed_out
       ELSE /\ watcher' = [watcher EXCEPT ![e] =
                 CASE @ = "INT" -> "sendINT" [] @ = "TERM" -> "sendTERM"
                   [] @ = "KILL" -> "sendKILL"]
            /\ timed_out' = [timed_out EXCEPT ![e] = @ \/ watcher[e] = "INT"]
  /\ UNCHANGED <<running, active_conns, pc, shared, tool, output, done, suppress,
                 client, answer>>

(* Mutant: the escalation stops at TERM.                                    *)
WatcherSendsNoKill(e) ==
  /\ \/ /\ watcher[e] = "sendINT"
        /\ KillGroup(IdOf[e], "INT", "watcher")
        /\ watcher' = [watcher EXCEPT ![e] = "TERM"]
     \/ /\ watcher[e] = "sendTERM"
        /\ KillGroup(IdOf[e], "TERM", "watcher")
        /\ watcher' = [watcher EXCEPT ![e] = "over"]
  /\ UNCHANGED <<running, active_conns, pc, shared, pgid, output, timed_out, done,
                 suppress, client, answer>>

WatcherSends(e) ==
  /\ \/ /\ watcher[e] = "sendINT"
        /\ KillGroup(IdOf[e], "INT", "watcher")
        /\ watcher' = [watcher EXCEPT ![e] = "TERM"]
     \/ /\ watcher[e] = "sendTERM"
        /\ KillGroup(IdOf[e], "TERM", "watcher")
        /\ watcher' = [watcher EXCEPT ![e] = "KILL"]
     \/ /\ watcher[e] = "sendKILL"
        /\ KillGroup(IdOf[e], "KILL", "watcher")
        /\ watcher' = [watcher EXCEPT ![e] = "over"]
  /\ UNCHANGED <<running, active_conns, pc, shared, pgid, output, timed_out, done,
                 suppress, client, answer>>

-----------------------------------------------------------------------------
(* The streaming handler (v2).                                             *)

Has(e, token) == \E k \in DOMAIN wire[e] : wire[e][k] = token

(* What is written before a chunk: the prelude, unless it was sent.         *)
Prelude(e) == IF Has(e, "prelude") THEN <<>> ELSE <<"prelude">>

(* A write blocks while the peer does not read; to a peer that has gone it  *)
(* fails, or still fits in a buffer.                                        *)
CanWrite(e) == client[e] # "stalled"
CanFail(e) == client[e] = "gone"

Write(e, tokens) == wire' = [wire EXCEPT ![e] = @ \o tokens]

TimeoutChunkDue(e) == timed_out[e] /\ ~Has(e, "timeout")

(* The top of the loop: the timeout chunk is sent once, after the prelude.  *)
LoopTop(e) ==
  /\ pc[e] = "stream"
  /\ \/ ~TimeoutChunkDue(e) /\ Goto(e, "recv") /\ UNCHANGED wire
     \/ /\ TimeoutChunkDue(e) /\ CanWrite(e)
        /\ Write(e, Prelude(e) \o <<"timeout">>)
        /\ Goto(e, "recv")
     \/ /\ TimeoutChunkDue(e) /\ CanFail(e) /\ ~Has(e, "prelude")
        /\ Goto(e, "grace")
        /\ UNCHANGED wire
  /\ UNCHANGED <<running, active_conns, shared, tool, output, timer, suppress,
                 client, code>>

(* A chunk arrives and is written, with the prelude when it is the first.   *)
RecvChunk(e) ==
  /\ pc[e] = "recv"
  /\ channel[e] > 0
  /\ channel' = [channel EXCEPT ![e] = @ - 1]
  /\ \/ CanWrite(e) /\ Write(e, Prelude(e) \o <<"chunk">>) /\ Goto(e, "stream")
     \/ CanFail(e) /\ Write(e, Prelude(e)) /\ Goto(e, "grace")
     \/ CanFail(e) /\ UNCHANGED wire /\ Goto(e, "grace")
  /\ UNCHANGED <<running, active_conns, shared, tool, produced, timer, suppress,
                 client, code>>

(* Mutant: the exit code is decided on when the output ends, not the tool.  *)
RecvTimeoutIsEnd(e) ==
  /\ pc[e] = "recv"
  /\ channel[e] = 0
  /\ proc[e] \notin Ended
  /\ Goto(e, "wait")
  /\ UNCHANGED <<running, active_conns, shared, tool, output, timer, suppress,
                 client, answer>>

(* 200 ms without a chunk.                                                  *)
RecvTimeout(e) ==
  /\ pc[e] = "recv"
  /\ channel[e] = 0
  /\ proc[e] \notin Ended
  /\ Goto(e, "stream")
  /\ UNCHANGED <<running, active_conns, shared, tool, output, timer, suppress,
                 client, answer>>

(* The tool is over and its output drained.  A timeout chunk that is still  *)
(* due is written now, whether the prelude was sent or not.                 *)
RecvClosed(e) ==
  /\ pc[e] = "recv"
  /\ channel[e] = 0
  /\ proc[e] \in Ended
  /\ \/ ~TimeoutChunkDue(e) /\ UNCHANGED wire
     \/ TimeoutChunkDue(e) /\ CanWrite(e) /\ Write(e, <<"timeout">>)
  /\ Goto(e, "wait")
  /\ UNCHANGED <<running, active_conns, shared, tool, output, timer, suppress,
                 client, code>>

(* A handler is done with its exec: the watcher is told and the id          *)
(* forgotten, whoever else may have registered it.                          *)
Forget(e) ==
  /\ done' = [done EXCEPT ![e] = TRUE]
  /\ exec_registry' = exec_registry \ {IdOf[e]}
  /\ recent_signals' = [recent_signals EXCEPT ![IdOf[e]] = "none"]

ExitCode(e) == IF timed_out[e] THEN "124" ELSE "tool"

(* The child is reaped and the exit code decided on.                        *)
WaitChild(e) ==
  /\ pc[e] = "wait"
  /\ code' = [code EXCEPT ![e] = ExitCode(e)]
  /\ Forget(e)
  /\ Goto(e, "trailer")
  /\ UNCHANGED <<running, active_conns, tool, output, watcher, timed_out, suppress,
                 client, wire>>

(* The answer ends with the trailer; nothing is retried when that fails.    *)
Trailer(e) ==
  /\ pc[e] = "trailer"
  /\ \/ CanWrite(e) /\ Write(e, Prelude(e) \o <<"trailer">>)
     \/ CanFail(e) /\ UNCHANGED wire
  /\ Close(e)
  /\ UNCHANGED <<running, shared, tool, output, timer, suppress, client, code>>

-----------------------------------------------------------------------------
(* The streaming handler after a failed write: the client has gone.        *)

(* A signal of the last 2300 ms is taken for the client's own escalation.   *)
Suppress(e) ==
  /\ pc[e] = "grace"
  /\ recent_signals[IdOf[e]] = "fresh"
  /\ suppress' = suppress \cup {e}
  /\ Goto(e, "reap")
  /\ UNCHANGED <<running, active_conns, shared, tool, output, timer, client, answer>>

(* The 500 ms are over and nobody signalled.                                *)
Escalate(e) ==
  /\ pc[e] = "grace"
  /\ recent_signals[IdOf[e]] # "fresh"
  /\ Goto(e, "discInt")
  /\ UNCHANGED <<running, active_conns, shared, tool, output, timer, suppress,
                 client, answer>>

(* Mutant: the escalation is left to the shim once TERM was sent.           *)
DisconnectWithoutKill(e) ==
  /\ \/ pc[e] = "discInt" /\ KillGroup(IdOf[e], "INT", "disconnect") /\ Goto(e, "discTerm")
     \/ pc[e] = "discTerm" /\ KillGroup(IdOf[e], "TERM", "disconnect") /\ Goto(e, "reap")
  /\ UNCHANGED <<running, active_conns, shared, pgid, output, timer, suppress,
                 client, answer>>

(* disconnect_terminate_exec_in_container: INT, TERM, KILL.                 *)
Disconnect(e) ==
  /\ \/ pc[e] = "discInt" /\ KillGroup(IdOf[e], "INT", "disconnect") /\ Goto(e, "discTerm")
     \/ pc[e] = "discTerm" /\ KillGroup(IdOf[e], "TERM", "disconnect") /\ Goto(e, "discKill")
     \/ pc[e] = "discKill" /\ KillGroup(IdOf[e], "KILL", "disconnect") /\ Goto(e, "reap")
  /\ UNCHANGED <<running, active_conns, shared, pgid, output, timer, suppress,
                 client, answer>>

(* The local docker client is killed and reaped; the tool is not.           *)
Reap(e) ==
  /\ pc[e] = "reap"
  /\ Forget(e)
  /\ Close(e)
  /\ UNCHANGED <<running, tool, output, watcher, timed_out, suppress, client, answer>>

-----------------------------------------------------------------------------
(* The buffered handler (v1).                                              *)

(* Mutant: the id is never taken out of the registry.                       *)
WaitBufferedKeepsId(e) ==
  /\ pc[e] = "buffer"
  /\ proc[e] \in Ended
  /\ done' = [done EXCEPT ![e] = TRUE]
  /\ Goto(e, "respond")
  /\ UNCHANGED <<running, active_conns, shared, tool, output, watcher, timed_out,
                 suppress, client, answer>>

WaitBuffered(e) ==
  /\ pc[e] = "buffer"
  /\ proc[e] \in Ended
  /\ Forget(e)
  /\ Goto(e, "respond")
  /\ UNCHANGED <<running, active_conns, tool, output, watcher, timed_out, suppress,
                 client, answer>>

(* Mutant: a failed write leaves the handler before active_conns goes down. *)
RespondKeepsCount(e) ==
  /\ pc[e] = "respond"
  /\ code' = [code EXCEPT ![e] = ExitCode(e)]
  /\ \/ CanWrite(e) /\ Write(e, <<"response">>) /\ active_conns' = active_conns - 1
     \/ CanFail(e) /\ UNCHANGED <<wire, active_conns>>
  /\ Goto(e, "closed")
  /\ UNCHANGED <<running, shared, tool, output, timer, suppress, client>>

(* 200 with the tool's exit code, or 504 when the watcher has started.      *)
Respond(e) ==
  /\ pc[e] = "respond"
  /\ code' = [code EXCEPT ![e] = ExitCode(e)]
  /\ \/ CanWrite(e) /\ Write(e, <<"response">>)
     \/ CanFail(e) /\ UNCHANGED wire
  /\ Close(e)
  /\ UNCHANGED <<running, shared, tool, output, timer, suppress, client>>

-----------------------------------------------------------------------------
(* A signal handler.                                                       *)

SignalLookup(s) ==
  /\ pc[s] = "accepted"
  /\ IF IdOf[s] \in exec_registry
       THEN Goto(s, "found") /\ UNCHANGED active_conns
       ELSE Close(s)
  /\ UNCHANGED <<running, shared, tool, output, timer, suppress, client, answer>>

(* The signal is recorded before it is sent.                                *)
SignalRecord(s) ==
  /\ pc[s] = "found"
  /\ recent_signals' = [recent_signals EXCEPT ![IdOf[s]] = "fresh"]
  /\ Goto(s, "recorded")
  /\ UNCHANGED <<running, active_conns, exec_registry, tool, output, timer, suppress,
                 client, answer>>

SignalSend(s) ==
  /\ pc[s] = "recorded"
  /\ KillGroup(IdOf[s], SignalOf[s], "signal")
  /\ Close(s)
  /\ UNCHANGED <<running, shared, pgid, output, timer, suppress, client, answer>>

(* 2300 ms after a signal.                                                  *)
SignalAges(i) ==
  /\ recent_signals[i] = "fresh"
  /\ recent_signals' = [recent_signals EXCEPT ![i] = "old"]
  /\ UNCHANGED <<running, active_conns, pc, exec_registry, tool, output, timer,
                 suppress, client, answer>>

-----------------------------------------------------------------------------
(* The peer of an exec.                                                    *)

Peer(e, from, to) ==
  /\ pc[e] \in Served
  /\ client[e] \in from
  /\ client' = [client EXCEPT ![e] = to]
  /\ UNCHANGED <<running, active_conns, pc, shared, tool, output, timer, suppress,
                 answer>>

ClientStalls(e) == Peer(e, {"reading"}, "stalled")
ClientResumes(e) == Peer(e, {"stalled"}, "reading")
ClientLeaves(e) == Peer(e, {"reading", "stalled"}, "gone")

-----------------------------------------------------------------------------
ExecHandler(e) ==
  \/ Reject(e) \/ Register(e) \/ SpawnFailed(e) \/ Spawn(e)
  \/ LoopTop(e) \/ RecvChunk(e) \/ RecvTimeout(e) \/ RecvClosed(e)
  \/ WaitChild(e) \/ Trailer(e)
  \/ Suppress(e) \/ Escalate(e) \/ Disconnect(e) \/ Reap(e)
  \/ WaitBuffered(e) \/ Respond(e)

SignalHandler(s) ==
  Reject(s) \/ SignalLookup(s) \/ SignalRecord(s) \/ SignalSend(s)

Watcher(e) == WatcherWakes(e) \/ WatcherSends(e)

(* Nothing is left to do: everybody was answered, dropped or never heard.   *)
Quiet ==
  /\ \A c \in Conn : pc[c] \in {"closed", "dropped"} \/ (~running /\ pc[c] = "calling")
  /\ UNCHANGED vars

Next ==
  \/ \E c \in Conn : Accept(c) \/ Drop(c)
  \/ \E e \in Exec : ExecHandler(e) \/ Watcher(e)
  \/ \E e \in Exec : RecordGroup(e) \/ ToolExits(e) \/ ToolPrints(e)
  \/ \E e \in Exec : ClientStalls(e) \/ ClientResumes(e) \/ ClientLeaves(e)
  \/ \E s \in Signal : SignalHandler(s)
  \/ \E i \in Id : SignalAges(i)
  \/ StopAccepting \/ StopSidecars \/ Quiet

(* Threads are scheduled, timers go off, a sidecar starts what it was asked *)
(* to start, and a peer that does not read reads again or leaves.  The tool *)
(* need not end by itself, nor a reading client leave.  A handler blocked   *)
(* in a write goes on once the peer has read something, even if the peer    *)
(* then stalls again: strong fairness.                                      *)
Fairness ==
  /\ \A e \in Exec : /\ SF_vars(ExecHandler(e))
                     /\ WF_vars(Watcher(e))
                     /\ WF_vars(RecordGroup(e))
                     /\ WF_vars(ClientResumes(e) \/ ClientLeaves(e))
  /\ \A s \in Signal : WF_vars(SignalHandler(s))

Spec == Init /\ [][Next]_vars /\ Fairness

-----------------------------------------------------------------------------
(* Properties.                                                             *)

Token == {"prelude", "chunk", "timeout", "trailer", "response"}

TypeOK ==
  /\ running \in BOOLEAN
  /\ active_conns \in Nat
  /\ pc \in [Conn -> Stage]
  /\ exec_registry \subseteq Id
  /\ recent_signals \in [Id -> {"none", "fresh", "old"}]
  /\ proc \in [Exec -> {"none", "starting", "running"} \cup Ended]
  /\ pgid \in [Id -> Exec \cup {NoExec}]
  /\ produced \in [Exec -> 0..MaxOutput]
  /\ channel \in [Exec -> 0..ChannelCap]
  /\ watcher \in [Exec -> Watching]
  /\ timed_out \in [Exec -> BOOLEAN]
  /\ done \in [Exec -> BOOLEAN]
  /\ suppress \subseteq Exec
  /\ client \in [Exec -> {"reading", "stalled", "gone"}]
  /\ wire \in [Exec -> Seq(Token)]
  /\ code \in [Exec -> {"none", "tool", "124", "86"}]

Serving == {c \in Conn : pc[c] \in Served}

(* An exec id that no other exec uses.                                      *)
Unshared(e) == \A x \in Exec : IdOf[x] = IdOf[e] => x = e

Alive(e) == proc[e] \in {"starting", "running"}

(* The connection limit turns a connection away only while MaxConns others  *)
(* are being served: no way out of a handler leaks its place.               *)
DroppedOnlyWhenFull ==
  [][\A c \in Conn : pc[c] # "dropped" /\ pc'[c] = "dropped"
       => Cardinality(Serving) = MaxConns]_vars

(* A tool that runs under a handler can be signalled, from its first        *)
(* instant on, unless another exec with its id is over: whoever comes and   *)
(* goes under other ids.                                                    *)
RunningIsSignallable ==
  \A e \in Exec :
    Alive(e) /\ pc[e] \in Served =>
      \/ IdOf[e] \in exec_registry
      \/ \E x \in Exec \ {e} : IdOf[x] = IdOf[e] /\ done[x]

(* The registry does not fill up with finished execs, except for those      *)
(* whose docker could not be run.                                           *)
RegistryIsCurrent ==
  \A i \in exec_registry :
    \E e \in Exec :
      IdOf[e] = i /\ (pc[e] \in Served \ {"accepted"} \/ code[e] = "86")

(* A tool that outlives its handler had its disconnect suppressed by a      *)
(* signal of the client's, or cannot be reached by any kill.                *)
NoOrphan ==
  \A e \in Exec :
    Alive(e) /\ Unshared(e) /\ pc[e] = "closed" => e \in suppress \cup FallbackDir

(* The answer to an exec that the watcher's signals ended says 124, in both *)
(* protocols: a timeout is never reported as an outcome of the tool.        *)
TimeoutIsReported ==
  \A e \in Exec : proc[e] = "watcher" /\ Unshared(e) => code[e] # "tool"

(* The body of a streamed answer starts after its prelude: "Ensure prelude  *)
(* is sent before emitting any chunk" (proxy.rs:1843).                      *)
PreludeFirst ==
  \A e \in Streaming : wire[e] # <<>> => wire[e][1] = "prelude"

(* The tool and the conclusion of each call, as a caller sees them.         *)
CallTool == [e \in Exec |-> IF Alive(e) THEN "running"
                            ELSE IF proc[e] = "none" THEN "none" ELSE "over"]
CallCause == [e \in Exec |-> IF proc[e] \in Ended THEN proc[e] ELSE "none"]
CallReply == [e \in Exec |->
  IF code[e] \in {"tool", "124"} THEN code[e]
  ELSE IF pc[e] \notin {"closed", "dropped"} THEN "none"
  ELSE IF proc[e] = "none" THEN "refused" ELSE "gaveUp"]

Promise == INSTANCE ToolCall WITH
  Call <- Exec, Alone <- {e \in Exec : Unshared(e)},
  tool <- CallTool, cause <- CallCause, reply <- CallReply

(* The proxy keeps the promise of ToolCall: whatever handlers, watchers,    *)
(* signals and leaving peers do, a call's tool starts once and ends once,   *)
(* its exit code is not decided on before it is over, and is decided once.  *)
KeepsPromise == Promise!Spec

(* Every exec that was accepted is over some day: a tool that never ends    *)
(* and ignores INT and TERM is killed, a peer that stalls or leaves does    *)
(* not keep its handler.                                                    *)
ExecEnds ==
  \A e \in Exec :
    (pc[e] = "accepted" /\ Unshared(e) /\ e \notin FallbackDir) ~> (pc[e] = "closed")
=============================================================================
