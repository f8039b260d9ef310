--------------------------- MODULE ExecProxyProof ---------------------------
(***************************************************************************)
(* Theorems of ExecProxy, for any connections, exec ids (shared ones, too), *)
(* signals, fallback directories and limits.                               *)
(*                                                                         *)
(* The inductive invariant IInv has three layers.  TypeInv: the loop's     *)
(* count is the number of the connections in a stage of a handler, so that *)
(* it can only be full when they are.  Lives: handler, tool, watcher and   *)
(* exit code of one exec agree at each stage (Life), nobody prints or is   *)
(* timed out before the tool's group was recorded (Recorded), and the      *)
(* watcher sends under its flag (Flagged).  Above them, facts that relate  *)
(* execs: the file of an exec id names a tool of that id (Named), which is *)
(* what makes a KILL reach the tool it is meant for (Reachable) and no     *)
(* other's watcher end it (TimedOut); and an id is in the registry exactly *)
(* as long as some handler is going to take it out, or docker failed       *)
(* (RegisteredBySome), or until another exec with that id did              *)
(* (RegisteredWhileBegun).                                                 *)
(*                                                                         *)
(* PromiseKept then maps each step to one of ToolCall or to no change, by  *)
(* what it does to tools (NextToolMoves) and to conclusions.               *)
(***************************************************************************)
EXTENDS ExecProxy, FiniteSetTheorems, TLAPS

-----------------------------------------------------------------------------
(* Types and the count of connections.                                     *)

(* The loop's count is the number of the handlers, which are never more     *)
(* than allowed.                                                            *)
Counted == active_conns = Cardinality(Serving) /\ active_conns <= MaxConns

(* Handlers of execs and of signals keep to stages of their own.            *)
OwnStage ==
  /\ \A e \in Exec : pc[e] \notin {"found", "recorded"}
  /\ \A s \in Signal :
       pc[s] \in {"calling", "dropped", "accepted", "found", "recorded", "closed"}

-----------------------------------------------------------------------------
(* One exec's life.                                                        *)

Fresh == {"calling", "dropped", "accepted", "registered"}
Leaving == {"grace", "discInt", "discTerm", "discKill", "reap"}
Begun == {"stream", "recv", "wait", "buffer"} \cup Leaving

(* The handler, its tool, its watcher and its exit code agree.              *)
Life(e) ==
  /\ pc[e] \in Fresh => proc[e] = "none" /\ watcher[e] = "off" /\ code[e] = "none"
  /\ pc[e] \in Begun \cup {"trailer", "respond"} => proc[e] # "none"
  /\ pc[e] \in {"wait", "trailer", "respond"} => proc[e] \in Ended
  /\ pc[e] \in Begun \cup {"respond"} => code[e] = "none"
  /\ pc[e] = "trailer" => code[e] \in {"tool", "124"}
  /\ code[e] = "86" => pc[e] = "closed" /\ proc[e] = "none"
  /\ code[e] \in {"tool", "124"} => proc[e] \in Ended
  /\ proc[e] = "none" => ~timed_out[e] /\ watcher[e] = "off"
  /\ done[e] => pc[e] \notin Fresh \cup Begun

(* A tool that has printed, or ran too long, has recorded its group; so has *)
(* one that a failed write is about.                                        *)
Recorded(e) ==
  channel[e] > 0 \/ timed_out[e] \/ pc[e] \in Leaving =>
    proc[e] \notin {"none", "starting"}

(* The watcher sends signals under its flag only.                           *)
Flagged(e) ==
  watcher[e] \in {"sendINT", "TERM", "sendTERM", "KILL", "sendKILL"} => timed_out[e]

(* A file names an exec of its id that can write files there.               *)
Named ==
  /\ \A i \in Id : pgid[i] # NoExec => IdOf[pgid[i]] = i /\ pgid[i] \notin FallbackDir
  /\ \A e \in Exec : Unshared(e) /\ e \notin FallbackDir /\ proc[e] = "running"
                        => pgid[IdOf[e]] = e

(* Escaped tools: the handler will not signal them any more.                *)
Reachable(e) ==
  Alive(e) /\ Unshared(e) /\ pc[e] \in {"reap", "closed"} => e \in suppress \cup FallbackDir

TimedOut(e) == proc[e] = "watcher" /\ Unshared(e) => timed_out[e] /\ code[e] # "tool"

(* Registered as long as a handler will forget it, or docker failed.        *)
RegisteredBySome ==
  \A i \in exec_registry :
    \E e \in Exec : IdOf[e] = i /\ (pc[e] \in {"registered"} \cup Begun \/ code[e] = "86")

RegisteredWhileBegun(e) ==
  pc[e] \in {"registered"} \cup Begun =>
    \/ IdOf[e] \in exec_registry
    \/ \E x \in Exec \ {e} : IdOf[x] = IdOf[e] /\ done[x]

IInv ==
  /\ TypeOK /\ Counted /\ OwnStage /\ Named /\ RegisteredBySome
  /\ \A e \in Exec : /\ Life(e) /\ Recorded(e) /\ Flagged(e)
                     /\ Reachable(e) /\ TimedOut(e) /\ RegisteredWhileBegun(e)

-----------------------------------------------------------------------------
(* Types, stages and the count.                                            *)

TypeInv == TypeOK /\ Counted /\ OwnStage

(* A handler that moves between stages of its own keeps its place.          *)
LEMMA PlaceKept ==
  ASSUME TypeInv, NEW c \in Conn, NEW stage \in Stage, Goto(c, stage),
         pc[c] \in Served <=> stage \in Served, UNCHANGED active_conns
  PROVE  Counted'
<1>1. Serving' = Serving
  BY DEF TypeInv, TypeOK, Serving, Goto
<1>2. QED
  BY <1>1 DEF TypeInv, Counted

(* A handler that returns gives its place up.                               *)
LEMMA PlaceLeft ==
  ASSUME TypeInv, NEW c \in Conn, pc[c] \in Served, Close(c)
  PROVE  Counted' /\ active_conns' \in Nat
<1>1. IsFiniteSet(Serving)
  BY ProxyAssumption, FS_Subset DEF Serving
<1>2. Serving' = Serving \ {c} /\ c \in Serving
  BY DEF TypeInv, TypeOK, Serving, Close, Goto, Served
<1>3. Cardinality(Serving') = Cardinality(Serving) - 1
  BY <1>1, <1>2, FS_RemoveElement
<1>4. Cardinality(Serving) \in Nat /\ Cardinality(Serving') \in Nat
  BY <1>1, <1>2, FS_CardinalityType, FS_RemoveElement
<1>5. QED
  BY <1>3, <1>4, ProxyAssumption DEF TypeInv, Counted, Close

(* A connection that is accepted takes a place that is free.                *)
LEMMA PlaceTaken ==
  ASSUME TypeInv, NEW c \in Conn, Accept(c)
  PROVE  Counted'
<1>1. IsFiniteSet(Serving)
  BY ProxyAssumption, FS_Subset DEF Serving
<1>2. Serving' = Serving \cup {c} /\ c \notin Serving
  BY DEF TypeInv, TypeOK, Serving, Accept, Goto, Served
<1>3. Cardinality(Serving') = Cardinality(Serving) + 1
  BY <1>1, <1>2, FS_AddElement
<1>4. QED
  BY <1>3, ProxyAssumption DEF TypeInv, TypeOK, Counted, Accept

(* An exec's handler goes to no stage of a signal's.                        *)
LEMMA ExecStage ==
  ASSUME TypeInv, NEW e \in Exec, NEW stage \in Stage \ {"found", "recorded"},
         Goto(e, stage)
  PROVE  OwnStage'
  BY ProxyAssumption DEF TypeInv, TypeOK, OwnStage, Goto, Conn

(* ... nor a signal's to one of an exec's.                                  *)
LEMMA SignalStage ==
  ASSUME TypeInv, NEW s \in Signal, NEW stage \in {"found", "recorded", "closed"},
         Goto(s, stage)
  PROVE  OwnStage'
  BY ProxyAssumption DEF TypeInv, TypeOK, OwnStage, Goto, Conn

(* What is written is a sequence of tokens.                                 *)
LEMMA WriteType ==
  ASSUME TypeOK, NEW e \in Exec, NEW s \in Seq(Token), Write(e, s)
  PROVE  wire' \in [Exec -> Seq(Token)]
<1>1. wire[e] \o s \in Seq(Token)
  BY DEF TypeOK
<1>2. QED
  BY <1>1 DEF TypeOK, Write

(* ... among them the prelude and each single token.                        *)
LEMMA PreludeType ==
  ASSUME NEW e \in Exec, NEW t \in Token
  PROVE  /\ Prelude(e) \in Seq(Token)
         /\ <<t>> \in Seq(Token)
         /\ Prelude(e) \o <<t>> \in Seq(Token)
<1>1. <<t>> \in Seq(Token)
  OBVIOUS
<1>2. <<"prelude">> \in Seq(Token) /\ <<>> \in Seq(Token)
  BY DEF Token
<1>3. Prelude(e) \in Seq(Token)
  BY <1>2 DEF Prelude
<1>4. QED
  BY <1>1, <1>3

(* A signal ends the tool whose group the file names, or nobody.            *)
LEMMA KillGroupKills ==
  ASSUME TypeOK, NEW i \in Id, NEW sig, NEW by \in Ended, KillGroup(i, sig, by)
  PROVE  \/ UNCHANGED proc
         \/ \E x \in Exec : /\ x = pgid[i] /\ proc[x] = "running"
                            /\ proc' = [proc EXCEPT ![x] = by]
  BY DEF TypeOK, KillGroup

(* ... and nobody else.                                                     *)
LEMMA KillGroupSpares ==
  ASSUME TypeOK, NEW i \in Id, NEW sig, NEW by \in Ended, KillGroup(i, sig, by),
         NEW x \in Exec
  PROVE  \/ proc'[x] = proc[x]
         \/ x = pgid[i] /\ proc[x] = "running" /\ proc'[x] = by
<1>1. CASE UNCHANGED proc
  BY <1>1
<1>2. ASSUME NEW y \in Exec, y = pgid[i], proc[y] = "running",
             proc' = [proc EXCEPT ![y] = by]
      PROVE  proc'[x] = proc[x] \/ (x = pgid[i] /\ proc[x] = "running" /\ proc'[x] = by)
  BY <1>2 DEF TypeOK
<1>3. QED
  BY <1>1, <1>2, KillGroupKills

(* A tool that was killed is one that is over.                              *)
LEMMA KillGroupType ==
  ASSUME TypeOK, NEW i \in Id, NEW sig, NEW by \in Ended, KillGroup(i, sig, by)
  PROVE  proc' \in [Exec -> {"none", "starting", "running"} \cup Ended]
<1>1. proc \in [Exec -> {"none", "starting", "running"} \cup Ended]
  BY DEF TypeOK
<1>2. QED
  BY <1>1, KillGroupKills

(* Before the first connection, nobody is served.                           *)
LEMMA InitTypeInv == Init => TypeInv
<1> SUFFICES ASSUME Init PROVE TypeInv
  OBVIOUS
<1>1. TypeOK
  BY ProxyAssumption DEF Init, TypeOK, Stage, Waiting, Watching, Ended
<1>2. Counted
  <2>1. Serving = {}
    BY DEF Init, Serving, Served
  <2>2. QED
    BY <2>1, FS_EmptySet, ProxyAssumption DEF Init, Counted
<1>3. OwnStage
  BY DEF Init, OwnStage, Conn
<1>4. QED
  BY <1>1, <1>2, <1>3 DEF TypeInv

(* The steps of an exec's handler.                                          *)
LEMMA ExecHandlerTypeInv ==
  ASSUME TypeInv, NEW e \in Exec, ExecHandler(e)
  PROVE  TypeInv'
<1> e \in Conn /\ e \notin Signal /\ IdOf[e] \in Id
  BY ProxyAssumption DEF Conn
<1> USE DEF TypeInv, Stage, Served, Waiting
<1>1. CASE Reject(e)
  <2>1. Counted'
    BY <1>1, PlaceLeft DEF Reject
  <2>2. OwnStage'
    BY <1>1, ExecStage DEF Reject, Close
  <2>3. TypeOK'
    BY <1>1, PlaceLeft DEF TypeOK, Reject, Goto, shared, tool, output, timer, answer, Close
  <2>4. QED
    BY <2>1, <2>2, <2>3
<1>2. CASE Register(e)
  <2>1. Counted'
    BY <1>2, PlaceKept DEF Register
  <2>2. OwnStage'
    BY <1>2, ExecStage DEF Register
  <2>3. TypeOK'
    BY <1>2 DEF TypeOK, Register, Goto, shared, tool, output, timer, answer
  <2>4. QED
    BY <2>1, <2>2, <2>3
<1>3. CASE SpawnFailed(e)
  <2>1. Counted'
    BY <1>3, PlaceLeft DEF SpawnFailed
  <2>2. OwnStage'
    BY <1>3, ExecStage DEF SpawnFailed, Close
  <2>3. TypeOK'
    BY <1>3, PlaceLeft DEF TypeOK, SpawnFailed, Goto, shared, tool, output, timer, answer, Close
  <2>4. QED
    BY <2>1, <2>2, <2>3
<1>4. CASE Spawn(e)
  <2>1. Counted'
    BY <1>4, PlaceKept DEF Spawn
  <2>2. OwnStage'
    BY <1>4, ExecStage DEF Spawn
  <2>3. TypeOK'
    BY <1>4 DEF TypeOK, Spawn, Goto, shared, tool, output, timer, answer, Watching
  <2>4. QED
    BY <2>1, <2>2, <2>3
<1>5. CASE LoopTop(e)
  <2>1. Counted'
    BY <1>5, PlaceKept DEF LoopTop
  <2>2. OwnStage'
    BY <1>5, ExecStage DEF LoopTop
  <2>3. TypeOK'
    BY <1>5, WriteType, PreludeType DEF TypeOK, LoopTop, Goto, shared, tool, output, timer, answer, Token
  <2>4. QED
    BY <2>1, <2>2, <2>3
<1>6. CASE RecvChunk(e)
  <2>1. Counted'
    BY <1>6, PlaceKept DEF RecvChunk
  <2>2. OwnStage'
    BY <1>6, ExecStage DEF RecvChunk
  <2>3. TypeOK'
    <3>1. wire' \in [Exec -> Seq(Token)]
      BY <1>6, WriteType, PreludeType DEF RecvChunk, TypeOK, Token
    <3>2. pc' \in [Conn -> Stage]
      BY <1>6 DEF RecvChunk, TypeOK, Goto
    <3>3. channel' \in [Exec -> 0..ChannelCap]
      <4>1. channel[e] - 1 \in 0..ChannelCap
        BY <1>6, ProxyAssumption DEF RecvChunk, TypeOK
      <4>2. QED
        BY <1>6, <4>1 DEF RecvChunk, TypeOK
    <3>4. QED
      BY <1>6, <3>1, <3>2, <3>3 DEF RecvChunk, TypeOK, shared, tool, timer
  <2>4. QED
    BY <2>1, <2>2, <2>3
<1>7. CASE RecvTimeout(e)
  <2>1. Counted'
    BY <1>7, PlaceKept DEF RecvTimeout
  <2>2. OwnStage'
    BY <1>7, ExecStage DEF RecvTimeout
  <2>3. TypeOK'
    BY <1>7 DEF TypeOK, RecvTimeout, Goto, shared, tool, output, timer, answer
  <2>4. QED
    BY <2>1, <2>2, <2>3
<1>8. CASE RecvClosed(e)
  <2>1. Counted'
    BY <1>8, PlaceKept DEF RecvClosed
  <2>2. OwnStage'
    BY <1>8, ExecStage DEF RecvClosed
  <2>3. TypeOK'
    BY <1>8, WriteType, PreludeType DEF TypeOK, RecvClosed, Goto, shared, tool, output, timer, answer, Token
  <2>4. QED
    BY <2>1, <2>2, <2>3
<1>9. CASE WaitChild(e)
  <2>1. Counted'
    BY <1>9, PlaceKept DEF WaitChild
  <2>2. OwnStage'
    BY <1>9, ExecStage DEF WaitChild
  <2>3. TypeOK'
    BY <1>9 DEF TypeOK, WaitChild, Goto, shared, tool, output, timer, answer, ExitCode, Forget
  <2>4. QED
    BY <2>1, <2>2, <2>3
<1>10. CASE Trailer(e)
  <2>1. Counted'
    BY <1>10, PlaceLeft DEF Trailer
  <2>2. OwnStage'
    BY <1>10, ExecStage DEF Trailer, Close
  <2>3. TypeOK'
    BY <1>10, PlaceLeft, WriteType, PreludeType DEF TypeOK, Trailer, Goto, shared, tool, output, timer, answer, Close, Token
  <2>4. QED
    BY <2>1, <2>2, <2>3
<1>11. CASE Suppress(e)
  <2>1. Counted'
    BY <1>11, PlaceKept DEF Suppress
  <2>2. OwnStage'
    BY <1>11, ExecStage DEF Suppress
  <2>3. TypeOK'
    BY <1>11 DEF TypeOK, Suppress, Goto, shared, tool, output, timer, answer
  <2>4. QED
    BY <2>1, <2>2, <2>3
<1>12. CASE Escalate(e)
  <2>1. Counted'
    BY <1>12, PlaceKept DEF Escalate
  <2>2. OwnStage'
    BY <1>12, ExecStage DEF Escalate
  <2>3. TypeOK'
    BY <1>12 DEF TypeOK, Escalate, Goto, shared, tool, output, timer, answer
  <2>4. QED
    BY <2>1, <2>2, <2>3
<1>13. CASE Disconnect(e)
  <2>1. Counted'
    BY <1>13, PlaceKept DEF Disconnect
  <2>2. OwnStage'
    BY <1>13, ExecStage DEF Disconnect
  <2>3. TypeOK'
    BY <1>13, KillGroupType DEF TypeOK, Disconnect, Goto, shared, tool, output, timer, answer, Ended
  <2>4. QED
    BY <2>1, <2>2, <2>3
<1>14. CASE Reap(e)
  <2>1. Counted'
    BY <1>14, PlaceLeft DEF Reap
  <2>2. OwnStage'
    BY <1>14, ExecStage DEF Reap, Close
  <2>3. TypeOK'
    BY <1>14, PlaceLeft DEF TypeOK, Reap, Goto, shared, tool, output, timer, answer, Close, Forget
  <2>4. QED
    BY <2>1, <2>2, <2>3
<1>15. CASE WaitBuffered(e)
  <2>1. Counted'
    BY <1>15, PlaceKept DEF WaitBuffered
  <2>2. OwnStage'
    BY <1>15, ExecStage DEF WaitBuffered
  <2>3. TypeOK'
    BY <1>15 DEF TypeOK, WaitBuffered, Goto, shared, tool, output, timer, answer, Forget
  <2>4. QED
    BY <2>1, <2>2, <2>3
<1>16. CASE Respond(e)
  <2>1. Counted'
    BY <1>16, PlaceLeft DEF Respond
  <2>2. OwnStage'
    BY <1>16, ExecStage DEF Respond, Close
  <2>3. TypeOK'
    BY <1>16, PlaceLeft, WriteType, PreludeType DEF TypeOK, Respond, Goto, shared, tool, output, timer, answer, Close, Token, ExitCode
  <2>4. QED
    BY <2>1, <2>2, <2>3
<1>17. QED
  BY <1>1, <1>2, <1>3, <1>4, <1>5, <1>6, <1>7, <1>8, <1>9, <1>10, <1>11, <1>12, <1>13, <1>14, <1>15, <1>16 DEF ExecHandler

(* The steps of a signal's handler.                                         *)
LEMMA SignalHandlerTypeInv ==
  ASSUME TypeInv, NEW s \in Signal, SignalHandler(s)
  PROVE  TypeInv'
<1> s \in Conn /\ s \notin Exec /\ IdOf[s] \in Id
  BY ProxyAssumption DEF Conn
<1> USE DEF TypeInv, Stage, Served, Waiting
<1>1. CASE Reject(s)
  <2>1. Counted'
    BY <1>1, PlaceLeft DEF Reject
  <2>2. OwnStage'
    BY <1>1, SignalStage DEF Reject, Close
  <2>3. TypeOK'
    BY <1>1, PlaceLeft DEF TypeOK, Reject, Goto, shared, tool, output, timer, answer, Close
  <2>4. QED
    BY <2>1, <2>2, <2>3
<1>2. CASE SignalLookup(s)
  <2>1. CASE IdOf[s] \in exec_registry
    <3>1. Counted'
      BY <1>2, <2>1, PlaceKept DEF SignalLookup
    <3>2. OwnStage'
      BY <1>2, <2>1, SignalStage DEF SignalLookup
    <3>3. TypeOK'
      BY <1>2, <2>1 DEF TypeOK, SignalLookup, Goto, shared, tool, output, timer, answer
    <3>4. QED
      BY <3>1, <3>2, <3>3
  <2>2. CASE IdOf[s] \notin exec_registry
    <3>1. Counted'
      BY <1>2, <2>2, PlaceLeft DEF SignalLookup
    <3>2. OwnStage'
      BY <1>2, <2>2, SignalStage DEF SignalLookup, Close
    <3>3. TypeOK'
      BY <1>2, <2>2, PlaceLeft
      DEF TypeOK, SignalLookup, Goto, Close, shared, tool, output, timer, answer
    <3>4. QED
      BY <3>1, <3>2, <3>3
  <2>3. QED
    BY <2>1, <2>2
<1>3. CASE SignalRecord(s)
  <2>1. Counted'
    BY <1>3, PlaceKept DEF SignalRecord
  <2>2. OwnStage'
    BY <1>3, SignalStage DEF SignalRecord
  <2>3. TypeOK'
    BY <1>3 DEF TypeOK, SignalRecord, Goto, tool, output, timer, answer
  <2>4. QED
    BY <2>1, <2>2, <2>3
<1>4. CASE SignalSend(s)
  <2>1. Counted'
    BY <1>4, PlaceLeft DEF SignalSend
  <2>2. OwnStage'
    BY <1>4, SignalStage DEF SignalSend, Close
  <2>3. TypeOK'
    BY <1>4, PlaceLeft, KillGroupType
    DEF TypeOK, SignalSend, Goto, Close, shared, output, timer, answer, Ended
  <2>4. QED
    BY <2>1, <2>2, <2>3
<1>5. QED
  BY <1>1, <1>2, <1>3, <1>4 DEF SignalHandler

(* What happens beside the handlers: no connection moves.                   *)
LEMMA StillTypeInv ==
  ASSUME TypeInv, TypeOK', UNCHANGED <<active_conns, pc>>
  PROVE  TypeInv'
  BY DEF TypeInv, Counted, Serving, OwnStage

(* No step breaks types, stages or the count.                               *)
LEMMA NextTypeInv == TypeInv /\ [Next]_vars => TypeInv'
<1> SUFFICES ASSUME TypeInv, [Next]_vars
             PROVE  TypeInv'
  OBVIOUS
<1> TypeOK
  BY DEF TypeInv
<1> USE DEF shared, tool, output, timer, answer
<1>1. ASSUME NEW c \in Conn, Accept(c)
      PROVE  TypeInv'
  <2>1. OwnStage'
    BY <1>1 DEF TypeInv, OwnStage, TypeOK, Accept, Goto
  <2>2. TypeOK'
    BY <1>1 DEF TypeOK, Accept, Goto, Stage, Served
  <2>3. QED
    BY <1>1, <2>1, <2>2, PlaceTaken DEF TypeInv
<1>2. ASSUME NEW c \in Conn, Drop(c)
      PROVE  TypeInv'
  <2>1. OwnStage'
    BY <1>2 DEF TypeInv, OwnStage, TypeOK, Drop, Goto
  <2>2. TypeOK'
    BY <1>2 DEF TypeOK, Drop, Goto, Stage, Waiting
  <2>3. Counted'
    BY <1>2, PlaceKept DEF Drop, Stage, Waiting, Served
  <2>4. QED
    BY <2>1, <2>2, <2>3 DEF TypeInv
<1>3. ASSUME NEW e \in Exec, WatcherWakes(e)
      PROVE  TypeInv'
  <2>1. watcher' \in [Exec -> Watching] /\ timed_out' \in [Exec -> BOOLEAN]
    BY <1>3 DEF TypeOK, WatcherWakes, Watching
  <2>2. QED
    BY <1>3, <2>1, StillTypeInv DEF TypeOK, WatcherWakes
<1>4. ASSUME NEW e \in Exec, WatcherSends(e)
      PROVE  TypeInv'
  <2>1. watcher' \in [Exec -> Watching]
    BY <1>4 DEF TypeOK, WatcherSends, Watching
  <2>2. IdOf[e] \in Id
    BY ProxyAssumption DEF Conn
  <2>3. proc' \in [Exec -> {"none", "starting", "running"} \cup Ended]
    BY <1>4, <2>2, KillGroupType DEF WatcherSends, Ended
  <2>4. QED
    BY <1>4, <2>1, <2>3, StillTypeInv DEF TypeOK, WatcherSends
<1>5. ASSUME NEW e \in Exec, RecordGroup(e)
      PROVE  TypeInv'
  <2>1. pgid' \in [Id -> Exec \cup {NoExec}]
    BY <1>5 DEF TypeOK, RecordGroup
  <2>2. QED
    BY <1>5, <2>1, StillTypeInv DEF TypeOK, RecordGroup
<1>6. ASSUME NEW e \in Exec, ToolExits(e)
      PROVE  TypeInv'
  BY <1>6, StillTypeInv DEF TypeOK, ToolExits, Ended
<1>7. ASSUME NEW e \in Exec, ToolPrints(e)
      PROVE  TypeInv'
  <2>1. produced' \in [Exec -> 0..MaxOutput] /\ channel' \in [Exec -> 0..ChannelCap]
    BY <1>7, ProxyAssumption DEF TypeOK, ToolPrints
  <2>2. QED
    BY <1>7, <2>1, StillTypeInv DEF TypeOK, ToolPrints
<1>8. ASSUME NEW e \in Exec, ClientStalls(e) \/ ClientResumes(e) \/ ClientLeaves(e)
      PROVE  TypeInv'
  BY <1>8, StillTypeInv DEF TypeOK, ClientStalls, ClientResumes, ClientLeaves, Peer
<1>9. ASSUME NEW i \in Id, SignalAges(i)
      PROVE  TypeInv'
  BY <1>9, StillTypeInv DEF TypeOK, SignalAges
<1>10. CASE StopAccepting
  BY <1>10, StillTypeInv DEF TypeOK, StopAccepting
<1>11. CASE StopSidecars
  <2>1. proc' \in [Exec -> {"none", "starting", "running"} \cup Ended]
    BY <1>11 DEF TypeOK, StopSidecars, Ended
  <2>2. QED
    BY <1>11, <2>1, StillTypeInv DEF TypeOK, StopSidecars
<1>12. CASE UNCHANGED vars
  BY <1>12, StillTypeInv DEF TypeOK, vars
<1>13. QED
  BY <1>1, <1>2, <1>3, <1>4, <1>5, <1>6, <1>7, <1>8, <1>9, <1>10, <1>11, <1>12,
     ExecHandlerTypeInv, SignalHandlerTypeInv
  DEF Next, Watcher, Quiet

-----------------------------------------------------------------------------
(* One exec's life.                                                        *)

Lives == \A x \in Exec : Life(x) /\ Recorded(x) /\ Flagged(x)

(* Nothing happens to an exec.                                              *)
LEMMA LifeKept ==
  ASSUME NEW x \in Exec, Life(x), Recorded(x), Flagged(x),
         pc'[x] = pc[x], proc'[x] = proc[x], watcher'[x] = watcher[x],
         code'[x] = code[x], timed_out'[x] = timed_out[x], done'[x] = done[x],
         channel'[x] = channel[x]
  PROVE  Life(x)' /\ Recorded(x)' /\ Flagged(x)'
  BY DEF Life, Recorded, Flagged

(* The tool of an exec ends.                                                *)
LEMMA LifeEnds ==
  ASSUME NEW x \in Exec, Life(x), Recorded(x), Flagged(x), Alive(x),
         pc'[x] = pc[x], proc'[x] \in Ended, watcher'[x] = watcher[x],
         code'[x] = code[x], timed_out'[x] = timed_out[x], done'[x] = done[x],
         channel'[x] = channel[x]
  PROVE  Life(x)' /\ Recorded(x)' /\ Flagged(x)'
  BY DEF Life, Recorded, Flagged, Alive, Ended, Fresh, Begun, Leaving

(* The steps of the exec's own handler, and of another's.                  *)
LEMMA ExecHandlerLives ==
  ASSUME TypeInv, Lives, NEW e \in Exec, ExecHandler(e)
  PROVE  Lives'
<1> SUFFICES ASSUME NEW x \in Exec
             PROVE  Life(x)' /\ Recorded(x)' /\ Flagged(x)'
  BY DEF Lives
<1> e \in Conn /\ x \in Conn
  BY DEF Conn
<1> Life(x) /\ Recorded(x) /\ Flagged(x) /\ TypeOK
  BY DEF Lives, TypeInv
<1> USE DEF Goto, Close, shared, tool, output, timer, answer, Fresh, Begun, Leaving
<1>1. CASE Reject(e)
  BY <1>1, LifeKept DEF TypeOK, Life, Recorded, Flagged, Ended, Reject
<1>2. CASE Register(e)
  BY <1>2, LifeKept DEF TypeOK, Life, Recorded, Flagged, Ended, Register
<1>3. CASE SpawnFailed(e)
  BY <1>3, LifeKept DEF TypeOK, Life, Recorded, Flagged, Ended, SpawnFailed
<1>4. CASE Spawn(e)
  <2>1. CASE x = e
    <3>1. pc'[e] \in {"stream", "buffer"}
      BY <1>4 DEF TypeOK, Spawn
    <3>2. proc'[e] = "starting" /\ watcher'[e] = "INT"
      BY <1>4 DEF TypeOK, Spawn
    <3>3. pc[e] = "registered" /\ UNCHANGED <<code, channel, timed_out, done>>
      BY <1>4 DEF Spawn
    <3>4. proc[e] = "none" /\ code'[e] = "none" /\ ~done'[e]
      BY <2>1, <3>3 DEF Life
    <3>5. ~timed_out'[e] /\ ~(channel'[e] > 0)
      BY <2>1, <3>3, <3>4 DEF Recorded
    <3>6. QED
      BY <2>1, <3>1, <3>2, <3>4, <3>5 DEF Life, Recorded, Flagged, Ended
  <2>2. CASE x # e
    BY <1>4, <2>2, LifeKept DEF TypeOK, Spawn
  <2>3. QED
    BY <2>1, <2>2
<1>5. CASE LoopTop(e)
  <2>1. \/ Goto(e, "recv")
        \/ timed_out[e] /\ Goto(e, "grace")
    BY <1>5 DEF LoopTop, TimeoutChunkDue
  <2>2. pc[e] = "stream" /\ UNCHANGED <<code, tool, output, timer>>
    BY <1>5 DEF LoopTop
  <2>3. QED
    BY <2>1, <2>2, LifeKept DEF TypeOK, Life, Recorded, Flagged, Ended
<1>6. CASE RecvChunk(e)
  BY <1>6, LifeKept DEF TypeOK, Life, Recorded, Flagged, Ended, RecvChunk
<1>7. CASE RecvTimeout(e)
  BY <1>7, LifeKept DEF TypeOK, Life, Recorded, Flagged, Ended, RecvTimeout
<1>8. CASE RecvClosed(e)
  BY <1>8, LifeKept DEF TypeOK, Life, Recorded, Flagged, Ended, RecvClosed
<1>9. CASE WaitChild(e)
  BY <1>9, LifeKept DEF TypeOK, Life, Recorded, Flagged, Ended, WaitChild, Forget, ExitCode
<1>10. CASE Trailer(e)
  BY <1>10, LifeKept DEF TypeOK, Life, Recorded, Flagged, Ended, Trailer
<1>11. CASE Suppress(e)
  BY <1>11, LifeKept DEF TypeOK, Life, Recorded, Flagged, Ended, Suppress
<1>12. CASE Escalate(e)
  BY <1>12, LifeKept DEF TypeOK, Life, Recorded, Flagged, Ended, Escalate
<1>13. CASE Disconnect(e)
  <2>1. IdOf[e] \in Id
    BY ProxyAssumption
  <2>2. \/ proc'[x] = proc[x]
        \/ proc[x] = "running" /\ proc'[x] \in Ended
    BY <1>13, <2>1, KillGroupSpares DEF Disconnect, Ended
  <2>3. /\ pc[e] \in {"discInt", "discTerm", "discKill"}
        /\ \E stage \in {"discTerm", "discKill", "reap"} : Goto(e, stage)
        /\ UNCHANGED <<code, watcher, timed_out, done, channel>>
    BY <1>13 DEF Disconnect
  <2>4. QED
    BY <2>2, <2>3, LifeKept DEF TypeOK, Life, Recorded, Flagged, Ended
<1>14. CASE Reap(e)
  BY <1>14, LifeKept DEF TypeOK, Life, Recorded, Flagged, Ended, Reap, Forget
<1>15. CASE WaitBuffered(e)
  BY <1>15, LifeKept DEF TypeOK, Life, Recorded, Flagged, Ended, WaitBuffered, Forget
<1>16. CASE Respond(e)
  BY <1>16, LifeKept DEF TypeOK, Life, Recorded, Flagged, Ended, Respond, ExitCode
<1>17. QED
  BY <1>1, <1>2, <1>3, <1>4, <1>5, <1>6, <1>7, <1>8, <1>9, <1>10, <1>11, <1>12, <1>13, <1>14, <1>15, <1>16 DEF ExecHandler

(* The steps of the tool, of the watcher and of the others.                 *)
LEMMA NextLives == TypeInv /\ Lives /\ [Next]_vars => Lives'
<1> SUFFICES ASSUME TypeInv, Lives, [Next]_vars
             PROVE  Lives'
  OBVIOUS
<1> TypeOK
  BY DEF TypeInv
<1>1. CASE \E e \in Exec : ExecHandler(e)
  BY <1>1, ExecHandlerLives
<1>2. CASE ~\E e \in Exec : ExecHandler(e)
  <2> SUFFICES ASSUME NEW x \in Exec
               PROVE  Life(x)' /\ Recorded(x)' /\ Flagged(x)'
    BY DEF Lives
  <2> x \in Conn /\ x \notin Signal
    BY ProxyAssumption DEF Conn
  <2> Life(x) /\ Recorded(x) /\ Flagged(x)
    BY DEF Lives
  <2> USE DEF Goto, Close, shared, tool, output, timer, answer, Fresh, Begun, Leaving
  <2>1. ASSUME NEW c \in Conn, Accept(c) \/ Drop(c)
        PROVE  Life(x)' /\ Recorded(x)' /\ Flagged(x)'
    BY <2>1, LifeKept DEF TypeOK, Life, Recorded, Flagged, Accept, Drop, Ended
  <2>2. ASSUME NEW e \in Exec, WatcherWakes(e)
        PROVE  Life(x)' /\ Recorded(x)' /\ Flagged(x)'
    <3>1. watcher[e] \in {"INT", "TERM", "KILL"} /\ proc[e] # "starting"
      BY <2>2 DEF WatcherWakes
    <3>2. UNCHANGED <<pc, proc, code, done, channel>>
      BY <2>2 DEF WatcherWakes
    <3>3. \/ watcher'[e] = "over" /\ UNCHANGED timed_out
          \/ timed_out' = [timed_out EXCEPT ![e] = @ \/ watcher[e] = "INT"]
      BY <2>2 DEF WatcherWakes, TypeOK
    <3>4. timed_out'[x] \/ (timed_out'[x] <=> timed_out[x])
      BY <3>3 DEF TypeOK
    <3>5. CASE x = e
      <4>1. timed_out'[e] \/ watcher'[e] = "over"
        BY <3>1, <3>3, <3>5 DEF TypeOK, Flagged
      <4>2. proc[e] # "none"
        BY <3>1, <3>5 DEF Life
      <4>3. QED
        BY <3>1, <3>2, <3>4, <3>5, <4>1, <4>2 DEF Life, Recorded, Flagged
    <3>6. CASE x # e
      <4>1. watcher'[x] = watcher[x]
        BY <2>2, <3>6 DEF WatcherWakes, TypeOK
      <4>2. timed_out'[x] = timed_out[x]
        BY <3>3, <3>6 DEF TypeOK
      <4>3. QED
        BY <3>2, <4>1, <4>2, LifeKept
    <3>7. QED
      BY <3>5, <3>6
  <2>3. ASSUME NEW e \in Exec, WatcherSends(e)
        PROVE  Life(x)' /\ Recorded(x)' /\ Flagged(x)'
    <3>1. IdOf[e] \in Id
      BY ProxyAssumption DEF Conn
    <3>2. \/ proc'[x] = proc[x]
          \/ proc[x] = "running" /\ proc'[x] \in Ended
      BY <2>3, <3>1, KillGroupSpares DEF WatcherSends, Ended
    <3>3. QED
      BY <2>3, <3>2, LifeKept DEF TypeOK, Life, Recorded, Flagged, WatcherSends, Ended
  <2>4. ASSUME NEW e \in Exec, RecordGroup(e)
        PROVE  Life(x)' /\ Recorded(x)' /\ Flagged(x)'
    BY <2>4, LifeKept DEF TypeOK, Life, Recorded, Flagged, RecordGroup, Ended
  <2>5. ASSUME NEW e \in Exec, ToolExits(e)
        PROVE  Life(x)' /\ Recorded(x)' /\ Flagged(x)'
    BY <2>5, LifeKept, LifeEnds DEF TypeOK, ToolExits, Ended, Alive
  <2>6. ASSUME NEW e \in Exec, ToolPrints(e)
        PROVE  Life(x)' /\ Recorded(x)' /\ Flagged(x)'
    BY <2>6, LifeKept DEF TypeOK, Life, Recorded, Flagged, ToolPrints, Ended
  <2>7. ASSUME NEW e \in Exec, ClientStalls(e) \/ ClientResumes(e) \/ ClientLeaves(e)
        PROVE  Life(x)' /\ Recorded(x)' /\ Flagged(x)'
    BY <2>7, LifeKept DEF ClientStalls, ClientResumes, ClientLeaves, Peer
  <2>8. ASSUME NEW s \in Signal, SignalHandler(s)
        PROVE  Life(x)' /\ Recorded(x)' /\ Flagged(x)'
    <3>1. s \in Conn /\ s # x /\ IdOf[s] \in Id
      BY ProxyAssumption DEF Conn
    <3>2. CASE SignalSend(s)
      <4>1. \/ proc'[x] = proc[x]
            \/ proc[x] = "running" /\ proc'[x] \in Ended
        BY <3>1, <3>2, KillGroupSpares DEF SignalSend, Ended
      <4>2. QED
        BY <3>1, <3>2, <4>1, LifeKept, LifeEnds DEF TypeOK, SignalSend, Alive
    <3>3. CASE Reject(s) \/ SignalLookup(s) \/ SignalRecord(s)
      BY <3>1, <3>3, LifeKept DEF TypeOK, Reject, SignalLookup, SignalRecord
    <3>4. QED
      BY <2>8, <3>2, <3>3 DEF SignalHandler
  <2>9. ASSUME NEW i \in Id, SignalAges(i)
        PROVE  Life(x)' /\ Recorded(x)' /\ Flagged(x)'
    BY <2>9, LifeKept DEF SignalAges
  <2>10. CASE StopAccepting
    BY <2>10, LifeKept DEF StopAccepting
  <2>11. CASE StopSidecars
    BY <2>11, LifeKept, LifeEnds DEF TypeOK, StopSidecars, Alive, Ended
  <2>12. CASE UNCHANGED vars
    BY <2>12, LifeKept DEF vars
  <2>13. QED
    BY <1>2, <2>1, <2>2, <2>3, <2>4, <2>5, <2>6, <2>7, <2>8, <2>9, <2>10, <2>11, <2>12
    DEF Next, Watcher, Quiet
<1>3. QED
  BY <1>1, <1>2

-----------------------------------------------------------------------------
(* What a step does to the tools, and what it leaves alone.                 *)

(* Who ends the tool of x by a signal: the one whose exec id its file has.  *)
Signalled(x) ==
  \/ \E e \in Exec : /\ WatcherSends(e) /\ x = pgid[IdOf[e]]
                     /\ proc'[x] = "watcher"
  \/ \E e \in Exec : /\ Disconnect(e) /\ x = pgid[IdOf[e]]
                     /\ proc'[x] = "disconnect"
  \/ \E s \in Signal : SignalSend(s) /\ proc'[x] = "signal"

ToolMoves(x) ==
  \/ proc'[x] = proc[x]
  \/ Spawn(x) /\ proc'[x] = "starting"
  \/ RecordGroup(x) /\ proc'[x] = "running"
  \/ ToolExits(x) /\ proc'[x] = "itself"
  \/ proc[x] = "running" /\ Signalled(x)
  \/ Alive(x) /\ StopSidecars /\ proc'[x] = "session"

(* Those are the ways a tool goes: it is started, recorded, ends, is killed *)
(* by whoever its group's file leads to it, or stopped with its sidecar.    *)
LEMMA NextToolMoves ==
  ASSUME TypeInv, [Next]_vars, NEW x \in Exec
  PROVE  ToolMoves(x)
<1> TypeOK
  BY DEF TypeInv
<1> USE DEF ToolMoves, tool
<1>1. ASSUME NEW c \in Conn, Accept(c) \/ Drop(c)
      PROVE  ToolMoves(x)
  BY <1>1 DEF Accept, Drop
<1>2. ASSUME NEW e \in Exec, ExecHandler(e)
      PROVE  ToolMoves(x)
  <2>1. CASE Spawn(e)
    BY <2>1 DEF TypeOK, Spawn
  <2>2. CASE Disconnect(e)
    <3>1. IdOf[e] \in Id
      BY ProxyAssumption DEF Conn
    <3>2. \/ proc'[x] = proc[x]
          \/ x = pgid[IdOf[e]] /\ proc[x] = "running" /\ proc'[x] = "disconnect"
      BY <2>2, <3>1, KillGroupSpares DEF Disconnect, Ended
    <3>3. QED
      BY <2>2, <3>2 DEF Signalled
  <2>3. CASE ~Spawn(e) /\ ~Disconnect(e)
    BY <1>2, <2>3
    DEF ExecHandler, Reject, Register, SpawnFailed, LoopTop, RecvChunk, RecvTimeout,
        RecvClosed, WaitChild, Trailer, Suppress, Escalate, Reap, WaitBuffered, Respond
  <2>4. QED
    BY <2>1, <2>2, <2>3
<1>3. ASSUME NEW e \in Exec, WatcherWakes(e)
      PROVE  ToolMoves(x)
  BY <1>3 DEF WatcherWakes
<1>4. ASSUME NEW e \in Exec, WatcherSends(e)
      PROVE  ToolMoves(x)
  <2>1. IdOf[e] \in Id
    BY ProxyAssumption DEF Conn
  <2>2. \/ proc'[x] = proc[x]
        \/ x = pgid[IdOf[e]] /\ proc[x] = "running" /\ proc'[x] = "watcher"
    BY <1>4, <2>1, KillGroupSpares DEF WatcherSends, Ended
  <2>3. QED
    BY <1>4, <2>2 DEF Signalled
<1>5. ASSUME NEW e \in Exec, RecordGroup(e) \/ ToolExits(e)
      PROVE  ToolMoves(x)
  BY <1>5 DEF TypeOK, RecordGroup, ToolExits
<1>6. ASSUME NEW e \in Exec,
             \/ ToolPrints(e)
             \/ ClientStalls(e) \/ ClientResumes(e) \/ ClientLeaves(e)
      PROVE  ToolMoves(x)
  BY <1>6 DEF ToolPrints, ClientStalls, ClientResumes, ClientLeaves, Peer
<1>7. ASSUME NEW s \in Signal, SignalHandler(s)
      PROVE  ToolMoves(x)
  <2>1. CASE SignalSend(s)
    <3>1. IdOf[s] \in Id
      BY ProxyAssumption DEF Conn
    <3>2. \/ proc'[x] = proc[x]
          \/ proc[x] = "running" /\ proc'[x] = "signal"
      BY <2>1, <3>1, KillGroupSpares DEF SignalSend, Ended
    <3>3. QED
      BY <2>1, <3>2 DEF Signalled
  <2>2. CASE ~SignalSend(s)
    BY <1>7, <2>2 DEF SignalHandler, Reject, SignalLookup, SignalRecord
  <2>3. QED
    BY <2>1, <2>2
<1>8. ASSUME NEW i \in Id, SignalAges(i)
      PROVE  ToolMoves(x)
  BY <1>8 DEF SignalAges
<1>9. CASE StopAccepting
  BY <1>9 DEF StopAccepting
<1>10. CASE StopSidecars
  BY <1>10 DEF TypeOK, StopSidecars, Alive
<1>11. CASE UNCHANGED vars
  BY <1>11 DEF vars
<1>12. QED
  BY <1>1, <1>2, <1>3, <1>4, <1>5, <1>6, <1>7, <1>8, <1>9, <1>10, <1>11
  DEF Next, Watcher, Quiet

(* A tool that is alive was so before, unless it is started.                *)
LEMMA NobodyRevives ==
  ASSUME TypeInv, [Next]_vars, NEW x \in Exec, Alive(x)'
  PROVE  Alive(x) \/ Spawn(x)
BY NextToolMoves DEF ToolMoves, Signalled, Alive, RecordGroup, ToolExits

(* The files of the groups are written by wrappers only.                    *)
LEMMA NextFiles ==
  ASSUME [Next]_vars
  PROVE  UNCHANGED pgid \/ \E e \in Exec : RecordGroup(e) \/ ToolExits(e)
BY DEF Next, Watcher, Quiet, Accept, Drop, WatcherWakes, WatcherSends, ToolPrints,
       ClientStalls, ClientResumes, ClientLeaves, Peer, SignalHandler, SignalLookup,
       SignalRecord, SignalSend, SignalAges, StopAccepting, StopSidecars, vars, tool,
       ExecHandler, Reject, Register, SpawnFailed, Spawn, LoopTop, RecvChunk,
       RecvTimeout, RecvClosed, WaitChild, Trailer, Suppress, Escalate, Disconnect,
       Reap, WaitBuffered, Respond

(* Beside the handlers of execs, nothing is registered, forgotten, decided  *)
(* or suppressed, and no exec gets further than to be accepted.             *)
LEMMA NextBeside ==
  ASSUME TypeInv, [Next]_vars, ~\E e \in Exec : ExecHandler(e)
  PROVE  /\ UNCHANGED <<exec_registry, done, code, suppress>>
         /\ \A x \in Exec : \/ pc'[x] = pc[x]
                            \/ pc[x] = "calling" /\ pc'[x] \in {"accepted", "dropped"}
<1> TypeOK
  BY DEF TypeInv
<1> USE DEF shared, tool, output, timer, answer
<1>1. ASSUME NEW c \in Conn, Accept(c) \/ Drop(c)
      PROVE  /\ UNCHANGED <<exec_registry, done, code, suppress>>
             /\ \A x \in Exec : \/ pc'[x] = pc[x]
                                \/ pc[x] = "calling" /\ pc'[x] \in {"accepted", "dropped"}
  BY <1>1 DEF TypeOK, Accept, Drop, Goto, Conn
<1>2. ASSUME NEW s \in Signal, SignalHandler(s)
      PROVE  /\ UNCHANGED <<exec_registry, done, code, suppress>>
             /\ \A x \in Exec : pc'[x] = pc[x]
  <2>1. \A x \in Exec : x # s
    BY ProxyAssumption
  <2>2. QED
    BY <1>2, <2>1
    DEF TypeOK, SignalHandler, Reject, SignalLookup, SignalRecord, SignalSend, Goto,
        Close, Conn
<1>3. QED
  BY <1>1, <1>2
  DEF Next, Watcher, Quiet, WatcherWakes, WatcherSends, RecordGroup, ToolExits,
      ToolPrints, ClientStalls, ClientResumes, ClientLeaves, Peer, SignalAges,
      StopAccepting, StopSidecars, vars

-----------------------------------------------------------------------------
(* The files that name the groups.                                         *)

(* A wrapper writes its own group, and its end removes no other's whose id  *)
(* it does not share.                                                       *)
LEMMA NextNamed == TypeInv /\ Named /\ [Next]_vars => Named'
<1> SUFFICES ASSUME TypeInv, Named, [Next]_vars
             PROVE  Named'
  OBVIOUS
<1> TypeOK
  BY DEF TypeInv
<1> \A x \in Exec : IdOf[x] \in Id
  BY ProxyAssumption DEF Conn
<1>1. ASSUME NEW e \in Exec, RecordGroup(e)
      PROVE  Named'
  <2>1. \A x \in Exec \ {e} : proc'[x] = proc[x]
    BY <1>1 DEF TypeOK, RecordGroup
  <2>2. CASE e \in FallbackDir
    BY <1>1, <2>1, <2>2 DEF TypeOK, Named, RecordGroup, Unshared
  <2>3. CASE e \notin FallbackDir
    <3>1. pgid'[IdOf[e]] = e /\ \A i \in Id \ {IdOf[e]} : pgid'[i] = pgid[i]
      BY <1>1, <2>3 DEF TypeOK, RecordGroup
    <3>2. \A i \in Id : pgid'[i] # NoExec => IdOf[pgid'[i]] = i /\ pgid'[i] \notin FallbackDir
      BY <2>3, <3>1 DEF Named
    <3>3. ASSUME NEW x \in Exec, Unshared(x), x \notin FallbackDir, proc'[x] = "running"
          PROVE  pgid'[IdOf[x]] = x
      <4>1. x # e => IdOf[x] # IdOf[e]
        BY <3>3 DEF Unshared
      <4>2. QED
        BY <2>1, <3>1, <3>3, <4>1 DEF Named
    <3>4. QED
      BY <3>2, <3>3 DEF Named, Unshared
  <2>4. QED
    BY <2>2, <2>3
<1>2. ASSUME NEW e \in Exec, ToolExits(e)
      PROVE  Named'
  <2>1. \A x \in Exec : proc'[x] = "running" => x # e /\ proc[x] = "running"
    BY <1>2 DEF TypeOK, ToolExits
  <2>2. \A i \in Id : pgid'[i] \in {pgid[i], NoExec} /\ (i # IdOf[e] => pgid'[i] = pgid[i])
    BY <1>2 DEF TypeOK, ToolExits
  <2>3. \A x \in Exec : Unshared(x) /\ x # e => IdOf[x] # IdOf[e]
    BY DEF Unshared
  <2>4. QED
    BY <2>1, <2>2, <2>3 DEF Named, Unshared
<1>3. CASE ~\E e \in Exec : RecordGroup(e) \/ ToolExits(e)
  <2>1. UNCHANGED pgid
    BY <1>3, NextFiles
  <2>2. ASSUME NEW x \in Exec, proc'[x] = "running"
        PROVE  proc[x] = "running"
    BY <1>3, <2>2, NextToolMoves DEF ToolMoves, Signalled
  <2>3. QED
    BY <2>1, <2>2 DEF Named, Unshared
<1>4. QED
  BY <1>1, <1>2, <1>3

-----------------------------------------------------------------------------
(* Tools and the kills that reach them.                                     *)

Reached == \A x \in Exec : Reachable(x)

(* Nothing happens to an exec but that its tool may end.                    *)
LEMMA ReachKept ==
  ASSUME TypeInv, [Next]_vars, NEW x \in Exec, Reachable(x), pc'[x] = pc[x],
         suppress \subseteq suppress', ~Spawn(x)
  PROVE  Reachable(x)'
<1>1. Alive(x)' => Alive(x)
  BY NobodyRevives
<1>2. QED
  BY <1>1 DEF Reachable, Unshared

(* The KILL of a handler that escalates reaches its tool.                   *)
LEMMA KillReaches ==
  ASSUME TypeInv, Lives, Named, NEW x \in Exec, Unshared(x), x \notin FallbackDir,
         pc[x] = "discKill", Disconnect(x)
  PROVE  ~Alive(x)'
<1>1. KillGroup(IdOf[x], "KILL", "disconnect")
  BY DEF Disconnect
<1>2. CASE proc[x] = "running"
  <2>1. pgid[IdOf[x]] = x /\ x # NoExec
    BY <1>2, ProxyAssumption DEF Named
  <2>2. proc' = [proc EXCEPT ![x] = "disconnect"]
    BY <1>1, <1>2, <2>1 DEF KillGroup
  <2>3. QED
    BY <2>2 DEF Alive, TypeInv, TypeOK
<1>3. CASE proc[x] # "running"
  <2>1. proc[x] \notin {"none", "starting"}
    BY DEF Lives, Recorded, Leaving
  <2>2. IdOf[x] \in Id
    BY ProxyAssumption DEF Conn
  <2>3. \/ proc'[x] = proc[x]
        \/ x = pgid[IdOf[x]] /\ proc[x] = "running" /\ proc'[x] = "disconnect"
    BY <1>1, <2>2, KillGroupSpares DEF TypeInv, Ended
  <2>4. QED
    BY <1>3, <2>1, <2>3 DEF Alive
<1>4. QED
  BY <1>2, <1>3

(* A handler leaves a tool of its own alive only where it was told to, or   *)
(* where no kill would have reached it.                                     *)
LEMMA NextReached == TypeInv /\ Lives /\ Named /\ Reached /\ [Next]_vars => Reached'
<1> SUFFICES ASSUME TypeInv, Lives, Named, Reached, [Next]_vars, NEW x \in Exec
             PROVE  Reachable(x)'
  BY DEF Reached
<1> Reachable(x) /\ Life(x)
  BY DEF Reached, Lives
<1> x \in Conn /\ TypeOK
  BY DEF Conn, TypeInv
<1>1. ASSUME NEW e \in Exec, ExecHandler(e), e # x
      PROVE  Reachable(x)'
  <2>1. pc'[x] = pc[x] /\ suppress \subseteq suppress'
    BY <1>1
    DEF TypeOK, ExecHandler, Reject, Register, SpawnFailed, Spawn, LoopTop, RecvChunk,
        RecvTimeout, RecvClosed, WaitChild, Trailer, Suppress, Escalate, Disconnect,
        Reap, WaitBuffered, Respond, Goto, Close
  <2>2. CASE ~Spawn(x)
    BY <2>1, <2>2, ReachKept
  <2>3. CASE Spawn(x)
    BY <2>3 DEF Spawn, Reachable, TypeOK, Goto
  <2>4. QED
    BY <2>2, <2>3
<1>2. CASE ~\E e \in Exec : ExecHandler(e)
  <2>1. suppress' = suppress /\ ~Spawn(x)
    BY <1>2, NextBeside DEF ExecHandler
  <2>2. pc'[x] = pc[x] \/ pc'[x] \in {"accepted", "dropped"}
    BY <1>2, NextBeside
  <2>3. QED
    BY <2>1, <2>2, ReachKept DEF Reachable
<1>3. CASE ExecHandler(x)
  <2> USE DEF Goto, Close
  <2>1. CASE Reject(x) \/ SpawnFailed(x)
    BY <2>1 DEF Reject, SpawnFailed, tool, Life, Fresh, Reachable, Alive
  <2>2. CASE Trailer(x) \/ Respond(x)
    BY <2>2 DEF Trailer, Respond, tool, Life, Reachable, Alive, Ended
  <2>3. CASE Suppress(x)
    BY <2>3 DEF Suppress, Reachable
  <2>4. CASE Disconnect(x)
    <3>1. CASE pc[x] = "discKill"
      BY <2>4, <3>1, KillReaches DEF Reachable, Unshared
    <3>2. CASE pc[x] # "discKill"
      BY <2>4, <3>2 DEF Disconnect, Reachable, TypeOK
    <3>3. QED
      BY <3>1, <3>2
  <2>5. CASE Reap(x)
    BY <2>5 DEF Reap, Reachable, Unshared, Alive, tool
  <2>6. CASE \/ Register(x) \/ Spawn(x) \/ LoopTop(x) \/ RecvChunk(x)
             \/ RecvTimeout(x) \/ RecvClosed(x) \/ WaitChild(x) \/ Escalate(x)
             \/ WaitBuffered(x)
    <3>1. pc'[x] \notin {"reap", "closed"}
      BY <2>6
      DEF TypeOK, Register, Spawn, LoopTop, RecvChunk, RecvTimeout, RecvClosed,
          WaitChild, Escalate, WaitBuffered
    <3>2. QED
      BY <3>1 DEF Reachable
  <2>7. QED
    BY <1>3, <2>1, <2>2, <2>3, <2>4, <2>5, <2>6 DEF ExecHandler
<1>4. QED
  BY <1>1, <1>2, <1>3

-----------------------------------------------------------------------------
(* Timeouts.                                                               *)

Timed == \A x \in Exec : TimedOut(x)

(* A flag stays set, and an exit code is only decided on by the handler.    *)
LEMMA NextFlag ==
  ASSUME TypeInv, [Next]_vars, NEW x \in Exec
  PROVE  /\ timed_out[x] => timed_out'[x]
         /\ code'[x] = code[x] \/ SpawnFailed(x) \/ WaitChild(x) \/ Respond(x)
<1> TypeOK
  BY DEF TypeInv
<1> USE DEF timer, answer
<1>1. ASSUME NEW e \in Exec, WatcherWakes(e)
      PROVE  (timed_out[x] => timed_out'[x]) /\ code' = code
  <2>1. UNCHANGED timed_out \/ timed_out' = [timed_out EXCEPT ![e] = @ \/ watcher[e] = "INT"]
    BY <1>1 DEF WatcherWakes
  <2>2. QED
    BY <1>1, <2>1 DEF TypeOK, WatcherWakes
<1>2. ASSUME NEW e \in Exec, ExecHandler(e)
      PROVE  /\ timed_out' = timed_out
             /\ code'[x] = code[x] \/ SpawnFailed(x) \/ WaitChild(x) \/ Respond(x)
  BY <1>2
  DEF TypeOK, ExecHandler, Reject, Register, SpawnFailed, Spawn, LoopTop, RecvChunk,
      RecvTimeout, RecvClosed, WaitChild, Trailer, Suppress, Escalate, Disconnect,
      Reap, WaitBuffered, Respond
<1>3. QED
  BY <1>1, <1>2
  DEF Next, Watcher, Quiet, Accept, Drop, WatcherSends, RecordGroup, ToolExits,
      ToolPrints, ClientStalls, ClientResumes, ClientLeaves, Peer, SignalHandler,
      Reject, SignalLookup, SignalRecord, SignalSend, SignalAges, StopAccepting,
      StopSidecars, vars

(* The watcher that ends an unshared tool is its own, which has set the     *)
(* flag; from then on no handler decides on "tool".                         *)
LEMMA NextTimed == TypeInv /\ Lives /\ Named /\ Timed /\ [Next]_vars => Timed'
<1> SUFFICES ASSUME TypeInv, Lives, Named, Timed, [Next]_vars, NEW x \in Exec,
                    proc'[x] = "watcher", Unshared(x)
             PROVE  timed_out'[x] /\ code'[x] # "tool"
  BY DEF Timed, TimedOut, Unshared
<1> TypeOK /\ Life(x)
  BY DEF TypeInv, Lives
<1>1. timed_out[x] /\ code[x] # "tool"
  <2>1. CASE proc[x] = "watcher"
    BY <2>1 DEF Timed, TimedOut
  <2>2. CASE proc[x] # "watcher"
    <3>1. proc[x] = "running" /\ Signalled(x)
      BY <2>2, NextToolMoves DEF ToolMoves
    <3>2. PICK e \in Exec : WatcherSends(e) /\ x = pgid[IdOf[e]]
      BY <3>1 DEF Signalled
    <3>3. IdOf[e] \in Id /\ x # NoExec
      BY ProxyAssumption DEF Conn
    <3>4. IdOf[x] = IdOf[e]
      BY <3>2, <3>3 DEF Named
    <3>5. e = x
      BY <3>4 DEF Unshared
    <3>6. timed_out[x]
      BY <3>2, <3>5 DEF WatcherSends, Lives, Flagged
    <3>7. QED
      BY <3>1, <3>6 DEF Life, Ended
  <2>3. QED
    BY <2>1, <2>2
<1>2. timed_out'[x]
  BY <1>1, NextFlag
<1>3. CASE code'[x] = code[x]
  BY <1>1, <1>2, <1>3
<1>4. CASE SpawnFailed(x) \/ WaitChild(x) \/ Respond(x)
  BY <1>1, <1>2, <1>4 DEF SpawnFailed, WaitChild, Respond, ExitCode, TypeOK
<1>5. QED
  BY <1>3, <1>4, NextFlag

-----------------------------------------------------------------------------
(* The registry.                                                           *)

Holding == {"registered"} \cup Begun

(* A handler that stops holding its id forgets it, or docker failed.        *)
LEMMA NextRegisteredBySome ==
  TypeInv /\ Lives /\ RegisteredBySome /\ [Next]_vars => RegisteredBySome'
<1> SUFFICES ASSUME TypeInv, Lives, RegisteredBySome, [Next]_vars,
                    NEW i \in exec_registry'
             PROVE  \E x \in Exec : IdOf[x] = i /\ (pc'[x] \in Holding \/ code'[x] = "86")
  BY DEF RegisteredBySome, Holding
<1> TypeOK
  BY DEF TypeInv
<1> \A x \in Exec : x \in Conn /\ IdOf[x] \in Id
  BY ProxyAssumption DEF Conn
<1> USE DEF Goto, Close, shared, answer, Holding, Begun, Leaving
<1>1. CASE ~\E e \in Exec : ExecHandler(e)
  <2>1. PICK x \in Exec : IdOf[x] = i /\ (pc[x] \in Holding \/ code[x] = "86")
    BY <1>1, NextBeside DEF RegisteredBySome
  <2>2. QED
    BY <1>1, <2>1, NextBeside
<1>2. ASSUME NEW e \in Exec, ExecHandler(e)
      PROVE  \E x \in Exec : IdOf[x] = i /\ (pc'[x] \in Holding \/ code'[x] = "86")
  <2>0. code[e] # "86"
    <3>1. pc[e] # "closed"
      BY <1>2
      DEF ExecHandler, Reject, Register, SpawnFailed, Spawn, LoopTop, RecvChunk,
          RecvTimeout, RecvClosed, WaitChild, Trailer, Suppress, Escalate, Disconnect,
          Reap, WaitBuffered, Respond
    <3>2. QED
      BY <3>1 DEF Lives, Life
  <2>1. ASSUME NEW x \in Exec, x # e
        PROVE  pc'[x] = pc[x] /\ code'[x] = code[x]
    BY <1>2, <2>1
    DEF TypeOK, ExecHandler, Reject, Register, SpawnFailed, Spawn, LoopTop, RecvChunk,
        RecvTimeout, RecvClosed, WaitChild, Trailer, Suppress, Escalate, Disconnect,
        Reap, WaitBuffered, Respond
  <2>2. CASE i \in exec_registry /\ i # IdOf[e]
    BY <2>1, <2>2 DEF RegisteredBySome
  <2>3. CASE i = IdOf[e] /\ pc'[e] \in Holding
    BY <2>3
  <2>4. CASE i = IdOf[e] /\ pc'[e] \notin Holding
    <3>1. CASE Forget(e)
      BY <2>4, <3>1 DEF Forget
    <3>2. CASE SpawnFailed(e)
      BY <2>4, <3>2 DEF TypeOK, SpawnFailed
    <3>3. CASE Reject(e) \/ Trailer(e) \/ Respond(e)
      <4>1. pc[e] \notin Holding /\ exec_registry' = exec_registry
        BY <3>3 DEF Reject, Trailer, Respond
      <4>2. PICK x \in Exec : IdOf[x] = i /\ (pc[x] \in Holding \/ code[x] = "86")
        BY <4>1 DEF RegisteredBySome
      <4>3. x # e
        BY <2>0, <4>1, <4>2
      <4>4. QED
        BY <2>1, <4>2, <4>3
    <3>4. QED
      BY <1>2, <2>4, <3>1, <3>2, <3>3
      DEF TypeOK, ExecHandler, Register, Spawn, LoopTop, RecvChunk, RecvTimeout,
          RecvClosed, WaitChild, Suppress, Escalate, Disconnect, Reap, WaitBuffered
  <2>5. i \in exec_registry \/ i = IdOf[e]
    BY <1>2
    DEF ExecHandler, Reject, Register, SpawnFailed, Spawn, LoopTop, RecvChunk,
        RecvTimeout, RecvClosed, WaitChild, Trailer, Suppress, Escalate, Disconnect,
        Reap, WaitBuffered, Respond, Forget
  <2>6. QED
    BY <2>2, <2>3, <2>4, <2>5
<1>3. QED
  BY <1>1, <1>2

Registered == \A x \in Exec : RegisteredWhileBegun(x)

(* The id of a handler that holds it is taken out by another's end only.    *)
LEMMA NextRegistered == TypeInv /\ Lives /\ Registered /\ [Next]_vars => Registered'
<1> SUFFICES ASSUME TypeInv, Lives, Registered, [Next]_vars, NEW x \in Exec,
                    pc'[x] \in Holding
             PROVE  \/ IdOf[x] \in exec_registry'
                    \/ \E y \in Exec \ {x} : IdOf[y] = IdOf[x] /\ done'[y]
  BY DEF Registered, RegisteredWhileBegun, Holding
<1> TypeOK
  BY DEF TypeInv
<1> x \in Conn
  BY DEF Conn
<1> USE DEF Goto, Close, shared, answer, timer, Holding, Begun, Leaving
<1>1. CASE ~\E e \in Exec : ExecHandler(e)
  BY <1>1, NextBeside DEF Registered, RegisteredWhileBegun
<1>2. ASSUME NEW e \in Exec, ExecHandler(e), e # x, Forget(e)
      PROVE  \/ IdOf[x] \in exec_registry'
             \/ \E y \in Exec \ {x} : IdOf[y] = IdOf[x] /\ done'[y]
  <2>1. pc[x] \in Holding
    BY <1>2
    DEF TypeOK, ExecHandler, Reject, Register, SpawnFailed, Spawn, LoopTop, RecvChunk,
        RecvTimeout, RecvClosed, WaitChild, Trailer, Suppress, Escalate, Disconnect,
        Reap, WaitBuffered, Respond
  <2>2. done'[e] /\ \A y \in Exec : done[y] => done'[y]
    BY <1>2 DEF TypeOK, Forget
  <2>3. CASE IdOf[x] = IdOf[e]
    BY <1>2, <2>2, <2>3
  <2>4. CASE IdOf[x] # IdOf[e]
    BY <1>2, <2>1, <2>2, <2>4 DEF Registered, RegisteredWhileBegun, Forget
  <2>5. QED
    BY <2>3, <2>4
<1>3. ASSUME NEW e \in Exec, ExecHandler(e), ~Forget(e)
      PROVE  \/ IdOf[x] \in exec_registry'
             \/ \E y \in Exec \ {x} : IdOf[y] = IdOf[x] /\ done'[y]
  <2>1. exec_registry \subseteq exec_registry' /\ done' = done
    BY <1>3
    DEF ExecHandler, Reject, Register, SpawnFailed, Spawn, LoopTop, RecvChunk,
        RecvTimeout, RecvClosed, WaitChild, Trailer, Suppress, Escalate, Disconnect,
        Reap, WaitBuffered, Respond
  <2>2. pc[x] \in Holding \/ IdOf[x] \in exec_registry'
    BY <1>3
    DEF TypeOK, ExecHandler, Reject, Register, SpawnFailed, Spawn, LoopTop, RecvChunk,
        RecvTimeout, RecvClosed, WaitChild, Trailer, Suppress, Escalate, Disconnect,
        Reap, WaitBuffered, Respond
  <2>3. QED
    BY <2>1, <2>2 DEF Registered, RegisteredWhileBegun
<1>4. CASE ExecHandler(x) /\ Forget(x)
  <2>1. CASE WaitChild(x) \/ Reap(x) \/ WaitBuffered(x)
    BY <2>1 DEF TypeOK, WaitChild, Reap, WaitBuffered
  <2>2. CASE ~(WaitChild(x) \/ Reap(x) \/ WaitBuffered(x))
    <3>1. done' = done
      BY <1>4, <2>2
      DEF ExecHandler, Reject, Register, SpawnFailed, Spawn, LoopTop, RecvChunk,
          RecvTimeout, RecvClosed, Trailer, Suppress, Escalate, Disconnect, Respond
    <3>2. pc[x] \in Fresh \cup Begun
      BY <1>4, <2>2
      DEF TypeOK, ExecHandler, Reject, Register, SpawnFailed, Spawn, LoopTop, RecvChunk,
          RecvTimeout, RecvClosed, Trailer, Suppress, Escalate, Disconnect, Respond, Fresh
    <3>3. ~done[x]
      BY <3>2 DEF Lives, Life
    <3>4. done'[x]
      BY <1>4 DEF Forget, TypeOK
    <3>5. QED
      BY <3>1, <3>3, <3>4
  <2>3. QED
    BY <2>1, <2>2
<1>5. QED
  BY <1>1, <1>2, <1>3, <1>4

-----------------------------------------------------------------------------
(* The theorems.                                                           *)

(* The invariant holds before the first connection ...                      *)
LEMMA InitIInv == Init => IInv
<1> SUFFICES ASSUME Init PROVE IInv
  OBVIOUS
<1>1. TypeInv
  BY InitTypeInv
<1>2. \A x \in Exec : /\ pc[x] = "calling" /\ proc[x] = "none" /\ watcher[x] = "off"
                      /\ ~timed_out[x] /\ ~done[x] /\ channel[x] = 0 /\ code[x] = "none"
  BY DEF Init, Conn
<1>3. \A x \in Exec : Life(x) /\ Recorded(x) /\ Flagged(x)
  BY <1>2 DEF Life, Recorded, Flagged, Fresh, Begun, Leaving
<1>4. \A x \in Exec : Reachable(x) /\ TimedOut(x) /\ RegisteredWhileBegun(x)
  BY <1>2 DEF Reachable, TimedOut, RegisteredWhileBegun, Alive, Begun, Leaving
<1>5. Named
  BY <1>2 DEF Init, Named
<1>6. RegisteredBySome
  BY DEF Init, RegisteredBySome
<1>7. QED
  BY <1>1, <1>3, <1>4, <1>5, <1>6 DEF IInv, TypeInv

(* ... and is kept by every step.                                           *)
LEMMA NextIInv == IInv /\ [Next]_vars => IInv'
<1> SUFFICES ASSUME IInv, [Next]_vars
             PROVE  IInv'
  OBVIOUS
<1>1. TypeInv /\ Lives /\ Named /\ Reached /\ Timed /\ RegisteredBySome /\ Registered
  BY DEF IInv, TypeInv, Lives, Reached, Timed, Registered
<1>2. TypeInv' /\ Lives' /\ Named'
  BY <1>1, NextTypeInv, NextLives, NextNamed
<1>3. Reached' /\ Timed'
  BY <1>1, NextReached, NextTimed
<1>4. RegisteredBySome' /\ Registered'
  BY <1>1, NextRegisteredBySome, NextRegistered
<1>5. QED
  BY <1>2, <1>3, <1>4 DEF IInv, TypeInv, Lives, Reached, Timed, Registered

(* The inductive invariant holds of the proxy at all times.                 *)
THEOREM Invariance == Spec => []IInv
  BY InitIInv, NextIInv, PTL DEF Spec

(* Every variable keeps its type; in particular active_conns never goes     *)
(* below zero (fetch_sub in proxy.rs would wrap around).                    *)
THEOREM TypeCorrect == Spec => []TypeOK
<1>1. IInv => TypeOK
  BY DEF IInv
<1>2. QED
  BY <1>1, Invariance, PTL

(* A tool that runs under a handler is known to /signal from its first      *)
(* instant, since its id is registered before docker is spawned, unless     *)
(* another exec that shares the id took it out.                             *)
THEOREM Signallable == Spec => []RunningIsSignallable
<1>1. IInv => RunningIsSignallable
  <2> SUFFICES ASSUME IInv, NEW e \in Exec, Alive(e), pc[e] \in Served
               PROVE  \/ IdOf[e] \in exec_registry
                      \/ \E x \in Exec \ {e} : IdOf[x] = IdOf[e] /\ done[x]
    BY DEF RunningIsSignallable
  <2>1. pc[e] \in {"registered"} \cup Begun
    BY DEF IInv, Life, OwnStage, Alive, Served, Fresh, Begun, Leaving, Ended
  <2>2. QED
    BY <2>1 DEF IInv, RegisteredWhileBegun
<1>2. QED
  BY <1>1, Invariance, PTL

(* exec_registry holds ids of execs at work only, and of those whose docker *)
(* could not be run: each other way out of a handler removes its id.        *)
THEOREM RegistryCurrent == Spec => []RegistryIsCurrent
<1>1. IInv => RegistryIsCurrent
  <2>1. {"registered"} \cup Begun \subseteq Served \ {"accepted"}
    BY DEF Begun, Leaving, Served
  <2>2. QED
    BY <2>1 DEF IInv, RegisteredBySome, RegistryIsCurrent
<1>2. QED
  BY <1>1, Invariance, PTL

(* A tool outlives its handler only if its escalation was suppressed by a   *)
(* recent signal or its group is not recorded where kills look for it.      *)
THEOREM NoToolOrphaned == Spec => []NoOrphan
<1>1. IInv => NoOrphan
  BY DEF IInv, Reachable, NoOrphan
<1>2. QED
  BY <1>1, Invariance, PTL

(* An exec ended by its own watcher is never answered with an exit code of  *)
(* the tool's: the flag is set before the signal and read after the end.    *)
THEOREM TimeoutReported == Spec => []TimeoutIsReported
<1>1. IInv => TimeoutIsReported
  BY DEF IInv, TimedOut, TimeoutIsReported
<1>2. QED
  BY <1>1, Invariance, PTL

(* The accept loop drops a connection only while MaxConns others are        *)
(* served: no way out of a handler leaks its place.                         *)
THEOREM LimitTurnsAwayOnly == Spec => DroppedOnlyWhenFull
<1>1. ASSUME IInv, [Next]_vars, NEW c \in Conn, pc[c] # "dropped", pc'[c] = "dropped"
      PROVE  Cardinality(Serving) = MaxConns
  <2>1. \E d \in Conn : Drop(d)
    BY <1>1, ProxyAssumption
    DEF IInv, TypeOK, Next, Watcher, Quiet, Accept, WatcherWakes, WatcherSends,
        RecordGroup, ToolExits, ToolPrints, ClientStalls, ClientResumes, ClientLeaves,
        Peer, SignalHandler, SignalLookup, SignalRecord, SignalSend, SignalAges,
        StopAccepting, StopSidecars, vars, ExecHandler, Reject, Register, SpawnFailed,
        Spawn, LoopTop, RecvChunk, RecvTimeout, RecvClosed, WaitChild, Trailer,
        Suppress, Escalate, Disconnect, Reap, WaitBuffered, Respond, Goto, Close, Conn
  <2>2. active_conns >= MaxConns
    BY <2>1 DEF Drop
  <2>3. QED
    BY <1>1, <2>2, ProxyAssumption DEF IInv, Counted, TypeOK
<1>2. IInv /\ [Next]_vars =>
        [\A c \in Conn : pc[c] # "dropped" /\ pc'[c] = "dropped"
           => Cardinality(Serving) = MaxConns]_vars
  BY <1>1
<1>3. QED
  BY <1>2, Invariance, PTL DEF Spec, DroppedOnlyWhenFull

-----------------------------------------------------------------------------
(* The promise of ToolCall.                                                *)

Concluded == {"closed", "dropped"}

(* A caller sees no change of the tools.                                    *)
LEMMA ToolsSame ==
  ASSUME \A x \in Exec : \/ proc'[x] = proc[x]
                         \/ Alive(x) /\ Alive(x)'
  PROVE  UNCHANGED <<CallTool, CallCause>>
<1>1. \A x \in Exec : CallTool'[x] = CallTool[x] /\ CallCause'[x] = CallCause[x]
  BY DEF CallTool, CallCause, Alive, Ended
<1>2. QED
  BY <1>1 DEF CallTool, CallCause

(* A caller sees no conclusion.                                             *)
LEMMA ReplySame ==
  ASSUME NEW x \in Exec, code'[x] = code[x],
         \/ code[x] \in {"tool", "124"}
         \/ /\ proc'[x] = "none" <=> proc[x] = "none"
            /\ pc'[x] \in Concluded <=> pc[x] \in Concluded
  PROVE  CallReply'[x] = CallReply[x]
  BY DEF CallReply, Concluded

(* ... to any call.                                                         *)
LEMMA RepliesSame ==
  ASSUME \A x \in Exec : CallReply'[x] = CallReply[x]
  PROVE  UNCHANGED CallReply
  BY DEF CallReply

(* One call is concluded.                                                   *)
LEMMA Concludes ==
  ASSUME NEW e \in Exec, NEW how, CallReply[e] = "none", CallReply'[e] = how,
         \A x \in Exec \ {e} : CallReply'[x] = CallReply[x]
  PROVE  Promise!Conclude(e, how)
<1>1. \A x \in Exec : CallReply'[x] = [CallReply EXCEPT ![e] = how][x]
  BY DEF CallReply
<1>2. CallReply' = [CallReply EXCEPT ![e] = how]
  BY <1>1 DEF CallReply
<1>3. QED
  BY <1>2 DEF Promise!Conclude

(* Tools end for a caller when they do.                                     *)
LEMMA Ends ==
  ASSUME NEW C \in SUBSET Exec, C # {}, NEW why \in Ended,
         \A x \in C : Alive(x) /\ proc'[x] = why,
         \A x \in Exec \ C : proc'[x] = proc[x],
         UNCHANGED CallReply
  PROVE  Promise!Next
<1>1. \A x \in C : CallTool[x] = "running"
  BY DEF CallTool
<1>2. CallTool' = [x \in Exec |-> IF x \in C THEN "over" ELSE CallTool[x]]
  <2>1. \A x \in Exec : CallTool'[x] = IF x \in C THEN "over" ELSE CallTool[x]
    BY DEF CallTool, Alive, Ended
  <2>2. QED
    BY <2>1 DEF CallTool
<1>3. CallCause' = [x \in Exec |-> IF x \in C THEN why ELSE CallCause[x]]
  <2>1. \A x \in Exec : CallCause'[x] = IF x \in C THEN why ELSE CallCause[x]
    BY DEF CallCause
  <2>2. QED
    BY <2>1 DEF CallCause
<1>4. Promise!End(C, why)
  BY <1>1, <1>2, <1>3 DEF Promise!End
<1>5. QED
  BY <1>4 DEF Promise!Next, Promise!Causes, Ended

(* A signal ends one tool, or nothing a caller sees.                        *)
LEMMA KillGroupEnds ==
  ASSUME IInv, NEW i \in Id, NEW sig, NEW by \in Ended, KillGroup(i, sig, by),
         UNCHANGED code,
         \A x \in Exec : pc'[x] \in Concluded <=> pc[x] \in Concluded
  PROVE  Promise!Next \/ UNCHANGED Promise!callVars
<1> TypeOK
  BY DEF IInv
<1>1. UNCHANGED CallReply
  <2>1. \A x \in Exec : proc'[x] = "none" <=> proc[x] = "none"
    BY KillGroupSpares DEF Ended
  <2>2. QED
    BY <2>1, ReplySame, RepliesSame
<1>2. CASE UNCHANGED proc
  BY <1>1, <1>2, ToolsSame DEF Promise!callVars
<1>3. ASSUME NEW x \in Exec, proc[x] = "running", proc' = [proc EXCEPT ![x] = by]
      PROVE  Promise!Next
  <2>1. Alive(x) /\ proc'[x] = by /\ \A y \in Exec \ {x} : proc'[y] = proc[y]
    BY <1>3 DEF TypeOK, Alive
  <2>2. QED
    BY <1>1, <2>1, Ends, {x} \in SUBSET Exec
<1>4. QED
  BY <1>2, <1>3, KillGroupKills

(* What a handler's step is to its caller.                                  *)
LEMMA ExecHandlerPromise ==
  ASSUME IInv, IInv', NEW e \in Exec, ExecHandler(e)
  PROVE  Promise!Next \/ UNCHANGED Promise!callVars
<1> e \in Conn /\ TypeOK /\ Life(e)
  BY DEF Conn, IInv
<1> \A x \in Exec : x \in Conn
  BY DEF Conn
<1> USE DEF Goto, Close, tool, answer, Concluded
<1>1. CASE Reject(e) \/ SpawnFailed(e)
  <2>1. UNCHANGED <<CallTool, CallCause>>
    BY <1>1, ToolsSame DEF Reject, SpawnFailed
  <2>2. \A x \in Exec \ {e} : CallReply'[x] = CallReply[x]
    BY <1>1, ReplySame DEF Reject, SpawnFailed, TypeOK
  <2>3. pc[e] \in Fresh /\ proc[e] = "none" /\ code[e] = "none" /\ pc[e] \notin Concluded
    BY <1>1 DEF Reject, SpawnFailed, Life, Fresh
  <2>4. CallTool[e] = "none" /\ CallReply[e] = "none"
    BY <2>3 DEF CallTool, CallReply, Alive
  <2>5. CallReply'[e] = "refused"
    BY <1>1, <2>3 DEF Reject, SpawnFailed, CallReply, TypeOK
  <2>6. Promise!Refuse(e)
    BY <2>1, <2>2, <2>4, <2>5, Concludes DEF Promise!Refuse
  <2>7. QED
    BY <2>6 DEF Promise!Next
<1>2. CASE Spawn(e)
  <2>1. proc[e] = "none" /\ code[e] = "none"
    BY <1>2 DEF Spawn, Life, Fresh
  <2>2. CallTool[e] = "none" /\ CallReply[e] = "none"
    BY <1>2, <2>1 DEF Spawn, CallTool, CallReply, Alive
  <2>3. \A x \in Exec : CallReply'[x] = CallReply[x]
    <3>1. CallReply'[e] = "none"
      <4>1. pc'[e] \in {"stream", "buffer"} /\ code'[e] = "none"
        BY <1>2, <2>1 DEF Spawn, TypeOK
      <4>2. QED
        BY <4>1 DEF CallReply
    <3>2. ASSUME NEW x \in Exec \ {e}
          PROVE  CallReply'[x] = CallReply[x]
      <4>1. pc'[x] = pc[x] /\ proc'[x] = proc[x] /\ code'[x] = code[x]
        BY <1>2 DEF Spawn, TypeOK
      <4>2. QED
        BY <4>1, ReplySame
    <3>3. QED
      BY <2>2, <3>1, <3>2
  <2>4. CallTool' = [CallTool EXCEPT ![e] = "running"]
    <3>1. \A x \in Exec : CallTool'[x] = [CallTool EXCEPT ![e] = "running"][x]
      BY <1>2 DEF Spawn, TypeOK, CallTool, Alive
    <3>2. QED
      BY <3>1 DEF CallTool
  <2>5. CallCause' = CallCause
    <3>1. \A x \in Exec : CallCause'[x] = CallCause[x]
      BY <1>2, <2>1 DEF Spawn, TypeOK, CallCause, Ended
    <3>2. QED
      BY <3>1 DEF CallCause
  <2>6. Promise!Start(e)
    BY <2>2, <2>3, <2>4, <2>5, RepliesSame DEF Promise!Start
  <2>7. QED
    BY <2>6 DEF Promise!Next
<1>3. CASE WaitChild(e) \/ Respond(e)
  <2>1. UNCHANGED <<CallTool, CallCause>>
    BY <1>3, ToolsSame DEF WaitChild, Respond
  <2>2. \A x \in Exec \ {e} : CallReply'[x] = CallReply[x]
    BY <1>3, ReplySame DEF WaitChild, Respond, TypeOK
  <2>3. proc[e] \in Ended /\ code[e] = "none" /\ pc[e] \notin Concluded
    BY <1>3 DEF WaitChild, Respond, Life, Begun
  <2>4. CallTool[e] = "over" /\ CallReply[e] = "none"
    BY <2>3 DEF CallTool, CallReply, Alive, Ended
  <2>5. code'[e] \in {"tool", "124"} /\ CallReply'[e] = code'[e]
    BY <1>3 DEF WaitChild, Respond, TypeOK, ExitCode, CallReply
  <2>6. Unshared(e) /\ code'[e] = "tool" => CallCause[e] # "watcher"
    <3>1. TimedOut(e)'
      BY DEF IInv
    <3>2. UNCHANGED proc
      BY <1>3 DEF WaitChild, Respond
    <3>3. QED
      BY <3>1, <3>2 DEF TimedOut, CallCause, Unshared
  <2>7. Promise!Conclude(e, code'[e])
    BY <2>2, <2>4, <2>5, Concludes
  <2>8. Promise!Answer(e)
    BY <2>1, <2>4, <2>5, <2>6, <2>7 DEF Promise!Answer
  <2>9. QED
    BY <2>8 DEF Promise!Next
<1>4. CASE Reap(e)
  <2>1. UNCHANGED <<CallTool, CallCause>>
    BY <1>4, ToolsSame DEF Reap
  <2>2. \A x \in Exec \ {e} : CallReply'[x] = CallReply[x]
    BY <1>4, ReplySame DEF Reap, TypeOK
  <2>3. proc[e] # "none" /\ code[e] = "none" /\ pc[e] \notin Concluded
    BY <1>4 DEF Reap, Life, Begun, Leaving
  <2>4. CallTool[e] # "none" /\ CallReply[e] = "none"
    BY <2>3 DEF CallTool, CallReply
  <2>5. CallReply'[e] = "gaveUp"
    BY <1>4, <2>3 DEF Reap, TypeOK, CallReply
  <2>6. Promise!GiveUp(e)
    BY <2>1, <2>2, <2>4, <2>5, Concludes DEF Promise!GiveUp
  <2>7. QED
    BY <2>6 DEF Promise!Next
<1>5. CASE Disconnect(e)
  <2>1. IdOf[e] \in Id
    BY ProxyAssumption
  <2>2. UNCHANGED code /\ \A x \in Exec : pc'[x] \in Concluded <=> pc[x] \in Concluded
    BY <1>5 DEF Disconnect, TypeOK
  <2>3. \E sig \in {"INT", "TERM", "KILL"} : KillGroup(IdOf[e], sig, "disconnect")
    BY <1>5 DEF Disconnect
  <2>4. QED
    BY <2>1, <2>2, <2>3, KillGroupEnds DEF Ended
<1>6. CASE Trailer(e)
  <2>1. UNCHANGED <<CallTool, CallCause>>
    BY <1>6, ToolsSame DEF Trailer
  <2>2. \A x \in Exec : CallReply'[x] = CallReply[x]
    BY <1>6, ReplySame DEF Trailer, TypeOK, Life
  <2>3. QED
    BY <2>1, <2>2, RepliesSame DEF Promise!callVars
<1>7. CASE \/ Register(e) \/ LoopTop(e) \/ RecvChunk(e) \/ RecvTimeout(e)
           \/ RecvClosed(e) \/ Suppress(e) \/ Escalate(e) \/ WaitBuffered(e)
  <2>1. UNCHANGED <<proc, code>>
    BY <1>7
    DEF Register, LoopTop, RecvChunk, RecvTimeout, RecvClosed, Suppress, Escalate,
        WaitBuffered
  <2>2. \A x \in Exec : pc'[x] \in Concluded <=> pc[x] \in Concluded
    BY <1>7
    DEF TypeOK, Register, LoopTop, RecvChunk, RecvTimeout, RecvClosed, Suppress,
        Escalate, WaitBuffered
  <2>3. QED
    BY <2>1, <2>2, ToolsSame, ReplySame, RepliesSame DEF Promise!callVars
<1>8. QED
  BY <1>1, <1>2, <1>3, <1>4, <1>5, <1>6, <1>7 DEF ExecHandler

(* What any step is to the callers.                                         *)
LEMMA NextPromise ==
  ASSUME IInv, IInv', [Next]_vars
  PROVE  Promise!Next \/ UNCHANGED Promise!callVars
<1> TypeOK
  BY DEF IInv
<1> \A x \in Exec : x \in Conn /\ x \notin Signal
  BY ProxyAssumption DEF Conn
<1> USE DEF Goto, Close, tool, answer, Concluded
<1>1. ASSUME NEW c \in Conn, Accept(c) \/ (Drop(c) /\ c \notin Exec)
      PROVE  UNCHANGED Promise!callVars
  <2>1. UNCHANGED <<proc, code>>
    BY <1>1 DEF Accept, Drop
  <2>2. \A x \in Exec : pc'[x] \in Concluded <=> pc[x] \in Concluded
    BY <1>1 DEF Accept, Drop, TypeOK
  <2>3. QED
    BY <2>1, <2>2, ToolsSame, ReplySame, RepliesSame DEF Promise!callVars
<1>2. ASSUME NEW e \in Exec, Drop(e)
      PROVE  Promise!Next
  <2>1. UNCHANGED <<CallTool, CallCause>>
    BY <1>2, ToolsSame DEF Drop
  <2>2. \A x \in Exec \ {e} : CallReply'[x] = CallReply[x]
    BY <1>2, ReplySame DEF Drop, TypeOK
  <2>3. proc[e] = "none" /\ code[e] = "none" /\ pc[e] = "calling"
    BY <1>2 DEF Drop, IInv, Life, Fresh
  <2>4. CallTool[e] = "none" /\ CallReply[e] = "none"
    BY <2>3 DEF CallTool, CallReply, Alive
  <2>5. CallReply'[e] = "refused"
    BY <1>2, <2>3 DEF Drop, CallReply, TypeOK
  <2>6. Promise!Refuse(e)
    BY <2>1, <2>2, <2>4, <2>5, Concludes DEF Promise!Refuse
  <2>7. QED
    BY <2>6 DEF Promise!Next
<1>3. ASSUME NEW e \in Exec, WatcherSends(e)
      PROVE  Promise!Next \/ UNCHANGED Promise!callVars
  <2>1. IdOf[e] \in Id /\ UNCHANGED <<pc, code>>
    BY <1>3, ProxyAssumption DEF WatcherSends
  <2>2. \E sig \in {"INT", "TERM", "KILL"} : KillGroup(IdOf[e], sig, "watcher")
    BY <1>3 DEF WatcherSends
  <2>3. QED
    BY <2>1, <2>2, KillGroupEnds DEF Ended
<1>4. ASSUME NEW e \in Exec, RecordGroup(e)
      PROVE  UNCHANGED Promise!callVars
  <2>1. \A x \in Exec : proc'[x] = proc[x] \/ (Alive(x) /\ Alive(x)')
    BY <1>4 DEF RecordGroup, TypeOK, Alive
  <2>2. \A x \in Exec : proc'[x] = "none" <=> proc[x] = "none"
    BY <2>1 DEF Alive
  <2>3. UNCHANGED <<pc, code>>
    BY <1>4 DEF RecordGroup
  <2>4. QED
    BY <2>1, <2>2, <2>3, ToolsSame, ReplySame, RepliesSame DEF Promise!callVars
<1>5. ASSUME NEW e \in Exec, ToolExits(e)
      PROVE  Promise!Next
  <2>1. Alive(e) /\ proc'[e] = "itself" /\ \A x \in Exec \ {e} : proc'[x] = proc[x]
    BY <1>5 DEF ToolExits, TypeOK, Alive
  <2>2. UNCHANGED CallReply
    <3>1. UNCHANGED <<pc, code>> /\ \A x \in Exec : proc'[x] = "none" <=> proc[x] = "none"
      BY <1>5, <2>1 DEF ToolExits, Alive
    <3>2. QED
      BY <3>1, ReplySame, RepliesSame
  <2>3. QED
    BY <2>1, <2>2, Ends, {e} \in SUBSET Exec DEF Ended
<1>6. ASSUME NEW s \in Signal, SignalHandler(s)
      PROVE  Promise!Next \/ UNCHANGED Promise!callVars
  <2>1. UNCHANGED code /\ \A x \in Exec : pc'[x] = pc[x]
    BY <1>6
    DEF SignalHandler, Reject, SignalLookup, SignalRecord, SignalSend, TypeOK, Conn
  <2>2. CASE SignalSend(s)
    <3>1. IdOf[s] \in Id /\ KillGroup(IdOf[s], SignalOf[s], "signal")
      BY <2>2, ProxyAssumption DEF SignalSend, Conn
    <3>2. QED
      BY <2>1, <3>1, KillGroupEnds DEF Ended
  <2>3. CASE ~SignalSend(s)
    <3>1. UNCHANGED proc
      BY <1>6, <2>3 DEF SignalHandler, Reject, SignalLookup, SignalRecord
    <3>2. QED
      BY <2>1, <3>1, ToolsSame, ReplySame, RepliesSame DEF Promise!callVars
  <2>4. QED
    BY <2>2, <2>3
<1>7. CASE StopSidecars
  <2> DEFINE C == {x \in Exec : Alive(x)}
  <2>1. \A x \in C : Alive(x) /\ proc'[x] = "session"
    BY <1>7 DEF StopSidecars, Alive
  <2>2. \A x \in Exec \ C : proc'[x] = proc[x]
    BY <1>7 DEF StopSidecars, Alive
  <2>3. C # {} /\ C \in SUBSET Exec
    BY <1>7 DEF StopSidecars, Alive
  <2>4. UNCHANGED CallReply
    <3>1. UNCHANGED <<pc, code>>
      BY <1>7 DEF StopSidecars
    <3>2. \A x \in Exec : proc'[x] = "none" <=> proc[x] = "none"
      BY <2>1, <2>2 DEF Alive
    <3>3. QED
      BY <3>1, <3>2, ReplySame, RepliesSame
  <2> HIDE DEF C
  <2>5. QED
    BY <2>1, <2>2, <2>3, <2>4, Ends DEF Ended
<1>8. CASE UNCHANGED <<pc, proc, code>>
  BY <1>8, ToolsSame, ReplySame, RepliesSame DEF Promise!callVars
<1>9. QED
  BY <1>1, <1>2, <1>3, <1>4, <1>5, <1>6, <1>7, <1>8, ExecHandlerPromise
  DEF Next, Watcher, Quiet, WatcherWakes, ToolPrints, ClientStalls, ClientResumes,
      ClientLeaves, Peer, SignalAges, StopAccepting, vars

(* The proxy implements ToolCall: for its caller a tool starts once and     *)
(* ends once, no exit code is decided on before that or twice, and none but *)
(* 124 for the watcher's kill of an exec that is alone with its id.         *)
THEOREM PromiseKept == Spec => KeepsPromise
<1>1. Init => Promise!Init
  <2> SUFFICES ASSUME Init PROVE Promise!Init
    OBVIOUS
  <2>1. \A x \in Exec : pc[x] = "calling" /\ proc[x] = "none" /\ code[x] = "none"
    BY DEF Init, Conn
  <2>2. QED
    BY <2>1 DEF Promise!Init, CallTool, CallCause, CallReply, Alive, Ended
<1>2. IInv /\ IInv' /\ [Next]_vars => [Promise!Next]_(Promise!callVars)
  BY NextPromise
<1>3. QED
  BY <1>1, <1>2, Invariance, PTL DEF Spec, KeepsPromise, Promise!Spec
=============================================================================
