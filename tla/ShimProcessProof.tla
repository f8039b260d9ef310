-------------------------- MODULE ShimProcessProof --------------------------
(***************************************************************************)
(* A run of the shim, proved: what ShimClientProof shows of a tool's call  *)
(* holds of the process that makes it, what RequestProof shows of a        *)
(* request holds of the one that is followed here, and a notification is   *)
(* answered with all that its command wrote.  The invariant of the latter  *)
(* follows the output from the command through the pipes: a reader thread  *)
(* finishes only when the command has ended and its pipe is empty, so that *)
(* nothing is left, and nothing can come, once both were joined            *)
(* (Collected); and the handler's place tells whether the command runs and *)
(* was told to end (Stages).                                               *)
(***************************************************************************)
EXTENDS ShimProcess, ShimClientProof, RequestProof

(* What the handler knows of the command at each place: it runs while it is *)
(* polled and given grace, has been waited for after that, and has been     *)
(* told to end exactly where the time was over.                             *)
Stages ==
  /\ hpc \in {"none", "poll", "grace", "join", "drain", "answered"}
  /\ child \in {"none", "running", "zombie", "reaped"}
  /\ hpc = "none" => child = "none" /\ answer = "none" /\ told = {}
  /\ hpc \in {"poll", "grace"} => child \in {"running", "zombie"}
  /\ hpc \in {"join", "drain"} => child = "reaped"
  /\ hpc \in {"poll", "join"} => told = {}
  /\ hpc \in {"grace", "drain"} => told # {}
  /\ hpc \in {"poll", "grace", "join", "drain"} => answer = "none"
  /\ hpc = "answered" => answer # "none" /\ child \in {"none", "reaped"}

(* Only an admitted request has a command, and none has one at the start.   *)
Admitted ==
  /\ client = "start" => rpc = "idle"
  /\ child # "none" => rpc = "admitted"

(* What was written is in the pipe or was read; a thread that has finished  *)
(* has left nothing behind, and nothing more can come.                      *)
Collected ==
  /\ wrote \in [Out -> Nat] /\ got \in [Out -> Nat] /\ pipe \in [Out -> Nat]
  /\ \A p \in Out : wrote[p] = got[p] + pipe[p]
  /\ readers \subseteq Out
  /\ child = "none" => readers = {} /\ \A p \in Out : wrote[p] = 0
  /\ child # "none" => \A p \in Out \ readers : pipe[p] = 0 /\ child # "running"

NotifyInv == Stages /\ Admitted /\ Collected /\ AnswerIsWhole

(* It holds at the start.                                                   *)
LEMMA NotifyInvInit == NotifyInit => NotifyInv
  BY DEF NotifyInit, ReqInit, NotifyInv, Stages, Admitted, Collected, AnswerIsWhole, Out

(* A step that leaves command and handler alone.                            *)
LEMMA CommandUntouched ==
  ASSUME NotifyInv, UNCHANGED <<command, handler>>, Admitted'
  PROVE  NotifyInv'
<1>1. UNCHANGED <<child, writing, wrote, pipe, held, got, readers, told, due, hpc, answer>>
  BY DEF command, handler
<1>2. Stages'
  BY <1>1 DEF NotifyInv, Stages
<1>3. Collected'
  BY <1>1 DEF NotifyInv, Collected
<1>4. AnswerIsWhole'
  BY <1>1 DEF NotifyInv, AnswerIsWhole
<1>5. QED
  BY <1>2, <1>3, <1>4 DEF NotifyInv

(* The reader and the gate work for whoever has no command yet.             *)
LEMMA ReaderPlaces ==
  ASSUME Reader \/ Drop \/ (\E paths : Judge(paths))
  PROVE  rpc \notin {"admitted", "idle"}
  BY DEF Reader, ReadHeaders, TakeHeaders, ReadLength, ReadChunked, ReadSize, TakeChunk,
         EndChunk, Trailers, ChunkedEnds, Drop, Judge

(* Every step of a notification, or a request, preserves the invariant.     *)
LEMMA NotifyInvStep == NotifyInv /\ [NotifyNext]_notifyVars => NotifyInv'
<1> SUFFICES ASSUME NotifyInv, [NotifyNext]_notifyVars PROVE NotifyInv'
  OBVIOUS
<1>0. Stages /\ Admitted /\ Collected /\ AnswerIsWhole
  BY DEF NotifyInv
<1>1. CASE UNCHANGED notifyVars
  <2>1. UNCHANGED <<command, handler>> /\ UNCHANGED <<client, rpc, child>>
    BY <1>1 DEF notifyVars, reqVars, reading, shimSide, command, handler
  <2>2. QED
    BY <1>0, <2>1, CommandUntouched DEF Admitted
<1>2. CASE NotifyAsync \/ NotifyAndWait \/ NotifyFails \/ OtherRequest
  <2>1. UNCHANGED <<command, handler>> /\ client = "start" /\ client' # "start"
    BY <1>2 DEF NotifyAsync, NotifyAndWait, NotifyFails, OtherRequest
  <2>2. child = "none" /\ child' = "none"
    BY <1>0, <2>1 DEF Admitted, command
  <2>3. QED
    BY <2>1, <2>2, CommandUntouched DEF Admitted
<1>3. CASE NotifyAnswered
  <2>1. UNCHANGED <<command, handler>> /\ client' # "start" /\ rpc' = rpc /\ child' = child
    BY <1>3 DEF NotifyAnswered, reqVars, reading, command
  <2>2. QED
    BY <1>0, <2>1, CommandUntouched DEF Admitted
<1>4. CASE JudgeRequest \/ ReadRequest \/ DropRequest
  <2>1. /\ UNCHANGED <<command, handler>> /\ client' = client /\ child' = child
        /\ rpc \notin {"admitted", "idle"}
    BY <1>4, ReaderPlaces DEF JudgeRequest, ReadRequest, DropRequest, shimSide, command
  <2>2. QED
    BY <1>0, <2>1, CommandUntouched DEF Admitted
<1>5. CASE RefuseRequest
  <2>1. child = "none" /\ hpc' = "answered" /\ answer' = "86"
    BY <1>0, <1>5 DEF RefuseRequest, Admitted, Answer
  <2>2. UNCHANGED <<client, rpc, child, wrote, pipe, got, readers, told>>
    BY <1>5 DEF RefuseRequest, reqVars, reading, shimSide, command
  <2>3. QED
    BY <1>0, <2>1, <2>2 DEF NotifyInv, Stages, Admitted, Collected, AnswerIsWhole
<1>6. CASE PolicyRefuses
  <2>1. /\ rpc = "admitted" /\ rpc' = rpc /\ hpc = "none" /\ hpc' = "answered"
        /\ answer' = "86"
    BY <1>6 DEF PolicyRefuses, Forget, Answer
  <2>2. UNCHANGED <<client, child, wrote, pipe, got, readers, told>>
    BY <1>6 DEF PolicyRefuses, shimSide, command
  <2>3. QED
    BY <1>0, <2>1, <2>2 DEF NotifyInv, Stages, Admitted, Collected, AnswerIsWhole
<1>7. CASE Spawn
  <2>1. /\ rpc = "admitted" /\ rpc' = rpc /\ hpc = "none"
        /\ \/ child' = "running" /\ readers' = Out /\ hpc' = "poll" /\ answer' = answer
           \/ answer' = "86" /\ hpc' = "answered" /\ child' = child /\ readers' = readers
        /\ UNCHANGED <<client, wrote, pipe, got, told>>
    BY <1>7 DEF Spawn, Forget, Answer, shimSide
  <2>2. child = "none" /\ answer = "none"
    BY <1>0, <2>1 DEF Stages
  <2>3. told' = {}
    BY <1>0, <2>1 DEF Stages
  <2>4. QED
    BY <1>0, <2>1, <2>2, <2>3 DEF NotifyInv, Stages, Admitted, Collected, AnswerIsWhole
<1>8. ASSUME NEW p \in Out, Collect(p) PROVE NotifyInv'
  <2>1. UNCHANGED <<client, rpc, child, wrote, told, hpc, answer>> /\ p \in readers
    BY <1>8 DEF Collect, reqVars, reading, shimSide
  <2>0. child # "none"
    BY <1>0, <2>1 DEF Collected
  <2>2. CASE /\ pipe[p] > 0
             /\ pipe' = [pipe EXCEPT ![p] = @ - 1] /\ got' = [got EXCEPT ![p] = @ + 1]
             /\ UNCHANGED readers
    <3>1. Collected'
      BY <1>0, <2>0, <2>1, <2>2 DEF Collected
    <3>2. AnswerIsWhole'
      BY <1>0, <2>1, <2>2 DEF AnswerIsWhole
    <3>3. Stages' /\ Admitted'
      BY <1>0, <2>1 DEF Stages, Admitted
    <3>4. QED
      BY <3>1, <3>2, <3>3 DEF NotifyInv
  <2>3. CASE /\ pipe[p] = 0 /\ child # "running" /\ readers' = readers \ {p}
             /\ UNCHANGED <<pipe, got>>
    <3>1. Collected'
      BY <1>0, <2>0, <2>1, <2>3 DEF Collected
    <3>2. AnswerIsWhole'
      BY <1>0, <2>1, <2>3 DEF AnswerIsWhole
    <3>3. Stages' /\ Admitted'
      BY <1>0, <2>1 DEF Stages, Admitted
    <3>4. QED
      BY <3>1, <3>2, <3>3 DEF NotifyInv
  <2>4. QED
    BY <1>8, <2>2, <2>3 DEF Collect
<1>9. CASE PollExited \/ PollTimedOut \/ Grace
  <2>1. /\ UNCHANGED <<client, rpc, wrote, pipe, got, readers, answer>>
        /\ hpc \in {"poll", "grace"} /\ child \in {"running", "zombie"}
    BY <1>0, <1>9 DEF PollExited, PollTimedOut, Grace, reqVars, reading, shimSide, command, Stages
  <2>2. \/ hpc = "poll" /\ child = "zombie" /\ child' = "reaped" /\ hpc' = "join" /\ told' = told
        \/ hpc = "poll" /\ child' = child /\ told' = {"TERM"} /\ hpc' = "grace"
        \/ hpc = "grace" /\ child = "zombie" /\ child' = "reaped" /\ hpc' = "drain" /\ told' = told
        \/ hpc = "grace" /\ child' = "zombie" /\ hpc' = hpc /\ told' = told \cup {"KILL"}
    BY <1>9 DEF PollExited, PollTimedOut, Grace, command
  <2>3. Stages'
    BY <1>0, <2>1, <2>2 DEF Stages
  <2>4. child' # "none" /\ child # "none" /\ (child' = "running" => child = "running")
    BY <2>1, <2>2
  <2>5. Collected' /\ Admitted'
    BY <1>0, <2>1, <2>4 DEF Collected, Admitted
  <2>6. AnswerIsWhole'
    BY <1>0, <2>1 DEF AnswerIsWhole, Stages
  <2>7. QED
    BY <2>3, <2>5, <2>6 DEF NotifyInv
<1>10. CASE AnswerNotification
  <2>1. /\ UNCHANGED <<client, rpc, child, wrote, pipe, got, readers, told>>
        /\ hpc \in {"join", "drain"} /\ readers = {} /\ hpc' = "answered"
        /\ answer' = IF hpc = "join" THEN "code" ELSE "124"
    BY <1>10 DEF AnswerNotification, Answer, reqVars, reading, shimSide, command
  <2>2. got = wrote
    <3>1. \A q \in Out : got[q] = wrote[q]
      <4>1. \A q \in Out : pipe[q] = 0
        BY <1>0, <2>1 DEF Collected, Stages
      <4>2. QED
        BY <1>0, <4>1 DEF Collected
    <3>2. QED
      BY <1>0, <3>1 DEF Collected
  <2>3. AnswerIsWhole'
    BY <1>0, <2>1, <2>2 DEF AnswerIsWhole, Stages
  <2>4. Stages' /\ Admitted' /\ Collected'
    BY <1>0, <2>1 DEF Stages, Admitted, Collected
  <2>5. QED
    BY <2>3, <2>4 DEF NotifyInv
<1>11. CASE TimePasses
  <2>1. UNCHANGED <<client, rpc, child, wrote, pipe, got, readers, told, hpc, answer>>
    BY <1>11 DEF TimePasses, reqVars, reading, shimSide, command
  <2>2. QED
    BY <1>0, <2>1 DEF NotifyInv, Stages, Admitted, Collected, AnswerIsWhole
<1>12. CASE Detach \/ DescendantEnds \/ \E p \in Out : Write(p)
  <2>1. UNCHANGED <<client, rpc, child, wrote, pipe, got, readers, told, hpc, answer>>
    BY <1>12 DEF Detach, DescendantEnds, Write, reqVars, reading, shimSide, handler
  <2>2. QED
    BY <1>0, <2>1 DEF NotifyInv, Stages, Admitted, Collected, AnswerIsWhole
<1>13. CASE Written
  <2>1. /\ child = "running" /\ writing \in Out
        /\ pipe' = [pipe EXCEPT ![writing] = @ + 1]
        /\ wrote' = [wrote EXCEPT ![writing] = @ + 1]
        /\ UNCHANGED <<client, rpc, child, got, readers, told, hpc, answer>>
    BY <1>13 DEF Written, reqVars, reading, shimSide, handler
  <2>2. \A q \in Out : q \in readers
    BY <1>0, <2>1 DEF Collected
  <2>3. Collected'
    BY <1>0, <2>1, <2>2 DEF Collected
  <2>4. AnswerIsWhole'
    BY <1>0, <2>1 DEF AnswerIsWhole
  <2>5. Stages' /\ Admitted'
    BY <1>0, <2>1 DEF Stages, Admitted
  <2>6. QED
    BY <2>3, <2>4, <2>5 DEF NotifyInv
<1>14. CASE CommandEnds
  <2>1. /\ child = "running" /\ child' = "zombie"
        /\ UNCHANGED <<client, rpc, wrote, pipe, got, readers, told, hpc, answer>>
    BY <1>14 DEF CommandEnds, reqVars, reading, shimSide, handler
  <2>2. QED
    BY <1>0, <2>1 DEF NotifyInv, Stages, Admitted, Collected, AnswerIsWhole
<1>15. QED
  BY <1>1, <1>2, <1>3, <1>4, <1>5, <1>6, <1>7, <1>8, <1>9, <1>10, <1>11, <1>12, <1>13, <1>14
     DEF NotifyNext, Serving, Handler, Command

-----------------------------------------------------------------------------
(* What a step of a notification is to the request that it, or a tool,      *)
(* makes: it is sent, read, judged, dropped, let go of, or left alone.      *)
LEMMA RequestSteps ==
  ASSUME [NotifyNext]_notifyVars
  PROVE  RequestStep
<1>1. CASE NotifyAsync \/ NotifyAndWait
  <2>1. CASE \E s \in Requests("length", 1) : Accept(s, Len(Wire(s)))
    <3>1. PICK s \in Requests("length", 1) : Accept(s, Len(Wire(s)))
      BY <2>1
    <3>2. Sendable(s)
      BY RequestsAreSendable
    <3>3. Len(Wire(s)) \in 0..Len(Wire(s))
      <4>1. Wire(s) \in Seq(Alphabet(s))
        BY <3>2, WireIsText
      <4>2. Len(Wire(s)) \in Nat
        BY ONLY <4>1
      <4>3. QED
        BY ONLY <4>2
    <3>4. Arrives
      BY <3>1, <3>3 DEF Arrives
    <3>5. QED
      BY ONLY <3>4 DEF RequestStep
  <2>2. CASE rpc' = "dropped" /\ UNCHANGED <<sent, rest, rbuf, body, need, verdict>>
    BY <2>2 DEF Dropped, RequestStep
  <2>3. QED
    BY <1>1, <2>1, <2>2 DEF NotifyAsync, NotifyAndWait
<1>2. CASE OtherRequest
  <2>1. PICK framing \in {"length", "chunked"} :
          \E s \in Requests(framing, 3) : \E n \in Cuts(s) : Accept(s, n)
    BY <1>2 DEF OtherRequest
  <2>2. Arrives
    BY <2>1 DEF Arrives, Cuts
  <2>3. QED
    BY ONLY <2>2 DEF RequestStep
<1>3. CASE JudgeRequest
  BY <1>3 DEF JudgeRequest, RequestStep
<1>4. CASE ReadRequest
  BY <1>4 DEF ReadRequest, RequestStep
<1>5. CASE DropRequest
  BY <1>5 DEF DropRequest, Drop, Dropped, RequestStep
<1>6. CASE PolicyRefuses \/ Spawn
  BY <1>6 DEF PolicyRefuses, Spawn, Forget, Forgotten, RequestStep
<1>7. CASE UNCHANGED reqVars
  BY <1>7 DEF RequestStep
<1>8. CASE NotifyFails \/ NotifyAnswered \/ RefuseRequest \/ PollExited \/ PollTimedOut \/ Grace
             \/ AnswerNotification \/ TimePasses \/ (\E p \in Out : Collect(p))
  BY <1>8, <1>7 DEF NotifyFails, NotifyAnswered, RefuseRequest, PollExited, PollTimedOut, Grace,
     AnswerNotification, TimePasses, Collect
<1>9. CASE Command
  BY <1>9, <1>7 DEF Command, Write, Written, Detach, DescendantEnds, CommandEnds
<1>10. CASE UNCHANGED notifyVars
  BY <1>10, <1>7 DEF notifyVars
<1>11. QED
  BY <1>1, <1>2, <1>3, <1>4, <1>5, <1>6, <1>8, <1>9, <1>10 DEF NotifyNext, Serving, Handler

(* What the command has written is bounded, for it is counted when a write  *)
(* begins; a pipe holds no more than its capacity; and the command that is  *)
(* given grace and has not been killed was told to end once.                *)
NotifyTyped ==
  /\ client \in {"start", "waiting", "other", "exited"}
  /\ status \in {"none", "0", "1", "86", "124", "code"}
  /\ writing \in Out \cup {"none"}
  /\ writing \in Out => wrote[writing] < MaxOut
  /\ wrote \in [Out -> 0..MaxOut] /\ pipe \in [Out -> 0..PipeCap]
  /\ held \in BOOLEAN
  /\ told \in {{}, {"TERM"}, {"TERM", "KILL"}}
  /\ due \in {"no", "timeout", "grace"}
  /\ answer \in {"none", "86", "124", "code"}

(* It holds at the start.                                                   *)
LEMMA NotifyTypedInit == NotifyInit => NotifyTyped
<1> SUFFICES ASSUME NotifyInit PROVE NotifyTyped
  OBVIOUS
<1>1. /\ client = "start" /\ status = "none" /\ writing = "none" /\ held = FALSE
      /\ told = {} /\ due = "no" /\ answer = "none"
  BY DEF NotifyInit
<1>2. wrote \in [Out -> 0..MaxOut] /\ pipe \in [Out -> 0..PipeCap]
  BY NotificationAssumption DEF NotifyInit
<1>3. writing \notin Out
  BY <1>1 DEF Out
<1>4. QED
  BY <1>1, <1>2, <1>3 DEF NotifyTyped

(* Every step preserves it.                                                 *)
LEMMA NotifyTypedStep ==
  ASSUME NotifyInv, NotifyTyped, [NotifyNext]_notifyVars
  PROVE  NotifyTyped'
<1>1. CASE UNCHANGED notifyVars
  BY <1>1 DEF NotifyTyped, notifyVars, shimSide, command, handler
<1>2. CASE NotifyAsync \/ NotifyAndWait \/ NotifyFails \/ OtherRequest \/ NotifyAnswered
  <2>1. /\ UNCHANGED <<command, handler>> /\ client' \in {"waiting", "other", "exited"}
        /\ status' \in {"0", "1", status} \/ (answer # "none" /\ status' = answer)
    BY <1>2 DEF NotifyAsync, NotifyAndWait, NotifyFails, OtherRequest, NotifyAnswered
  <2>2. QED
    BY <2>1 DEF NotifyTyped, command, handler
<1>3. CASE JudgeRequest \/ ReadRequest \/ DropRequest
  BY <1>3 DEF NotifyTyped, JudgeRequest, ReadRequest, DropRequest, shimSide, command, handler
<1>4. CASE RefuseRequest \/ PolicyRefuses \/ AnswerNotification
  <2>1. UNCHANGED <<shimSide, command, told, due>> /\ answer' \in {"86", "124", "code"}
    BY <1>4 DEF RefuseRequest, PolicyRefuses, AnswerNotification, Answer
  <2>2. QED
    BY <2>1 DEF NotifyTyped, shimSide, command
<1>5. CASE Spawn
  <2>1. UNCHANGED <<shimSide, writing, wrote, pipe, held, told, due>> /\ answer' \in {answer, "86"}
    BY <1>5 DEF Spawn, Answer
  <2>2. QED
    BY <2>1 DEF NotifyTyped, shimSide
<1>6. ASSUME NEW p \in Out, Collect(p) PROVE NotifyTyped'
  <2>1. UNCHANGED <<client, status, writing, wrote, held, told, due, answer>>
        /\ (pipe' = pipe \/ (pipe[p] > 0 /\ pipe' = [pipe EXCEPT ![p] = @ - 1]))
    BY <1>6 DEF Collect, shimSide
  <2>2. pipe' \in [Out -> 0..PipeCap]
    BY <2>1, NotificationAssumption DEF NotifyTyped
  <2>3. QED
    BY <2>1, <2>2 DEF NotifyTyped
<1>7. CASE PollExited \/ PollTimedOut \/ Grace
  <2>1. /\ UNCHANGED <<client, status, wrote, pipe, held, due, answer>>
        /\ writing' \in {writing, "none"}
        /\ told' \in {told, {"TERM"}} \/ (hpc = "grace" /\ told' = told \cup {"KILL"})
    BY <1>7 DEF PollExited, PollTimedOut, Grace, shimSide, command
  <2>2. told' \in {{}, {"TERM"}, {"TERM", "KILL"}}
    <3>1. hpc = "grace" => told # {}
      BY DEF NotifyInv, Stages
    <3>2. told \in {{}, {"TERM"}, {"TERM", "KILL"}}
      BY DEF NotifyTyped
    <3>3. QED
      BY ONLY <2>1, <3>1, <3>2
  <2>3. writing' \in Out => writing' = writing
    BY <2>1 DEF Out
  <2>4. QED
    BY <2>1, <2>2, <2>3 DEF NotifyTyped
<1>8. CASE TimePasses
  BY <1>8 DEF NotifyTyped, TimePasses, shimSide, command
<1>9. CASE Written
  <2>1. /\ writing \in Out /\ writing' = "none" /\ pipe[writing] < PipeCap
        /\ pipe' = [pipe EXCEPT ![writing] = @ + 1] /\ wrote' = [wrote EXCEPT ![writing] = @ + 1]
        /\ UNCHANGED <<client, status, held, told, due, answer>>
    BY <1>9 DEF Written, shimSide, handler
  <2>2. pipe' \in [Out -> 0..PipeCap] /\ wrote' \in [Out -> 0..MaxOut]
    BY <2>1, NotificationAssumption DEF NotifyTyped
  <2>3. writing' \notin Out
    BY <2>1 DEF Out
  <2>4. QED
    BY <2>1, <2>2, <2>3 DEF NotifyTyped
<1>10. ASSUME NEW p \in Out, Write(p) PROVE NotifyTyped'
  BY <1>10 DEF NotifyTyped, Write, shimSide, handler
<1>11. CASE Detach \/ DescendantEnds
  <2>1. /\ UNCHANGED <<client, status, writing, wrote, pipe, told, due, answer>>
        /\ held' = TRUE \/ held' = FALSE
    BY <1>11 DEF Detach, DescendantEnds, shimSide, handler
  <2>2. held' \in BOOLEAN
    BY ONLY <2>1, Zenon
  <2>3. QED
    BY <2>1, <2>2 DEF NotifyTyped
<1>12. CASE CommandEnds
  BY <1>12 DEF NotifyTyped, CommandEnds, shimSide, handler, Out
<1>13. QED
  BY <1>1, <1>2, <1>3, <1>4, <1>5, <1>6, <1>7, <1>8, <1>9, <1>10, <1>11, <1>12
     DEF NotifyNext, Serving, Handler, Command

(* The types of a notification, with its request's.                         *)
LEMMA NotificationTyped ==
  ASSUME NotifyInv, NotifyTyped, RequestInv
  PROVE  NotifyTypeOK
<1>1. ReqTypeOK
  BY RequestInvImplies
<1>2. got \in [Out -> 0..MaxOut]
  <2>1. \A p \in Out : got[p] \in 0..MaxOut
    BY NotificationAssumption DEF NotifyInv, Collected, NotifyTyped
  <2>2. QED
    BY <2>1 DEF NotifyInv, Collected
<1>3. hpc \in {"poll", "grace"} <=> child \in {"running", "zombie"}
  BY DEF NotifyInv, Stages
<1>4. readers \subseteq Out /\ child \in {"none", "running", "zombie", "reaped"}
      /\ hpc \in {"none", "poll", "grace", "join", "drain", "answered"}
  BY DEF NotifyInv, Stages, Collected
<1>5. QED
  BY <1>1, <1>2, <1>3, <1>4 DEF NotifyTyped, NotifyTypeOK

-----------------------------------------------------------------------------
(* What the process does is a step of the tool or of the notification.      *)
LEMMA ProcessSteps ==
  ASSUME [Tool \/ Notifier]_processVars
  PROVE  [Next]_vars /\ [NotifyNext]_notifyVars
  BY DEF Tool, Notifier, processVars

(* The properties of a tool's call hold of the process.                     *)
THEOREM ToolCallsCorrect ==
  ProcessSpec => [](/\ RunTwiceOnlyOnBrokenOutput /\ LostOnlyWithoutAnswer
                    /\ ExitIsReplied /\ MarkersCleared)
<1>1. ProcessInit => IInv
  BY InitIInv DEF ProcessInit
<1>2. IInv /\ [Tool \/ Notifier]_processVars => IInv'
  BY NextKeepsIInv, ProcessSteps
<1>3. IInv => /\ RunTwiceOnlyOnBrokenOutput /\ LostOnlyWithoutAnswer
              /\ ExitIsReplied /\ MarkersCleared
  BY IInvImpliesProperties
<1>4. QED
  BY <1>1, <1>2, <1>3, PTL DEF ProcessSpec

(* An exit code is answered only with all that the command wrote, and a     *)
(* timeout only when nothing of it is left.                                 *)
THEOREM NotificationsWhole == ProcessSpec => []AnswerIsWhole
<1>1. ProcessInit => NotifyInv
  BY NotifyInvInit DEF ProcessInit
<1>2. NotifyInv /\ [Tool \/ Notifier]_processVars => NotifyInv'
  BY NotifyInvStep, ProcessSteps
<1>3. NotifyInv => AnswerIsWhole
  BY DEF NotifyInv
<1>4. QED
  BY <1>1, <1>2, <1>3, PTL DEF ProcessSpec

(* However a connection cuts a request in pieces, and wherever its sender   *)
(* stops, the body the proxy judges is what was sent, and a request that    *)
(* came whole is not refused for the way it came.                           *)
THEOREM RequestsReadAsSent == ProcessSpec => []ReadsWhatWasSent
<1>1. ProcessInit => RequestInv
  BY RequestInvInit DEF ProcessInit, NotifyInit
<1>2. RequestInv /\ [Tool \/ Notifier]_processVars => RequestInv'
  BY RequestInvStep, RequestSteps, ProcessSteps
<1>3. RequestInv => ReadsWhatWasSent
  BY RequestInvImplies
<1>4. QED
  BY <1>1, <1>2, <1>3, PTL DEF ProcessSpec

(* The tool's call, the request and the notification keep their types: no   *)
(* pipe holds more than it can, and nothing more is collected than written. *)
THEOREM ProcessTypes == ProcessSpec => []ProcessTypeOK
<1> DEFINE ProcessInv == IInv /\ NotifyInv /\ NotifyTyped /\ RequestInv
<1>1. ProcessInit => ProcessInv
  BY InitIInv, NotifyInvInit, NotifyTypedInit, RequestInvInit DEF ProcessInit, NotifyInit
<1>2. ProcessInv /\ [Tool \/ Notifier]_processVars => ProcessInv'
  BY NextKeepsIInv, NotifyInvStep, NotifyTypedStep, RequestInvStep, RequestSteps, ProcessSteps
<1>3. ProcessInv => ProcessTypeOK
  BY NotificationTyped DEF IInv, ProcessTypeOK
<1>4. QED
  BY <1>1, <1>2, <1>3, PTL DEF ProcessSpec
=============================================================================
