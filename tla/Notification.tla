---------------------------- MODULE Notification ----------------------------
(***************************************************************************)
(* A notification: the shim, called by the name of a notification command, *)
(* asks the proxy to run it on the host (src/src/bin/aifo-shim.rs:1498),   *)
(* and the proxy runs the configured command with a timeout                *)
(* (src/src/toolchain/notifications.rs).  Requests of tools, which come    *)
(* the same way, are followed up to the gate.                              *)
(***************************************************************************)
EXTENDS Request

CONSTANTS
  PipeCap,    (* bound: what a pipe holds before its writer blocks           *)
  MaxOut      (* bound: what the command writes to each of its pipes         *)

ASSUME NotificationAssumption == PipeCap \in Nat /\ MaxOut \in Nat

VARIABLES
  client,     (* where the notifying shim is                                 *)
  status,     (* its exit code                                               *)
  child,      (* the command: "none", "running", "zombie", "reaped"          *)
  writing,    (* the pipe it is writing to                                   *)
  wrote,      (* what it has written to each                                 *)
  pipe,       (* what is in them                                             *)
  got,        (* what the reader threads have collected                      *)
  readers,    (* the reader threads that have not finished                   *)
  held,       (* a descendant of the command keeps the pipes open            *)
  told,       (* the signals the command was sent                            *)
  due,        (* the timeout and the grace period: "no", "timeout", "grace"  *)
  hpc,        (* where the handler is                                        *)
  answer      (* what it has answered                                        *)

shimSide == <<client, status>>
command == <<child, writing, wrote, pipe, held>>
handler == <<got, readers, told, due, hpc, answer>>
notifyVars == <<reqVars, shimSide, command, handler>>

Out == {"stdout", "stderr"}
NotifyInit ==
  /\ ReqInit
  /\ client = "start" /\ status = "none"
  /\ child = "none" /\ writing = "none" /\ held = FALSE
  /\ wrote = [p \in Out |-> 0] /\ pipe = [p \in Out |-> 0] /\ got = [p \in Out |-> 0]
  /\ readers = {}
  /\ told = {}
  /\ due = "no"
  /\ hpc = "none"
  /\ answer = "none"

-----------------------------------------------------------------------------
(* The shim.                                                               *)

Cuts(s) == 0..Len(Wire(s))

(* By default curl is left to itself and the shim exits at once.            *)
NotifyAsync ==
  /\ client = "start"
  /\ \/ \E s \in Requests("length", 1) : Accept(s, Len(Wire(s)))
     \/ rpc' = "dropped" /\ UNCHANGED <<sent, rest, rbuf, body, need, verdict>>
  /\ client' = "exited"
  /\ status' = "0"
  /\ UNCHANGED <<command, handler>>

(* Otherwise, or without curl, the shim connects itself, and through curl   *)
(* when it cannot: one request is sent.                                     *)
NotifyAndWait ==
  /\ client = "start"
  /\ \E s \in Requests("length", 1) : Accept(s, Len(Wire(s)))
  /\ client' = "waiting"
  /\ UNCHANGED <<status, command, handler>>

NotifyFails ==
  /\ client = "start"
  /\ client' = "exited"
  /\ status' = "1"
  /\ UNCHANGED <<reqVars, command, handler>>

(* Some other request, or one whose sender does not finish it.              *)
OtherRequest ==
  /\ client = "start"
  /\ \E framing \in {"length", "chunked"} : \E s \in Requests(framing, 3) :
       \E n \in Cuts(s) : Accept(s, n)
  /\ client' = "other"
  /\ UNCHANGED <<status, command, handler>>

(* The exit code comes from a header; without an answer it is 1.            *)
NotifyAnswered ==
  /\ client = "waiting"
  /\ \/ /\ answer # "none"
        /\ status' = answer
     \/ /\ rpc = "dropped"
        /\ status' = "1"
  /\ client' = "exited"
  /\ UNCHANGED <<reqVars, command, handler>>

-----------------------------------------------------------------------------
(* The handler.                                                            *)

JudgeRequest ==
  /\ Judge(IF client = "other" THEN Endpoints ELSE {"notify"})
  /\ UNCHANGED <<shimSide, command, handler>>

ReadRequest ==
  /\ Reader
  /\ UNCHANGED <<shimSide, command, handler>>

DropRequest ==
  /\ Drop
  /\ UNCHANGED <<shimSide, command, handler>>

Answer(code) == /\ answer' = code
                /\ hpc' = "answered"

RefuseRequest ==
  /\ rpc = "refused"
  /\ answer = "none"
  /\ Answer("86")
  /\ UNCHANGED <<reqVars, shimSide, command, got, readers, told, due>>

(* What a notification may run is looked up anew for every request: the     *)
(* configured command, which must be well formed, in a safe directory and   *)
(* on the allowlist.  It is asked for by its name and, unless the           *)
(* configuration ends in {args}, with exactly its configured arguments.     *)
Commands == [parsed: BOOLEAN, absolute: BOOLEAN, args: {"none", "last", "elsewhere"}]
Places == [safe: BOOLEAN, listed: BOOLEAN]
Asked == [name: BOOLEAN, args: {"configured", "other", "tooMany"}]

WellFormed(c) == c.parsed /\ c.absolute /\ c.args # "elsewhere"

Permitted(c, at, a) ==
  /\ WellFormed(c)
  /\ at.safe /\ at.listed
  /\ a.name /\ a.args # "tooMany"
  /\ c.args = "none" => a.args = "configured"

(* The request is not looked at any more.                                   *)
Forget == /\ sent' = Nothing
          /\ rest' = <<>> /\ rbuf' = <<>> /\ body' = <<>>
          /\ need' = 0
          /\ UNCHANGED <<rpc, verdict>>

PolicyRefuses ==
  /\ rpc = "admitted" /\ verdict = "notify"
  /\ hpc = "none"
  /\ \E c \in Commands, at \in Places, a \in Asked : ~Permitted(c, at, a)
  /\ Forget
  /\ Answer("86")
  /\ UNCHANGED <<shimSide, command, got, readers, told, due>>

(* The command is started, with a thread at each of its pipes, or cannot be *)
(* although an executable that is being written is tried again for a while. *)
Spawn ==
  /\ rpc = "admitted" /\ verdict = "notify"
  /\ hpc = "none"
  /\ \E c \in Commands, at \in Places, a \in Asked : Permitted(c, at, a)
  /\ Forget
  /\ \/ /\ child' = "running"
        /\ readers' = Out
        /\ hpc' = "poll"
        /\ UNCHANGED answer
     \/ Answer("86") /\ UNCHANGED <<child, readers>>
  /\ UNCHANGED <<shimSide, writing, wrote, pipe, held, got, told, due>>

(* read_to_end: until nobody has the pipe open for writing.                 *)
Collect(p) ==
  /\ p \in readers
  /\ \/ /\ pipe[p] > 0
        /\ pipe' = [pipe EXCEPT ![p] = @ - 1]
        /\ got' = [got EXCEPT ![p] = @ + 1]
        /\ UNCHANGED readers
     \/ /\ pipe[p] = 0 /\ child # "running" /\ ~held
        /\ readers' = readers \ {p}
        /\ UNCHANGED <<pipe, got>>
  /\ UNCHANGED <<reqVars, shimSide, child, writing, wrote, held, told, due, hpc, answer>>

(* The command's exit is looked for before the time.                        *)
PollExited ==
  /\ hpc = "poll"
  /\ child = "zombie"
  /\ child' = "reaped"
  /\ hpc' = "join"
  /\ UNCHANGED <<reqVars, shimSide, writing, wrote, pipe, held, got, readers, told, due,
                 answer>>

PollTimedOut ==
  /\ hpc = "poll"
  /\ child = "running"
  /\ due = "timeout"
  /\ told' = {"TERM"}
  /\ hpc' = "grace"
  /\ UNCHANGED <<reqVars, shimSide, command, got, readers, due, answer>>

(* Mutant: a command that was told to end is not waited for.               *)
GraceWithoutWait ==
  /\ hpc = "grace"
  /\ due = "grace"
  /\ told' = told \cup {"KILL"}
  /\ child' = "zombie"
  /\ writing' = "none"
  /\ hpc' = "drain"
  /\ UNCHANGED <<reqVars, shimSide, wrote, pipe, held, got, readers, due, answer>>

(* It has a moment to follow TERM, then it is killed; it is waited for.     *)
Grace ==
  /\ hpc = "grace"
  /\ \/ /\ child = "zombie"
        /\ child' = "reaped"
        /\ hpc' = "drain"
        /\ UNCHANGED <<told, writing>>
     \/ /\ child = "running" /\ due = "grace"
        /\ told' = told \cup {"KILL"}
        /\ child' = "zombie"
        /\ writing' = "none"
        /\ UNCHANGED hpc
  /\ UNCHANGED <<reqVars, shimSide, wrote, pipe, held, got, readers, due, answer>>

(* Mutant: the output is taken as it is when the command has ended.         *)
AnswerWithoutJoin ==
  /\ hpc \in {"join", "drain"}
  /\ Answer(IF hpc = "join" THEN "code" ELSE "124")
  /\ UNCHANGED <<reqVars, shimSide, command, got, readers, told, due>>

(* The threads are joined before anything is answered.                      *)
AnswerNotification ==
  /\ hpc \in {"join", "drain"}
  /\ readers = {}
  /\ Answer(IF hpc = "join" THEN "code" ELSE "124")
  /\ UNCHANGED <<reqVars, shimSide, command, got, readers, told, due>>

(* A notification always has a timeout.                                     *)
TimePasses ==
  /\ \/ hpc = "poll" /\ due = "no" /\ due' = "timeout"
     \/ hpc = "grace" /\ due = "timeout" /\ due' = "grace"
  /\ UNCHANGED <<reqVars, shimSide, command, got, readers, told, hpc, answer>>

-----------------------------------------------------------------------------
(* The command: it may do anything, and nothing.                           *)

Write(p) ==
  /\ child = "running" /\ writing = "none"
  /\ wrote[p] < MaxOut
  /\ writing' = p
  /\ UNCHANGED <<reqVars, shimSide, child, wrote, pipe, held, handler>>

(* A write to a full pipe blocks.                                           *)
Written ==
  /\ child = "running" /\ writing \in Out
  /\ pipe[writing] < PipeCap
  /\ pipe' = [pipe EXCEPT ![writing] = @ + 1]
  /\ wrote' = [wrote EXCEPT ![writing] = @ + 1]
  /\ writing' = "none"
  /\ UNCHANGED <<reqVars, shimSide, child, held, handler>>

Detach ==
  /\ child = "running"
  /\ held' = TRUE
  /\ UNCHANGED <<reqVars, shimSide, child, writing, wrote, pipe, handler>>

DescendantEnds ==
  /\ held
  /\ child # "running"
  /\ held' = FALSE
  /\ UNCHANGED <<reqVars, shimSide, child, writing, wrote, pipe, handler>>

(* By itself, or on TERM, which may reach it in a write.                    *)
CommandEnds ==
  /\ child = "running"
  /\ writing = "none" \/ "TERM" \in told
  /\ child' = "zombie"
  /\ writing' = "none"
  /\ UNCHANGED <<reqVars, shimSide, wrote, pipe, held, handler>>

-----------------------------------------------------------------------------
Handler == JudgeRequest \/ ReadRequest \/ RefuseRequest \/ PolicyRefuses \/ Spawn
             \/ PollExited \/ PollTimedOut \/ Grace \/ AnswerNotification

Command == (\E p \in Out : Write(p)) \/ Written \/ Detach \/ DescendantEnds \/ CommandEnds

(* What goes on without the command, which need not do anything.            *)
Serving == Handler \/ (\E p \in Out : Collect(p)) \/ TimePasses

NotifyNext ==
  \/ NotifyAsync \/ NotifyAndWait \/ NotifyFails \/ OtherRequest \/ NotifyAnswered
  \/ Serving \/ DropRequest
  \/ Command

-----------------------------------------------------------------------------
NotifyTypeOK ==
  /\ ReqTypeOK
  /\ client \in {"start", "waiting", "other", "exited"}
  /\ status \in {"none", "0", "1", "86", "124", "code"}
  /\ child \in {"none", "running", "zombie", "reaped"}
  /\ writing \in Out \cup {"none"}
  /\ wrote \in [Out -> 0..MaxOut] /\ got \in [Out -> 0..MaxOut]
  /\ pipe \in [Out -> 0..PipeCap]
  /\ readers \subseteq Out
  /\ held \in BOOLEAN
  /\ told \in {{}, {"TERM"}, {"TERM", "KILL"}}
  /\ due \in {"no", "timeout", "grace"}
  /\ hpc \in {"none", "poll", "grace", "join", "drain", "answered"}
  /\ hpc \in {"poll", "grace"} <=> child \in {"running", "zombie"}
  /\ answer \in {"none", "86", "124", "code"}

(* An exit code is answered only for a command that ended by itself, in its *)
(* time, and with all that it wrote; and when the timeout is answered       *)
(* nothing of the command is left: it has been reaped and no thread reads   *)
(* from it (notifications.rs:385, "ensure wait/reap").                      *)
AnswerIsWhole ==
  answer \in {"code", "124"} =>
    /\ child = "reaped"
    /\ readers = {}
    /\ answer = "code" <=> told = {}
    /\ got = wrote

(* A request that was sent whole is answered, although its sender keeps the *)
(* connection open; a notification is answered in any case, its timeout     *)
(* sees to that, but for one whose descendants keep its output open.        *)
RequestEnds ==
  (rpc = "headers" /\ sent.whole)
    ~> (answer # "none" \/ held \/ rpc = "dropped" \/ verdict \in {"exec", "signal"})
=============================================================================
