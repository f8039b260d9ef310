------------------------------ MODULE ToolCall ------------------------------
(***************************************************************************)
(* What a caller may rely on when it asks the proxy to run a tool, without *)
(* handlers, watchers, files or connections: a tool is started at most     *)
(* once per call, it ends once and for one reason, and the call is         *)
(* concluded once.  It is concluded by a refusal, which no tool was        *)
(* started for; by an exit code, which nobody knows before the tool is     *)
(* over; or by giving the caller up.  ExecProxy implements this.           *)
(***************************************************************************)
CONSTANTS
  Call,
  Alone       (* the calls whose exec id no other call uses                  *)

VARIABLES
  tool,       (* each call's tool                                            *)
  cause,      (* what ended it                                               *)
  reply       (* how the call was concluded                                  *)

callVars == <<tool, cause, reply>>

Causes == {"itself", "watcher", "signal", "disconnect", "session"}

TypeOK ==
  /\ tool \in [Call -> {"none", "running", "over"}]
  /\ cause \in [Call -> Causes \cup {"none"}]
  /\ reply \in [Call -> {"none", "refused", "tool", "124", "gaveUp"}]

Init ==
  /\ tool = [c \in Call |-> "none"]
  /\ cause = [c \in Call |-> "none"]
  /\ reply = [c \in Call |-> "none"]

Conclude(c, how) == /\ reply[c] = "none"
                    /\ reply' = [reply EXCEPT ![c] = how]

Refuse(c) == /\ tool[c] = "none"
             /\ Conclude(c, "refused")
             /\ UNCHANGED <<tool, cause>>

Start(c) == /\ tool[c] = "none"
            /\ reply[c] = "none"
            /\ tool' = [tool EXCEPT ![c] = "running"]
            /\ UNCHANGED <<cause, reply>>

(* Signals reach tools whose callers were given up, too, and stopping the   *)
(* sidecars ends every tool in one step.                                    *)
End(C, why) == /\ C # {}
               /\ \A c \in C : tool[c] = "running"
               /\ tool' = [c \in Call |-> IF c \in C THEN "over" ELSE tool[c]]
               /\ cause' = [c \in Call |-> IF c \in C THEN why ELSE cause[c]]
               /\ UNCHANGED reply

(* A call's own timeout is not told as an outcome of the tool.  What the    *)
(* watcher of another call did under the same exec id is.                   *)
Answer(c) == /\ tool[c] = "over"
             /\ \/ Conclude(c, "124")
                \/ Conclude(c, "tool") /\ (c \in Alone => cause[c] # "watcher")
             /\ UNCHANGED <<tool, cause>>

GiveUp(c) == /\ tool[c] # "none"
             /\ Conclude(c, "gaveUp")
             /\ UNCHANGED <<tool, cause>>

Next ==
  \/ \E c \in Call : Refuse(c) \/ Start(c) \/ Answer(c) \/ GiveUp(c)
  \/ \E C \in SUBSET Call, why \in Causes : End(C, why)

Spec == Init /\ [][Next]_callVars
=============================================================================
