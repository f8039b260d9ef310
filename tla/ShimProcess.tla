---------------------------- MODULE ShimProcess -----------------------------
(***************************************************************************)
(* One run of the shim.  The name it is called by decides what it is: a    *)
(* tool (ShimClient) or a notification (Notification, which also follows   *)
(* requests of tools through the proxy's reader and gate).                 *)
(***************************************************************************)
EXTENDS ShimClient, Notification

ProcessInit == Init /\ NotifyInit

(* A shim that has a proxy to post to looks its own name up in NOTIFY_TOOLS,*)
(* and is one or the other from then on.                                    *)
AsTool == client = "start"
AsNotifier == pc = "start"

ProcessTypeOK == TypeOK /\ NotifyTypeOK

Tool == AsTool /\ Next /\ UNCHANGED notifyVars
Notifier == AsNotifier /\ NotifyNext /\ UNCHANGED vars

Runs == \/ AsTool /\ Shim /\ UNCHANGED notifyVars
        \/ AsNotifier /\ Serving /\ UNCHANGED vars

processVars == <<vars, notifyVars>>

(* The shim and its curl run, or the proxy's threads that serve a           *)
(* notification, as time passes for them.  Their steps are finitely many,   *)
(* so that it does not take more than fairness to all of them together.     *)
ProcessSpec ==
  /\ ProcessInit
  /\ [][Tool \/ Notifier]_processVars
  /\ WF_processVars(Runs)
=============================================================================
