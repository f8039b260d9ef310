---------------------------- MODULE MCExecProxy ----------------------------
(***************************************************************************)
(* ExecProxy with one streamed exec and one signal for it: everything that *)
(* can happen between the handler, the watcher, the tool, the signal and   *)
(* the peer of a single exec.                                              *)
(***************************************************************************)
EXTENDS ExecProxy

CONSTANTS v2, sig, i1

MCExec == {v2}
MCSignal == {sig}
MCId == {i1}
MCIdOf == [c \in {v2, sig} |-> i1]
MCSignalOf == [s \in {sig} |-> "INT"]
NoneOfThem == {}
=============================================================================
