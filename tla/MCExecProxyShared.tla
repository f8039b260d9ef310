------------------------- MODULE MCExecProxyShared -------------------------
(***************************************************************************)
(* ExecProxy with two buffered execs under one exec id (a shim that falls  *)
(* back to curl posts its exec again), a signal for that id, and room for  *)
(* two of the three connections.                                           *)
(***************************************************************************)
EXTENDS ExecProxy

CONSTANTS first, again, sig, i1

MCExec == {first, again}
MCSignal == {sig}
MCId == {i1}
MCIdOf == [c \in {first, again, sig} |-> i1]
MCSignalOf == [s \in {sig} |-> "INT"]
NoneOfThem == {}
=============================================================================
