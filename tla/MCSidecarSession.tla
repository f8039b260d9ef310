-------------------------- MODULE MCSidecarSession --------------------------
(***************************************************************************)
(* SidecarSession with two panes and two toolchains.  The first pane asks  *)
(* for images in which both have "make", the second for ones in which only *)
(* node's has.                                                             *)
(***************************************************************************)
EXTENDS SidecarSession

CONSTANTS p1, p2, rust

MCPane == {p1, p2}
MCKinds == <<rust, Node>>
MCHasTool == [p \in MCPane |-> [x \in {rust, Node} |-> p = p1 \/ x = Node]]
=============================================================================
