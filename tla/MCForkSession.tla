--------------------------- MODULE MCForkSession ---------------------------
(***************************************************************************)
(* ForkSession on a small instance: two panes with one commit each, the    *)
(* launcher with its defaults and a "fork merge" by hand.                  *)
(***************************************************************************)
EXTENDS ForkSession
=============================================================================
