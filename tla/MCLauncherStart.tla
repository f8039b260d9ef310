-------------------------- MODULE MCLauncherStart ---------------------------
EXTENDS LauncherStart, TLC

OwnImage(t) == [reg |-> "none", repo |-> "agent", tag |-> t]
ThirdImage == [reg |-> "none", repo |-> "third", tag |-> "pinned"]

(* No option, no variable, no toolchain.                                    *)
Plain == [cli |-> NoImage, full |-> NoImage, reg |-> "none", repo |-> "agent",
          tag |-> FALSE, over |-> NoImage, overTag |-> FALSE,
          internal |-> "unset", mirror |-> "unset", ignore |-> FALSE,
          invalidate |-> FALSE, toolchain |-> FALSE, node |-> FALSE]

(* The migration comes with a short way to the image, the long ways come    *)
(* without it.                                                              *)
MCSettings ==
  { [Plain EXCEPT !.node = TRUE, !.toolchain = TRUE, !.cli = OwnImage("pinned")],
    Plain,
    [Plain EXCEPT !.toolchain = TRUE, !.internal = "given", !.overTag = TRUE],
    [Plain EXCEPT !.tag = TRUE, !.internal = "empty"],
    [Plain EXCEPT !.full = ThirdImage, !.invalidate = TRUE],
    [Plain EXCEPT !.full = ThirdImage, !.mirror = "given"],
    [Plain EXCEPT !.reg = "named", !.over = ThirdImage, !.ignore = TRUE] }

MCLocal == {OwnImage("latest"), OwnImage("release")}

(* Once one launcher has imported the lockfile, it is a pnpm project with   *)
(* lockfiles left over for the other one.                                   *)
MCProjects ==
  {{"package.json", "package-lock.json", "yarn.lock", "node_modules"}}

MCSymmetry == Permutations(Launcher)
=============================================================================
