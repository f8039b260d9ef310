---------------------------- MODULE ForkSession ----------------------------
(***************************************************************************)
(* The life of one fork session: panes are cloned from the original        *)
(* repository (fork_impl/clone.rs), agents work in them, and afterwards    *)
(* their branches are merged back (fork_impl/merge.rs), the session is     *)
(* disposed of (fork/post_merge.rs) or cleaned (fork.rs, fork_impl/clean,  *)
(* fork_impl/notice.rs).  The launcher that made the session merges when   *)
(* its terminal comes back; meanwhile, and afterwards, somebody may run    *)
(* "fork merge" and "fork clean" on the same session.                      *)
(*                                                                         *)
(* Of git the model keeps which commits each branch of the original        *)
(* repository and each pane holds.  A commit is <<pane, number>>; the base *)
(* commit is in every branch and left out.                                 *)
(***************************************************************************)
EXTENDS Integers, FiniteSets

CONSTANTS
  Panes,          (* how many panes the session has                           *)
  MaxCommits,     (* bound: the commits an agent makes in its pane            *)
  MaxDirty,       (* bound: the panes with uncommitted changes at a time      *)
  Strategy,       (* --fork-merge-strategy                                    *)
  CliStrategies,  (* those "fork merge" is run with                           *)
  Autoclean,      (* whether a merged session is disposed of                  *)
  KeepMergeRef,   (* AIFO_FORK_MERGE_NO_AUTOCLEAN=1                           *)
  OrigDetached,   (* whether the user has no branch checked out               *)
  CleanModes,     (* how "fork clean" is run: of default, keep-dirty, auto,   *)
                  (* force                                                    *)
  UserEdits,      (* bound: how often the user dirties the working tree       *)
  BaseMoves,      (* whether the user commits while panes are cloned          *)
  Launcher, Cli   (* the two processes that may merge                         *)

ASSUME ForkAssumption ==
  /\ Panes \in Nat \ {0}
  /\ {MaxCommits, MaxDirty} \subseteq Nat
  /\ Strategy \in {"none", "fetch", "octopus"}
  /\ CliStrategies \subseteq {"fetch", "octopus"}
  /\ {Autoclean, KeepMergeRef, OrigDetached, BaseMoves} \subseteq BOOLEAN
  /\ CleanModes \subseteq {"default", "keep-dirty", "auto", "force"}
  /\ UserEdits \in Nat
  /\ Launcher # Cli
  /\ "free" \notin {Launcher, Cli}

Pane == 1..Panes
Merger == {Launcher, Cli}
Commit == Pane \X (1..MaxCommits)
NoRef == -1

VARIABLES
  stage,      (* how far the launcher is                                      *)
  dir,        (* the directory of each pane                                   *)
  session,    (* whether the session directory exists                         *)
  base,       (* whether its .meta.json has a base_commit_sha                 *)
  moved,      (* the panes cloned before the base branch moved                *)
  agent,      (* the agent of each pane                                       *)
  work,       (* the commits each pane's HEAD has over the base               *)
  form,       (* how that HEAD relates to the pane's branch and to the base   *)
  dirty,      (* the panes with uncommitted changes                           *)
  ref,        (* the commits in each pane branch of the original repository   *)
  mergeRef,   (* the commits in merge/<sid>, none when there is no such branch*)
  head,       (* what the original repository has checked out                 *)
  tree,       (* its working tree                                             *)
  edits,      (* how often the user has dirtied it                            *)
  lock,       (* the holder of the merge lock                                 *)
  mpc,        (* where each merger is                                         *)
  strategy,   (* the strategy each merger was given                           *)
  listed,     (* the panes each merger found                                  *)
  fetched,    (* those it has fetched                                         *)
  orig,       (* what it found checked out                                    *)
  touched,    (* history: the panes worked in since each merger listed them   *)
  merged,     (* history: the commits that ever went into a merge             *)
  clean,      (* the plan of "fork clean": the clean panes and the others     *)
  stale       (* history: the panes worked in since "fork clean" checked them *)

disk == <<dir, session, base, moved>>
agents == <<agent, work, form, dirty>>
branches == <<ref, mergeRef, head>>
user == <<tree, edits>>
locals == <<strategy, listed, fetched, orig, touched>>
merging == <<lock, mpc, locals>>
cleaning == <<clean, stale>>
vars == <<stage, disk, agents, branches, user, merging, merged, cleaning>>

NoPlan == [made |-> FALSE, panes |-> {}, kept |-> {}]

Init ==
  /\ stage = "clone"
  /\ dir = [p \in Pane |-> "absent"]
  /\ session = FALSE
  /\ base = FALSE
  /\ moved = {}
  /\ agent = [p \in Pane |-> "none"]
  /\ work = [p \in Pane |-> 0]
  /\ form = [p \in Pane |-> "branch"]
  /\ dirty = {}
  /\ ref = [p \in Pane |-> NoRef]
  /\ mergeRef = {}
  /\ head = "orig"
  /\ tree = "clean"
  /\ edits = 0
  /\ lock = "free"
  /\ mpc = [m \in Merger |-> "idle"]
  /\ strategy = [m \in Merger |-> Strategy]
  /\ listed = [m \in Merger |-> {}]
  /\ fetched = [m \in Merger |-> {}]
  /\ orig = [m \in Merger |-> "orig"]
  /\ touched = [m \in Merger |-> {}]
  /\ merged = {}
  /\ clean = NoPlan
  /\ stale = {}

Present == {p \in Pane : dir[p] = "present"}

(* The commits of a pane or a ref that has n of them.                       *)
Commits(p, n) == {p} \X (1..n)

Remove(panes) ==
  dir' = [p \in Pane |-> IF p \in panes /\ dir[p] = "present"
                           THEN "removed" ELSE dir[p]]

(* remove_dir_all of the session: the panes go, and .meta.json with them.   *)
RemoveSession ==
  /\ Remove(Pane)
  /\ session' = FALSE
  /\ base' = FALSE
  /\ moved' = {}

-----------------------------------------------------------------------------
(* The launcher (fork_run).                                                *)

ClonePane(p) ==
  /\ stage = "clone"
  /\ dir[p] = "absent"
  /\ \A q \in 1..(p - 1) : dir[q] # "absent"
  /\ dir' = [dir EXCEPT ![p] = "present"]
  /\ session' = TRUE
  /\ UNCHANGED <<stage, base, moved, agents, branches, user, merging, merged, cleaning>>

(* The user commits to the base branch: what was cloned has an older base.  *)
UserCommits ==
  /\ BaseMoves
  /\ stage = "clone"
  /\ moved = {}
  /\ moved' = Present
  /\ UNCHANGED <<stage, dir, session, base, agents, branches, user, merging, merged,
                 cleaning>>

(* A clone fails: the launcher gives up, the panes made so far stay.        *)
CloneFails ==
  /\ stage = "clone"
  /\ \E p \in Pane : dir[p] = "absent"
  /\ session' = TRUE
  /\ stage' = "exit"
  /\ UNCHANGED <<dir, base, moved, agents, branches, user, merging, merged, cleaning>>

(* The base is written down: the commit that its branch names by now.       *)
WriteMeta ==
  /\ stage = "clone"
  /\ \A p \in Pane : dir[p] # "absent"
  /\ session' = TRUE
  /\ base' = TRUE
  /\ stage' = "launch"
  /\ UNCHANGED <<dir, moved, agents, branches, user, merging, merged, cleaning>>

Launch ==
  /\ stage = "launch"
  /\ agent' = [p \in Pane |-> IF p \in Present THEN "running" ELSE "none"]
  /\ stage' = "attached"
  /\ UNCHANGED <<disk, work, form, dirty, branches, user, merging, merged, cleaning>>

(* The terminal cannot be set up: cleanup_and_update_meta, which keeps the  *)
(* panes (--fork-keep-on-failure is a flag whose default is true).          *)
LaunchFails ==
  /\ stage = "launch"
  /\ stage' = "exit"
  /\ UNCHANGED <<disk, agents, branches, user, merging, merged, cleaning>>

(* tmux gives the terminal back: because the last pane ended, because the   *)
(* user detached, or at once, when the launcher itself ran inside tmux.     *)
AttachReturns ==
  /\ stage = "attached"
  /\ stage' = "exit"
  /\ mpc' = IF Strategy = "none" THEN mpc ELSE [mpc EXCEPT ![Launcher] = "start"]
  /\ UNCHANGED <<disk, agents, branches, user, lock, locals, merged, cleaning>>

-----------------------------------------------------------------------------
(* The agents, as far as git in their pane tells.                          *)

Holding == {"fetch", "checkout", "merge", "restore", "delete"}

Works(p) ==
  /\ agent[p] = "running"
  /\ dir[p] = "present"
  /\ touched' = [m \in Merger |-> IF mpc[m] \in Holding \cup {"dispose"}
                                   THEN touched[m] \cup {p} ELSE touched[m]]
  /\ stale' = IF clean = NoPlan THEN stale ELSE stale \cup {p}
  /\ UNCHANGED <<stage, disk, agent, branches, user, lock, mpc, strategy, listed,
                 fetched, orig, merged, clean>>

AgentEdits(p) == /\ Works(p)
                 /\ Cardinality(dirty \cup {p}) <= MaxDirty
                 /\ dirty' = dirty \cup {p}
                 /\ UNCHANGED <<work, form>>

AgentCommits(p) == /\ Works(p)
                   /\ work[p] < MaxCommits
                   /\ work' = [work EXCEPT ![p] = @ + 1]
                   /\ dirty' = dirty \ {p}
                   /\ UNCHANGED form

(* The history under the branch is rewritten (amend, rebase, reset): the    *)
(* base commit is no ancestor any more.                                     *)
AgentRewrites(p) == /\ Works(p)
                    /\ work[p] > 0 /\ form[p] = "branch"
                    /\ form' = [form EXCEPT ![p] = "diverged"]
                    /\ UNCHANGED <<work, dirty>>

AgentDetachesHead(p) == /\ Works(p)
                        /\ form[p] = "branch"
                        /\ form' = [form EXCEPT ![p] = "detached"]
                        /\ UNCHANGED <<work, dirty>>

AgentExits(p) ==
  /\ agent[p] = "running"
  /\ agent' = [agent EXCEPT ![p] = "exited"]
  /\ UNCHANGED <<stage, disk, work, form, dirty, branches, user, merging, merged,
                 cleaning>>

-----------------------------------------------------------------------------
(* Merging (fork_merge_branches_by_session, fork_merge_branches).          *)

(* "fork merge", run by hand.                                               *)
CliMerge(s) ==
  /\ mpc[Cli] = "idle"
  /\ mpc' = [mpc EXCEPT ![Cli] = "start"]
  /\ strategy' = [strategy EXCEPT ![Cli] = s]
  /\ UNCHANGED <<stage, disk, agents, branches, user, lock, listed, fetched, orig,
                 touched, merged, cleaning>>

Goto(m, pc) == mpc' = [mpc EXCEPT ![m] = pc]

(* A return, with the guard of the merge lock and all locals dropped.       *)
Return(m, result) ==
  /\ Goto(m, result)
  /\ lock' = IF lock = m THEN "free" ELSE lock
  /\ strategy' = [strategy EXCEPT ![m] = Strategy]
  /\ listed' = [listed EXCEPT ![m] = {}]
  /\ fetched' = [fetched EXCEPT ![m] = {}]
  /\ orig' = [orig EXCEPT ![m] = "orig"]
  /\ touched' = [touched EXCEPT ![m] = {}]

(* The panes "fork merge" finds: the directories whose HEAD is on a branch. *)
WithBranch == {p \in Present : form[p] # "detached"}

StartMerge(m, found) ==
  /\ lock' = m
  /\ Goto(m, "fetch")
  /\ listed' = [listed EXCEPT ![m] = found]
  /\ orig' = [orig EXCEPT ![m] = head]
  /\ UNCHANGED <<strategy, fetched, touched>>

(* Mutant: the lock is released once the panes are listed.                  *)
ListPanesUnlocked(m) ==
  /\ mpc[m] = "start"
  /\ session /\ lock = "free"
  /\ IF WithBranch = {} THEN Return(m, "failed")
     ELSE /\ Goto(m, "fetch")
          /\ listed' = [listed EXCEPT ![m] = WithBranch]
          /\ orig' = [orig EXCEPT ![m] = head]
          /\ UNCHANGED <<lock, strategy, fetched, touched>>
  /\ UNCHANGED <<stage, disk, agents, branches, user, merged, cleaning>>

(* The lock is taken, the panes with a branch are listed, and what the      *)
(* original repository has checked out is noted.                            *)
ListPanes(m) ==
  /\ mpc[m] = "start"
  /\ session /\ lock = "free"
  /\ IF WithBranch = {} THEN Return(m, "failed") ELSE StartMerge(m, WithBranch)
  /\ UNCHANGED <<stage, disk, agents, branches, user, merged, cleaning>>

(* The session is gone, or another merge keeps the lock for five seconds.   *)
CannotStart(m) ==
  /\ mpc[m] = "start"
  /\ ~session \/ lock # "free"
  /\ Return(m, "failed")
  /\ UNCHANGED <<stage, disk, agents, branches, user, merged, cleaning>>

(* Mutant: every pane directory is fetched, not the ones with a branch.     *)
FetchEveryPane(m, p) ==
  /\ mpc[m] = "fetch"
  /\ p \notin fetched[m]
  /\ dir[p] = "present"
  /\ ref' = [ref EXCEPT ![p] = work[p]]
  /\ fetched' = [fetched EXCEPT ![m] = @ \cup {p}]
  /\ UNCHANGED <<stage, disk, agents, mergeRef, head, user, lock, mpc, strategy,
                 listed, orig, touched, merged, cleaning>>

(* git fetch <pane> <branch>:refs/heads/<branch>, which git refuses when it *)
(* would rewrite a branch fetched before.                                   *)
FetchPane(m, p) ==
  /\ mpc[m] = "fetch"
  /\ p \in listed[m] \ fetched[m]
  /\ dir[p] = "present"
  /\ form[p] = "diverged" => ref[p] = NoRef
  /\ ref' = [ref EXCEPT ![p] = work[p]]
  /\ fetched' = [fetched EXCEPT ![m] = @ \cup {p}]
  /\ UNCHANGED <<stage, disk, agents, mergeRef, head, user, lock, mpc, strategy,
                 listed, orig, touched, merged, cleaning>>

(* Mutant: a pane that is gone is waited for.                               *)
FetchFailsOnlyRefused(m) ==
  /\ mpc[m] = "fetch"
  /\ \E p \in listed[m] \ fetched[m] : form[p] = "diverged" /\ ref[p] # NoRef
  /\ Return(m, "failed")
  /\ UNCHANGED <<stage, disk, agents, branches, user, merged, cleaning>>

(* The pane is gone, or git refuses: the merge is off, and the branches     *)
(* fetched so far stay.                                                     *)
FetchFails(m) ==
  /\ mpc[m] = "fetch"
  /\ \E p \in listed[m] \ fetched[m] :
       dir[p] # "present" \/ (form[p] = "diverged" /\ ref[p] # NoRef)
  /\ Return(m, "failed")
  /\ UNCHANGED <<stage, disk, agents, branches, user, merged, cleaning>>

Fetched(m) == mpc[m] = "fetch" /\ fetched[m] = listed[m]

(* append_fields_compact, which makes the session directory when it is gone.*)
AppendMeta == session' = TRUE /\ UNCHANGED <<dir, base, moved>>

(* Strategy "fetch" ends here.                                              *)
FetchOnly(m) ==
  /\ Fetched(m)
  /\ strategy[m] = "fetch"
  /\ AppendMeta
  /\ Return(m, "ok")
  /\ UNCHANGED <<stage, agents, branches, user, merged, cleaning>>

(* Strategy "octopus" asks for a clean working tree, but only now.          *)
Preflight(m) ==
  /\ Fetched(m)
  /\ strategy[m] = "octopus"
  /\ IF tree = "clean" THEN Goto(m, "checkout") /\ UNCHANGED <<lock, locals>>
                       ELSE Return(m, "failed")
  /\ UNCHANGED <<stage, disk, agents, branches, user, merged, cleaning>>

(* git checkout -B merge/<sid> <base>: the branch starts over.              *)
Checkout(m) ==
  /\ mpc[m] = "checkout"
  /\ \/ /\ tree # "conflicted"
        /\ mergeRef' = {}
        /\ head' = "merge"
        /\ Goto(m, "merge")
        /\ UNCHANGED <<lock, locals>>
     \/ tree # "clean" /\ Return(m, "failed") /\ UNCHANGED <<mergeRef, head>>
  /\ UNCHANGED <<stage, disk, agents, ref, user, merged, cleaning>>

ToMerge(m) == UNION {Commits(p, ref[p]) : p \in listed[m]}

Merge(m) ==
  /\ mpc[m] = "merge"
  /\ mergeRef' = ToMerge(m)
  /\ merged' = merged \cup ToMerge(m)
  /\ Goto(m, "restore")
  /\ UNCHANGED <<stage, disk, agents, ref, head, user, lock, locals, cleaning>>

(* Two panes have commits, one has rewritten its history, or the user has   *)
(* committed or begun to edit.                                              *)
MayConflict(m) ==
  \/ \E p, q \in listed[m] : p # q /\ ref[p] > 0 /\ ref[q] > 0
  \/ \E p \in listed[m] : form[p] = "diverged" \/ p \in moved
  \/ tree # "clean"

(* Mutant: the pane branches are deleted even when the merge fails.         *)
MergeFailsDroppingRefs(m) ==
  /\ mpc[m] = "merge"
  /\ MayConflict(m)
  /\ AppendMeta
  /\ tree' \in {tree, "conflicted"}
  /\ ref' = [p \in Pane |-> IF p \in listed[m] THEN NoRef ELSE ref[p]]
  /\ Return(m, "failed")
  /\ UNCHANGED <<stage, agents, mergeRef, head, edits, merged, cleaning>>

(* Mutant: a failed merge disposes of the session as well.                  *)
MergeFailsDisposing(m) ==
  /\ mpc[m] = "merge"
  /\ MayConflict(m)
  /\ AppendMeta
  /\ tree' \in {tree, "conflicted"}
  /\ Goto(m, "dispose") /\ lock' = "free"
  /\ UNCHANGED <<stage, agents, branches, edits, locals, merged, cleaning>>

(* Conflicts: merge/<sid> stays checked out, with or without a conflict to  *)
(* resolve.                                                                 *)
MergeFails(m) ==
  /\ mpc[m] = "merge"
  /\ MayConflict(m)
  /\ AppendMeta
  /\ tree' \in {tree, "conflicted"}
  /\ Return(m, "failed")
  /\ UNCHANGED <<stage, agents, branches, edits, merged, cleaning>>

(* The user's branch is checked out again and merge/<sid> deleted.  Neither *)
(* works when there was no branch ("git checkout HEAD" changes nothing), or *)
(* when git refuses to leave a dirty tree.                                  *)
Restore(m) ==
  /\ mpc[m] = "restore"
  /\ \/ orig[m] = "merge" /\ UNCHANGED <<head, mergeRef>>
     \/ orig[m] = "orig" /\ (OrigDetached \/ tree # "clean") /\ UNCHANGED <<head, mergeRef>>
     \/ /\ orig[m] = "orig" /\ ~OrigDetached
        /\ head' = "orig"
        /\ mergeRef' = IF KeepMergeRef THEN mergeRef ELSE {}
  /\ Goto(m, "delete")
  /\ UNCHANGED <<stage, disk, agents, ref, user, lock, locals, merged, cleaning>>

(* The result is recorded and the pane branches are deleted.                *)
DeletePaneRefs(m) ==
  /\ mpc[m] = "delete"
  /\ AppendMeta
  /\ ref' = [p \in Pane |-> IF p \in listed[m] THEN NoRef ELSE ref[p]]
  /\ IF Autoclean
       THEN Goto(m, "dispose") /\ lock' = "free" /\ UNCHANGED locals
       ELSE Return(m, "ok")
  /\ UNCHANGED <<stage, agents, mergeRef, head, user, merged, cleaning>>

(* fork_clean --force on the session.                                       *)
Dispose(m) ==
  /\ mpc[m] = "dispose"
  /\ RemoveSession
  /\ Return(m, "ok")
  /\ UNCHANGED <<stage, agents, branches, user, merged, cleaning>>

(* The merger is killed; the kernel releases its lock.                      *)
MergerDies(m) ==
  /\ mpc[m] \in Holding \cup {"dispose"}
  /\ Return(m, "failed")
  /\ UNCHANGED <<stage, disk, agents, branches, user, merged, cleaning>>

-----------------------------------------------------------------------------
(* The user in the original repository.                                    *)

UserEditsTree ==
  /\ tree = "clean"
  /\ edits < UserEdits
  /\ tree' = "dirty"
  /\ edits' = edits + 1
  /\ UNCHANGED <<stage, disk, agents, branches, merging, merged, cleaning>>

(* Changes are stashed, a conflict is given up ("git merge --abort").       *)
UserTidies ==
  /\ tree # "clean"
  /\ tree' = "clean"
  /\ UNCHANGED <<stage, disk, agents, branches, edits, merging, merged, cleaning>>

-----------------------------------------------------------------------------
(* Cleaning (fork_clean, fork_autoclean_if_enabled).                       *)

(* Mutant: the comparison with the base is lost.                            *)
PaneCheckDirtyOnly(p) == p \notin dirty /\ base

(* pane_check: neither dirty, nor ahead of the base, nor of unknown base.   *)
(* A HEAD that the base is no ancestor of counts as not ahead.              *)
PaneCheck(p) == /\ p \notin dirty
                /\ base
                /\ work[p] = 0 \/ form[p] = "diverged" \/ p \in moved

(* The panes are checked and the deletion is confirmed.  Without an option  *)
(* a protected pane stops it; --keep-dirty goes on with the clean ones; the *)
(* automatic cleaning only looks at sessions that are old.                  *)
PlanClean(mode) ==
  /\ clean = NoPlan
  /\ session
  /\ mode = "auto" => stage \in {"attached", "exit"}
  /\ mode # "keep-dirty" => \A p \in Present : PaneCheck(p)
  /\ clean' = [made |-> TRUE, panes |-> {p \in Present : PaneCheck(p)},
               kept |-> {p \in Present : ~PaneCheck(p)}]
  /\ UNCHANGED <<stage, disk, agents, branches, user, merging, merged, stale>>

(* --keep-dirty deletes the clean panes when others are kept; in all other  *)
(* cases the session directory goes as a whole, with what is in it by now.  *)
ExecuteClean ==
  /\ clean # NoPlan
  /\ clean' = NoPlan
  /\ stale' = {}
  /\ IF clean.kept # {} THEN Remove(clean.panes) /\ UNCHANGED <<session, base, moved>>
                        ELSE RemoveSession
  /\ UNCHANGED <<stage, agents, branches, user, merging, merged>>

(* fork clean --force.                                                      *)
ForceClean ==
  /\ "force" \in CleanModes
  /\ session
  /\ RemoveSession
  /\ UNCHANGED <<stage, agents, branches, user, merging, merged, cleaning>>

-----------------------------------------------------------------------------
MergeStep(m) ==
  \/ ListPanes(m) \/ CannotStart(m)
  \/ \E p \in Pane : FetchPane(m, p)
  \/ FetchFails(m) \/ FetchOnly(m) \/ Preflight(m) \/ Checkout(m)
  \/ Merge(m) \/ MergeFails(m) \/ Restore(m) \/ DeletePaneRefs(m) \/ Dispose(m)

Next ==
  \/ \E p \in Pane : ClonePane(p)
  \/ UserCommits \/ CloneFails \/ WriteMeta \/ Launch \/ LaunchFails \/ AttachReturns
  \/ \E p \in Pane : \/ AgentEdits(p) \/ AgentCommits(p) \/ AgentRewrites(p)
                     \/ AgentDetachesHead(p) \/ AgentExits(p)
  \/ \E s \in CliStrategies : CliMerge(s)
  \/ \E m \in Merger : MergeStep(m) \/ MergerDies(m)
  \/ UserEditsTree \/ UserTidies
  \/ \E mode \in CleanModes \ {"force"} : PlanClean(mode)
  \/ ExecuteClean \/ ForceClean

Spec == Init /\ [][Next]_vars

-----------------------------------------------------------------------------
(* Properties.                                                             *)

MergerStage == {"idle", "start", "dispose", "ok", "failed"} \cup Holding

TypeOK ==
  /\ stage \in {"clone", "launch", "attached", "exit"}
  /\ dir \in [Pane -> {"absent", "present", "removed"}]
  /\ session \in BOOLEAN
  /\ base \in BOOLEAN
  /\ moved \subseteq Pane
  /\ agent \in [Pane -> {"none", "running", "exited"}]
  /\ work \in [Pane -> 0..MaxCommits]
  /\ form \in [Pane -> {"branch", "diverged", "detached"}]
  /\ dirty \subseteq Pane
  /\ ref \in [Pane -> {NoRef} \cup 0..MaxCommits]
  /\ mergeRef \subseteq Commit
  /\ head \in {"orig", "merge"}
  /\ tree \in {"clean", "dirty", "conflicted"}
  /\ lock \in Merger \cup {"free"}
  /\ mpc \in [Merger -> MergerStage]
  /\ strategy \in [Merger -> {"none", "fetch", "octopus"}]
  /\ listed \in [Merger -> SUBSET Pane]
  /\ fetched \in [Merger -> SUBSET Pane]
  /\ \A m \in Merger : fetched[m] \subseteq listed[m]
  /\ orig \in [Merger -> {"orig", "merge"}]
  /\ edits \in 0..UserEdits
  /\ clean \in [made : BOOLEAN, panes : SUBSET Pane, kept : SUBSET Pane]
  /\ merged \subseteq Commit
  /\ touched \in [Merger -> SUBSET Pane]
  /\ stale \subseteq Pane

(* The merge lock is held exactly by the merger that is between listing the *)
(* panes and its return, by whatever way it returns.                        *)
LockFollowsMerge == \A m \in Merger : lock = m <=> mpc[m] \in Holding

(* An unforced clean deletes no pane with commits or changes in it, except  *)
(* one that was worked in after it was checked, one whose history was       *)
(* rewritten, and one whose base is older than the one written down.        *)
CleanSparesWork ==
  [][clean # NoPlan /\ clean' = NoPlan =>
       \A p \in Present :
         dir'[p] = "removed" =>
           \/ p \in stale \/ form[p] = "diverged" \/ p \in moved
           \/ work[p] = 0 /\ p \notin dirty]_vars

(* A merger that disposes of the session has merged every commit of every   *)
(* pane it listed, except for what was done there meanwhile.                *)
DisposedWorkWasMerged ==
  [][\A m \in Merger : mpc[m] = "dispose" /\ mpc'[m] = "ok" =>
       \A p \in Present \cap listed[m] :
         p \in touched[m] \/ Commits(p, work[p]) \subseteq merged]_vars

(* The branch of a pane disappears from the original repository only after  *)
(* its commits went into a merge, however merges fail, die and are retried. *)
RefsDroppedAfterMerge ==
  [][\A p \in Pane : ref[p] # NoRef /\ ref'[p] = NoRef
       => Commits(p, ref[p]) \subseteq merged]_vars

(* Whatever happens to the panes, to the session and to the repository      *)
(* under a merge, there is a way on: it never waits for what will not come. *)
(* As no step goes back, a merger that is not killed returns.               *)
MergeGoesOn ==
  \A m \in Merger :
    mpc[m] \in {"start", "dispose"} \cup Holding => ENABLED MergeStep(m)

(* "Post-fork merge strategy to apply after all panes exit" (cli.rs:379):   *)
(* the launcher does not merge while its agents work.                       *)
MergeAfterPanesExit ==
  mpc[Launcher] \in Holding => \A p \in Pane : agent[p] # "running"

(* "fetch branches then attempt an octopus merge into a merge/<sid> branch" *)
(* (strategy.rs:7): when that has succeeded, the merged commits are in that *)
(* branch, in a pane branch or at least still in their pane.                *)
MergedWorkKept ==
  \A m \in Merger : mpc[m] = "ok" =>
    \A c \in merged :
      \/ c \in mergeRef
      \/ ref[c[1]] >= c[2]
      \/ dir[c[1]] = "present"
=============================================================================
