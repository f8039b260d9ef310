-------------------------- MODULE ForkSessionProof --------------------------
(***************************************************************************)
(* Theorems of ForkSession, for any number of panes, commits and edits,    *)
(* and any options of the launcher, of "fork merge" and of "fork clean".   *)
(*                                                                         *)
(* LockInv: the lock is held at the stages between listing and return, and *)
(* a merger starts from nothing (AtRest).  This keeps the other merger's   *)
(* hands off the pane branches while Knows follows one merge: what was     *)
(* fetched from a pane is what the pane had unless somebody worked there,  *)
(* the panes past the preflight are the fetched ones, past the merge their *)
(* branches are in it, and so, when the branches are gone, are the panes'  *)
(* commits.  The deletion of branches and of the session rest on that.     *)
(*                                                                         *)
(* PlanHolds: between its check and its deletion a clean may be overtaken  *)
(* by agents, by clones, by merges that remove the session and by the      *)
(* user's commits.  Whatever it is about to delete (Doomed) was free of    *)
(* work when it was checked or has been cloned since, or has been worked   *)
(* in since and is stale.                                                  *)
(***************************************************************************)
EXTENDS ForkSession, TLAPS

-----------------------------------------------------------------------------
(* The merge lock.                                                         *)

(* The launcher merges once, after its terminal came back, and a merger has *)
(* fetched nothing before it starts and after it returned.                  *)
AtRest ==
  /\ stage # "exit" => mpc[Launcher] = "idle"
  /\ \A m \in Merger : mpc[m] \notin Holding \cup {"dispose"} => fetched[m] = {}

LockInv == TypeOK /\ AtRest /\ LockFollowsMerge

-----------------------------------------------------------------------------
(* What a merger has merged.                                               *)

Gathered == {"checkout", "merge", "restore", "delete"}

(* What was fetched is what the pane had, until somebody works there, and   *)
(* past the merge it is merged.                                             *)
MergeKnows(m) ==
  /\ mpc[m] \in Holding =>
       \A p \in fetched[m] \ touched[m] : ref[p] = work[p]
  /\ mpc[m] \in Gathered => fetched[m] = listed[m]
  /\ mpc[m] \in {"restore", "delete"} =>
       \A p \in listed[m] : Commits(p, ref[p]) \subseteq merged
  /\ mpc[m] = "dispose" =>
       \A p \in listed[m] \ touched[m] : Commits(p, work[p]) \subseteq merged

Knows == \A m \in Merger : MergeKnows(m)

-----------------------------------------------------------------------------
(* What a clean will delete.                                               *)

(* Nobody has worked where there is no pane yet.                            *)
Unborn == \A p \in Pane : dir[p] = "absent" => work[p] = 0 /\ p \notin dirty

(* A pane that may go for all that is known.                                *)
Spared(p) ==
  \/ p \in stale \/ form[p] = "diverged" \/ p \in moved
  \/ work[p] = 0 /\ p \notin dirty

Doomed == {p \in Present : p \in clean.panes \/ clean.kept = {}}

PlanHolds == clean # NoPlan => \A p \in Doomed : Spared(p)

IInv == LockInv /\ Knows /\ Unborn /\ PlanHolds

-----------------------------------------------------------------------------
(* Types and the lock.                                                     *)

(* The locals of the mergers, as TypeOK has them.                           *)
MergingType ==
  /\ lock \in Merger \cup {"free"}
  /\ mpc \in [Merger -> MergerStage]
  /\ strategy \in [Merger -> {"none", "fetch", "octopus"}]
  /\ listed \in [Merger -> SUBSET Pane]
  /\ fetched \in [Merger -> SUBSET Pane]
  /\ \A m \in Merger : fetched[m] \subseteq listed[m]
  /\ orig \in [Merger -> {"orig", "merge"}]
  /\ touched \in [Merger -> SUBSET Pane]

(* A merger that returns leaves nothing behind, and no lock.                *)
LEMMA Returns ==
  ASSUME LockInv, NEW m \in Merger, NEW result \in {"ok", "failed"},
         Return(m, result), mpc[m] # "idle", UNCHANGED stage
  PROVE  MergingType' /\ LockFollowsMerge' /\ AtRest'
<1> TypeOK /\ LockFollowsMerge
  BY DEF LockInv
<1>1. mpc' = [mpc EXCEPT ![m] = result] /\ result \notin Holding
  BY DEF Return, Goto, Holding
<1>2. MergingType'
  BY <1>1, ForkAssumption DEF TypeOK, MergingType, Return, MergerStage
<1>3. LockFollowsMerge'
  <2>1. \A k \in Merger \ {m} : lock' = k <=> lock = k
    BY ForkAssumption DEF Return, Merger
  <2>2. lock' # m
    BY ForkAssumption DEF Return, Merger
  <2>3. QED
    BY <1>1, <2>1, <2>2 DEF LockFollowsMerge, TypeOK
<1>4. AtRest'
  BY <1>1, ForkAssumption DEF LockInv, AtRest, TypeOK, Return
<1>5. QED
  BY <1>2, <1>3, <1>4

(* A merger that holds the lock and goes on.                                *)
LEMMA GoesOn ==
  ASSUME LockInv, NEW m \in Merger, mpc[m] \in Holding, NEW pc \in Holding,
         Goto(m, pc), UNCHANGED <<stage, lock, fetched>>
  PROVE  mpc' \in [Merger -> MergerStage] /\ LockFollowsMerge' /\ AtRest'
<1> TypeOK /\ LockFollowsMerge
  BY DEF LockInv
<1>1. mpc' \in [Merger -> MergerStage]
  BY DEF Goto, TypeOK, MergerStage
<1>2. LockFollowsMerge'
  BY DEF LockFollowsMerge, Goto, TypeOK
<1>3. AtRest'
  BY DEF LockInv, AtRest, Goto, TypeOK, Holding
<1>4. QED
  BY <1>1, <1>2, <1>3

(* Panes and branches have commits of theirs.                               *)
LEMMA CommitsType ==
  ASSUME NEW p \in Pane, NEW n \in {NoRef} \cup 0..MaxCommits
  PROVE  Commits(p, n) \subseteq Commit
<1>1. 1..n \subseteq 1..MaxCommits
  BY ForkAssumption DEF NoRef
<1>2. QED
  BY <1>1 DEF Commits, Commit

(* The session's directory goes as a whole.                                 *)
LEMMA RemoveType ==
  ASSUME TypeOK, NEW panes \in SUBSET Pane, Remove(panes)
  PROVE  dir' \in [Pane -> {"absent", "present", "removed"}]
  BY DEF TypeOK, Remove

(* No step of a merger breaks types or the lock.                            *)
LEMMA MergeStepLockInv ==
  ASSUME LockInv, NEW m \in Merger, MergeStep(m) \/ MergerDies(m)
  PROVE  LockInv'
<1> TypeOK /\ LockFollowsMerge /\ AtRest
  BY DEF LockInv
<1> USE DEF disk, agents, branches, user, locals, cleaning, merging, AppendMeta
<1>1. CASE ListPanes(m)
  <2>1. CASE WithBranch = {}
    <3>1. MergingType' /\ LockFollowsMerge' /\ AtRest'
      BY <1>1, <2>1, Returns DEF ListPanes
    <3>2. TypeOK'
      BY <1>1, <3>1 DEF ListPanes, TypeOK, MergingType
    <3>3. QED
      BY <3>1, <3>2 DEF LockInv
  <2>2. CASE WithBranch # {}
    <3>1. StartMerge(m, WithBranch) /\ mpc[m] = "start" /\ lock = "free"
      BY <1>1, <2>2 DEF ListPanes
    <3>2. WithBranch \subseteq Pane
      BY DEF WithBranch, Present
    <3>3. fetched[m] = {}
      BY <3>1 DEF LockInv, AtRest, Holding
    <3>4. MergingType'
      BY <3>1, <3>2, <3>3 DEF StartMerge, Goto, TypeOK, MergingType, MergerStage, Holding
    <3>5. LockFollowsMerge'
      BY <3>1, ForkAssumption DEF StartMerge, Goto, LockFollowsMerge, TypeOK, Holding, Merger
    <3>6. AtRest'
      BY <1>1, <3>1 DEF ListPanes, StartMerge, Goto, AtRest, TypeOK, Holding
    <3>7. TypeOK'
      BY <1>1, <3>4 DEF ListPanes, TypeOK, MergingType
    <3>8. QED
      BY <3>5, <3>6, <3>7 DEF LockInv
  <2>3. QED
    BY <2>1, <2>2
<1>2. CASE CannotStart(m)
  <2>1. MergingType' /\ LockFollowsMerge' /\ AtRest'
    BY <1>2, Returns DEF CannotStart
  <2>2. TypeOK'
    BY <1>2, <2>1 DEF CannotStart, TypeOK, MergingType
  <2>3. QED
    BY <2>1, <2>2 DEF LockInv
<1>3. ASSUME NEW p \in Pane, FetchPane(m, p)
      PROVE  LockInv'
  <2>1. UNCHANGED <<lock, mpc, stage>>
    BY <1>3 DEF FetchPane
  <2>2. ref' \in [Pane -> {NoRef} \cup 0..MaxCommits]
    BY <1>3 DEF FetchPane, TypeOK
  <2>3. fetched' \in [Merger -> SUBSET Pane] /\ \A k \in Merger : fetched'[k] \subseteq listed[k]
    BY <1>3 DEF FetchPane, TypeOK
  <2>4. TypeOK'
    BY <1>3, <2>2, <2>3 DEF FetchPane, TypeOK
  <2>5. AtRest'
    BY <1>3, <2>1 DEF FetchPane, AtRest, TypeOK, Holding
  <2>6. QED
    BY <2>1, <2>4, <2>5 DEF LockInv, LockFollowsMerge
<1>4. CASE FetchFails(m)
  <2>1. MergingType' /\ LockFollowsMerge' /\ AtRest'
    BY <1>4, Returns DEF FetchFails
  <2>2. TypeOK'
    BY <1>4, <2>1 DEF FetchFails, TypeOK, MergingType
  <2>3. QED
    BY <2>1, <2>2 DEF LockInv
<1>5. CASE FetchOnly(m)
  <2>1. MergingType' /\ LockFollowsMerge' /\ AtRest'
    BY <1>5, Returns DEF FetchOnly, Fetched
  <2>2. TypeOK'
    BY <1>5, <2>1 DEF FetchOnly, Fetched, TypeOK, MergingType
  <2>3. QED
    BY <2>1, <2>2 DEF LockInv
<1>6. CASE Preflight(m)
  <2>1. CASE tree = "clean"
    <3>1. mpc' \in [Merger -> MergerStage] /\ LockFollowsMerge' /\ AtRest'
      BY <1>6, <2>1, GoesOn DEF Preflight, Fetched, Holding
    <3>2. TypeOK'
      BY <1>6, <2>1, <3>1 DEF Preflight, TypeOK
    <3>3. QED
      BY <3>1, <3>2 DEF LockInv
  <2>2. CASE tree # "clean"
    <3>1. MergingType' /\ LockFollowsMerge' /\ AtRest'
      BY <1>6, <2>2, Returns DEF Preflight, Fetched
    <3>2. TypeOK'
      BY <1>6, <2>2, <3>1 DEF Preflight, TypeOK, MergingType
    <3>3. QED
      BY <3>1, <3>2 DEF LockInv
  <2>3. QED
    BY <2>1, <2>2
<1>7. CASE Checkout(m)
  <2>1. CASE Goto(m, "merge") /\ UNCHANGED <<lock, locals>>
    <3>1. mpc' \in [Merger -> MergerStage] /\ LockFollowsMerge' /\ AtRest'
      BY <1>7, <2>1, GoesOn DEF Checkout, Holding
    <3>2. mergeRef' \subseteq Commit /\ head' \in {"orig", "merge"}
      BY <1>7 DEF Checkout, TypeOK
    <3>3. TypeOK'
      BY <1>7, <2>1, <3>1, <3>2 DEF Checkout, TypeOK
    <3>4. QED
      BY <3>1, <3>3 DEF LockInv
  <2>2. CASE Return(m, "failed") /\ UNCHANGED <<mergeRef, head>>
    <3>1. MergingType' /\ LockFollowsMerge' /\ AtRest'
      BY <1>7, <2>2, Returns DEF Checkout
    <3>2. TypeOK'
      BY <1>7, <2>2, <3>1 DEF Checkout, TypeOK, MergingType
    <3>3. QED
      BY <3>1, <3>2 DEF LockInv
  <2>3. QED
    BY <1>7, <2>1, <2>2 DEF Checkout
<1>8. CASE Merge(m)
  <2>1. mpc' \in [Merger -> MergerStage] /\ LockFollowsMerge' /\ AtRest'
    BY <1>8, GoesOn DEF Merge, Holding
  <2>2. ToMerge(m) \subseteq Commit
    <3>1. \A p \in listed[m] : Commits(p, ref[p]) \subseteq Commit
      BY CommitsType DEF TypeOK
    <3>2. QED
      BY <3>1 DEF ToMerge
  <2>3. TypeOK'
    BY <1>8, <2>1, <2>2 DEF Merge, TypeOK
  <2>4. QED
    BY <2>1, <2>3 DEF LockInv
<1>9. CASE MergeFails(m)
  <2>1. MergingType' /\ LockFollowsMerge' /\ AtRest'
    BY <1>9, Returns DEF MergeFails
  <2>2. TypeOK'
    BY <1>9, <2>1 DEF MergeFails, TypeOK, MergingType
  <2>3. QED
    BY <2>1, <2>2 DEF LockInv
<1>10. CASE Restore(m)
  <2>1. mpc' \in [Merger -> MergerStage] /\ LockFollowsMerge' /\ AtRest'
    BY <1>10, GoesOn DEF Restore, Holding
  <2>2. mergeRef' \subseteq Commit /\ head' \in {"orig", "merge"}
    BY <1>10 DEF Restore, TypeOK
  <2>3. TypeOK'
    BY <1>10, <2>1, <2>2 DEF Restore, TypeOK
  <2>4. QED
    BY <2>1, <2>3 DEF LockInv
<1>11. CASE DeletePaneRefs(m)
  <2>1. ref' \in [Pane -> {NoRef} \cup 0..MaxCommits]
    BY <1>11 DEF DeletePaneRefs, TypeOK
  <2>2. CASE Autoclean
    <3>1. mpc' = [mpc EXCEPT ![m] = "dispose"] /\ lock' = "free" /\ mpc[m] = "delete"
      BY <1>11, <2>2 DEF DeletePaneRefs, Goto
    <3>2. lock = m
      BY <3>1 DEF LockFollowsMerge, Holding
    <3>3. LockFollowsMerge'
      BY <3>1, <3>2, ForkAssumption DEF LockFollowsMerge, TypeOK, Holding, Merger
    <3>4. AtRest'
      BY <1>11, <2>2, <3>1 DEF DeletePaneRefs, AtRest, TypeOK, Holding
    <3>5. TypeOK'
      BY <1>11, <2>1, <2>2, <3>1 DEF DeletePaneRefs, TypeOK, MergerStage
    <3>6. QED
      BY <3>3, <3>4, <3>5 DEF LockInv
  <2>3. CASE ~Autoclean
    <3>1. MergingType' /\ LockFollowsMerge' /\ AtRest'
      BY <1>11, <2>3, Returns DEF DeletePaneRefs
    <3>2. TypeOK'
      BY <1>11, <2>1, <2>3, <3>1 DEF DeletePaneRefs, TypeOK, MergingType
    <3>3. QED
      BY <3>1, <3>2 DEF LockInv
  <2>4. QED
    BY <2>2, <2>3
<1>12. CASE Dispose(m)
  <2>1. MergingType' /\ LockFollowsMerge' /\ AtRest'
    BY <1>12, Returns DEF Dispose
  <2>2. dir' \in [Pane -> {"absent", "present", "removed"}]
    BY <1>12, RemoveType DEF Dispose, RemoveSession
  <2>3. TypeOK'
    BY <1>12, <2>1, <2>2 DEF Dispose, RemoveSession, TypeOK, MergingType
  <2>4. QED
    BY <2>1, <2>3 DEF LockInv
<1>13. CASE MergerDies(m)
  <2>1. MergingType' /\ LockFollowsMerge' /\ AtRest'
    BY <1>13, Returns DEF MergerDies, Holding
  <2>2. TypeOK'
    BY <1>13, <2>1 DEF MergerDies, Holding, TypeOK, MergingType
  <2>3. QED
    BY <2>1, <2>2 DEF LockInv
<1>14. QED
  BY <1>1, <1>2, <1>3, <1>4, <1>5, <1>6, <1>7, <1>8, <1>9, <1>10, <1>11, <1>12, <1>13 DEF MergeStep

(* Before the first pane is cloned, nobody merges.                          *)
LEMMA InitLockInv == Init => LockInv
<1> SUFFICES ASSUME Init PROVE LockInv
  OBVIOUS
<1> Launcher \in Merger /\ Cli \in Merger
  BY DEF Merger
<1>1. TypeOK
  <2>1. NoPlan \in [made : BOOLEAN, panes : SUBSET Pane, kept : SUBSET Pane]
    BY DEF NoPlan
  <2>2. 0 \in 0..MaxCommits /\ 0 \in 0..UserEdits
    BY ForkAssumption
  <2>3. Strategy \in {"none", "fetch", "octopus"}
    BY ForkAssumption
  <2>4. QED
    BY <2>1, <2>2, <2>3 DEF Init, TypeOK, MergerStage
<1>2. LockFollowsMerge
  BY ForkAssumption DEF Init, LockFollowsMerge, Holding, Merger
<1>3. AtRest
  BY DEF Init, AtRest
<1>4. QED
  BY <1>1, <1>2, <1>3 DEF LockInv

(* Steps that concern no merger.                                            *)
LEMMA LockKept ==
  ASSUME LockInv, TypeOK', UNCHANGED <<lock, mpc, fetched>>, 
         stage' # "exit" => stage # "exit"
  PROVE  LockInv'
  BY DEF LockInv, LockFollowsMerge, AtRest

(* No step breaks types or the lock.                                        *)
LEMMA NextLockInv == LockInv /\ [Next]_vars => LockInv'
<1> SUFFICES ASSUME LockInv, [Next]_vars
             PROVE  LockInv'
  OBVIOUS
<1> TypeOK /\ LockFollowsMerge /\ AtRest
  BY DEF LockInv
<1> USE DEF disk, agents, branches, user, locals, cleaning, merging
<1>1. ASSUME NEW p \in Pane, ClonePane(p)
      PROVE  LockInv'
  BY <1>1, LockKept DEF ClonePane, TypeOK
<1>2. CASE UserCommits
  BY <1>2, LockKept DEF UserCommits, TypeOK, Present
<1>3. CASE CloneFails
  BY <1>3, LockKept DEF CloneFails, TypeOK
<1>4. CASE WriteMeta
  BY <1>4, LockKept DEF WriteMeta, TypeOK
<1>5. CASE Launch
  BY <1>5, LockKept DEF Launch, TypeOK
<1>6. CASE LaunchFails
  BY <1>6, LockKept DEF LaunchFails, TypeOK
<1>7. CASE AttachReturns
  <2>1. Launcher \in Merger /\ mpc[Launcher] = "idle"
    BY <1>7 DEF AttachReturns, AtRest, Merger
  <2>2. TypeOK'
    BY <1>7, <2>1 DEF AttachReturns, TypeOK, MergerStage
  <2>3. LockFollowsMerge'
    BY <1>7, <2>1 DEF AttachReturns, LockFollowsMerge, TypeOK, Holding
  <2>4. AtRest'
    BY <1>7, <2>1 DEF AttachReturns, AtRest, TypeOK, Holding
  <2>5. QED
    BY <2>2, <2>3, <2>4 DEF LockInv
<1>8. ASSUME NEW p \in Pane, AgentEdits(p) \/ AgentCommits(p) \/ AgentRewrites(p) \/ AgentDetachesHead(p)
      PROVE  LockInv'
  <2>1. Works(p)
    BY <1>8 DEF AgentEdits, AgentCommits, AgentRewrites, AgentDetachesHead
  <2>2. touched' \in [Merger -> SUBSET Pane] /\ stale' \subseteq Pane
    BY <2>1 DEF Works, TypeOK
  <2>3. work' \in [Pane -> 0..MaxCommits] /\ dirty' \subseteq Pane
        /\ form' \in [Pane -> {"branch", "diverged", "detached"}]
    BY <1>8, ForkAssumption
    DEF AgentEdits, AgentCommits, AgentRewrites, AgentDetachesHead, TypeOK
  <2>4. TypeOK'
    BY <2>1, <2>2, <2>3 DEF Works, TypeOK
  <2>5. QED
    BY <2>1, <2>4, LockKept DEF Works
<1>9. ASSUME NEW p \in Pane, AgentExits(p)
      PROVE  LockInv'
  BY <1>9, LockKept DEF AgentExits, TypeOK
<1>10. ASSUME NEW s \in CliStrategies, CliMerge(s)
       PROVE  LockInv'
  <2>1. Cli \in Merger /\ s \in {"fetch", "octopus"}
    BY ForkAssumption DEF Merger
  <2>2. TypeOK'
    BY <1>10, <2>1 DEF CliMerge, TypeOK, MergerStage
  <2>3. LockFollowsMerge'
    BY <1>10, <2>1 DEF CliMerge, LockFollowsMerge, TypeOK, Holding
  <2>4. AtRest'
    BY <1>10, <2>1, ForkAssumption DEF CliMerge, AtRest, TypeOK, Holding
  <2>5. QED
    BY <2>2, <2>3, <2>4 DEF LockInv
<1>11. CASE UserEditsTree \/ UserTidies
  <2>1. edits' \in 0..UserEdits
    BY <1>11, ForkAssumption DEF UserEditsTree, UserTidies, TypeOK
  <2>2. QED
    BY <1>11, <2>1, LockKept DEF UserEditsTree, UserTidies, TypeOK
<1>12. ASSUME NEW mode \in CleanModes \ {"force"}, PlanClean(mode)
       PROVE  LockInv'
  BY <1>12, LockKept DEF PlanClean, TypeOK, Present
<1>13. CASE ExecuteClean
  <2>1. CASE clean.kept # {}
    BY <1>13, <2>1, LockKept, RemoveType DEF ExecuteClean, TypeOK, NoPlan
  <2>2. CASE clean.kept = {}
    BY <1>13, <2>2, LockKept, RemoveType DEF ExecuteClean, RemoveSession, TypeOK, NoPlan
  <2>3. QED
    BY <2>1, <2>2
<1>14. CASE ForceClean
  BY <1>14, LockKept, RemoveType DEF ForceClean, RemoveSession, TypeOK
<1>15. CASE UNCHANGED vars
  BY <1>15, LockKept DEF vars, TypeOK
<1>16. QED
  BY <1>1, <1>2, <1>3, <1>4, <1>5, <1>6, <1>7, <1>8, <1>9, <1>10, <1>11, <1>12, <1>13,
     <1>14, <1>15, MergeStepLockInv
  DEF Next

-----------------------------------------------------------------------------
(* What a merger has merged.                                               *)

(* A merger knows as much as before when its stage and its lists stay and   *)
(* the branches of its panes do, or somebody worked there.                  *)
LEMMA KnowsStill ==
  ASSUME LockInv, NEW k \in Merger, MergeKnows(k), mpc'[k] = mpc[k],
         listed'[k] = listed[k], fetched'[k] = fetched[k],
         mpc[k] \in Holding \cup {"dispose"} => touched[k] \subseteq touched'[k],
         mpc[k] \in Holding => ref' = ref,
         mpc[k] \in Holding \cup {"dispose"} =>
           \A p \in Pane : work'[p] = work[p] \/ p \in touched'[k],
         merged \subseteq merged'
  PROVE  MergeKnows(k)'
<1> TypeOK
  BY DEF LockInv
<1>1. CASE mpc[k] \in Holding
  <2>1. \A p \in fetched[k] \ touched'[k] : ref'[p] = work'[p]
    BY <1>1 DEF MergeKnows, TypeOK
  <2>2. mpc[k] \in {"restore", "delete"} =>
          \A p \in listed[k] : Commits(p, ref'[p]) \subseteq merged'
    BY <1>1 DEF MergeKnows
  <2>3. mpc'[k] # "dispose"
    BY <1>1 DEF Holding
  <2>4. QED
    BY <2>1, <2>2, <2>3 DEF MergeKnows
<1>2. CASE mpc[k] = "dispose"
  <2>1. \A p \in listed[k] \ touched'[k] : Commits(p, work'[p]) \subseteq merged'
    BY <1>2 DEF MergeKnows, TypeOK
  <2>2. QED
    BY <1>2, <2>1 DEF MergeKnows, Holding, Gathered
<1>3. CASE mpc[k] \notin Holding \cup {"dispose"}
  BY <1>3 DEF MergeKnows, Holding, Gathered
<1>4. QED
  BY <1>1, <1>2, <1>3

(* Who is out of it knows nothing, rightly.                                 *)
LEMMA KnowsNothing ==
  ASSUME NEW k \in Merger, mpc'[k] \notin Holding \cup {"dispose"}
  PROVE  MergeKnows(k)'
  BY DEF MergeKnows, Holding, Gathered

(* A merger goes on with what it knows.                                     *)
LEMMA MergeStepKnows ==
  ASSUME LockInv, LockInv', Knows, NEW m \in Merger, MergeStep(m) \/ MergerDies(m)
  PROVE  Knows'
<1> TypeOK /\ LockFollowsMerge
  BY DEF LockInv
<1> USE DEF disk, agents, branches, user, locals, cleaning, merging, AppendMeta
(* The other merger.  It does not hold the lock when this one does.         *)
<1>1. ASSUME NEW k \in Merger \ {m}
      PROVE  MergeKnows(k)'
  <2>1. /\ mpc'[k] = mpc[k] /\ listed'[k] = listed[k] /\ fetched'[k] = fetched[k]
        /\ touched'[k] = touched[k]
    BY <1>1
    DEF MergeStep, MergerDies, ListPanes, StartMerge, CannotStart, FetchPane, FetchFails,
        FetchOnly, Preflight, Checkout, Merge, MergeFails, Restore, DeletePaneRefs,
        Dispose, Return, Goto, TypeOK
  <2>2. work' = work /\ merged \subseteq merged'
    BY DEF MergeStep, MergerDies, ListPanes, CannotStart, FetchPane, FetchFails,
           FetchOnly, Preflight, Checkout, Merge, MergeFails, Restore, DeletePaneRefs,
           Dispose
  <2>3. mpc[k] \in Holding => ref' = ref
    <3>1. mpc[k] \in Holding => mpc[m] \notin Holding
      BY DEF LockFollowsMerge
    <3>2. QED
      BY <3>1
      DEF MergeStep, MergerDies, ListPanes, CannotStart, FetchPane, FetchFails,
          FetchOnly, Fetched, Preflight, Checkout, Merge, MergeFails, Restore,
          DeletePaneRefs, Dispose, Holding
  <2>4. MergeKnows(k)
    BY DEF Knows
  <2>5. QED
    BY <2>1, <2>2, <2>3, <2>4, KnowsStill
<1>2. ASSUME NEW result \in {"ok", "failed"}, Return(m, result)
      PROVE  MergeKnows(m)'
  <2>1. mpc'[m] = result
    BY <1>2 DEF Return, Goto, TypeOK
  <2>2. QED
    BY <2>1, KnowsNothing DEF Holding
<1> SUFFICES MergeKnows(m)'
  BY <1>1 DEF Knows
<1> MergeKnows(m)
  BY DEF Knows
<1>3. CASE ListPanes(m)
  <2>1. CASE WithBranch = {}
    BY <1>2, <1>3, <2>1 DEF ListPanes
  <2>2. CASE WithBranch # {}
    <3>1. mpc'[m] = "fetch" /\ mpc[m] = "start" /\ fetched' = fetched
      BY <1>3, <2>2 DEF ListPanes, StartMerge, Goto, TypeOK
    <3>2. fetched'[m] = {}
      BY <3>1 DEF LockInv, AtRest, Holding
    <3>3. QED
      BY <3>1, <3>2 DEF MergeKnows, Gathered
  <2>3. QED
    BY <2>1, <2>2
<1>4. ASSUME NEW p \in Pane, FetchPane(m, p)
      PROVE  MergeKnows(m)'
  <2>1. mpc[m] = "fetch" /\ UNCHANGED <<mpc, work, touched>>
    BY <1>4 DEF FetchPane
  <2>2. fetched'[m] = fetched[m] \cup {p}
    BY <1>4 DEF FetchPane, TypeOK
  <2>3. ref'[p] = work[p] /\ \A q \in Pane \ {p} : ref'[q] = ref[q]
    BY <1>4 DEF FetchPane, TypeOK
  <2>4. \A q \in fetched[m] \ touched[m] : ref[q] = work[q]
    BY <2>1 DEF MergeKnows, Holding
  <2>5. \A q \in fetched'[m] \ touched'[m] : ref'[q] = work'[q]
    BY <2>1, <2>2, <2>3, <2>4 DEF TypeOK
  <2>6. QED
    BY <2>1, <2>5 DEF MergeKnows, Gathered
<1>5. CASE Preflight(m)
  <2>1. CASE tree = "clean"
    <3>1. mpc'[m] = "checkout" /\ mpc[m] = "fetch" /\ fetched[m] = listed[m]
      BY <1>5, <2>1 DEF Preflight, Fetched, Goto, TypeOK
    <3>2. UNCHANGED <<ref, work, touched, fetched, listed>>
      BY <1>5, <2>1 DEF Preflight
    <3>3. QED
      BY <3>1, <3>2 DEF MergeKnows, Gathered, Holding
  <2>2. CASE tree # "clean"
    BY <1>2, <1>5, <2>2 DEF Preflight
  <2>3. QED
    BY <2>1, <2>2
<1>6. CASE Checkout(m)
  <2>1. CASE Goto(m, "merge") /\ UNCHANGED <<lock, locals>>
    <3>1. mpc'[m] = "merge" /\ mpc[m] = "checkout"
      BY <1>6, <2>1 DEF Checkout, Goto, TypeOK
    <3>2. UNCHANGED <<ref, work, touched, fetched, listed>>
      BY <1>6, <2>1 DEF Checkout
    <3>3. QED
      BY <3>1, <3>2 DEF MergeKnows, Gathered, Holding
  <2>2. CASE Return(m, "failed")
    BY <1>2, <2>2
  <2>3. QED
    BY <1>6, <2>1, <2>2 DEF Checkout
<1>7. CASE Merge(m)
  <2>1. mpc'[m] = "restore" /\ mpc[m] = "merge"
    BY <1>7 DEF Merge, Goto, TypeOK
  <2>2. UNCHANGED <<ref, work, touched, fetched, listed>> /\ merged' = merged \cup ToMerge(m)
    BY <1>7 DEF Merge
  <2>3. \A p \in listed[m] : Commits(p, ref[p]) \subseteq merged'
    BY <2>2 DEF ToMerge
  <2>4. QED
    BY <2>1, <2>2, <2>3 DEF MergeKnows, Gathered, Holding
<1>8. CASE Restore(m)
  <2>1. mpc'[m] = "delete" /\ mpc[m] = "restore"
    BY <1>8 DEF Restore, Goto, TypeOK
  <2>2. UNCHANGED <<ref, work, touched, fetched, listed, merged>>
    BY <1>8 DEF Restore
  <2>3. QED
    BY <2>1, <2>2 DEF MergeKnows, Gathered, Holding
<1>9. CASE DeletePaneRefs(m)
  <2>1. CASE Autoclean
    <3>1. mpc'[m] = "dispose" /\ mpc[m] = "delete"
      BY <1>9, <2>1 DEF DeletePaneRefs, Goto, TypeOK
    <3>2. UNCHANGED <<work, touched, fetched, listed, merged>>
      BY <1>9, <2>1 DEF DeletePaneRefs
    <3>3. \A p \in listed[m] \ touched[m] : Commits(p, work[p]) \subseteq merged
      BY <3>1 DEF MergeKnows, Gathered, Holding
    <3>4. QED
      BY <3>1, <3>2, <3>3 DEF MergeKnows, Gathered, Holding
  <2>2. CASE ~Autoclean
    BY <1>2, <1>9, <2>2 DEF DeletePaneRefs
  <2>3. QED
    BY <2>1, <2>2
<1>10. CASE CannotStart(m) \/ FetchFails(m) \/ FetchOnly(m) \/ MergeFails(m) \/ Dispose(m)
            \/ MergerDies(m)
  BY <1>2, <1>10 DEF CannotStart, FetchFails, FetchOnly, MergeFails, Dispose, MergerDies
<1>11. QED
  BY <1>3, <1>4, <1>5, <1>6, <1>7, <1>8, <1>9, <1>10 DEF MergeStep

(* Nobody else makes it wrong.                                              *)
LEMMA NextKnows == LockInv /\ LockInv' /\ Knows /\ [Next]_vars => Knows'
<1> SUFFICES ASSUME LockInv, LockInv', Knows, [Next]_vars,
                    ~\E m \in Merger : MergeStep(m) \/ MergerDies(m),
                    NEW k \in Merger
             PROVE  MergeKnows(k)'
  BY MergeStepKnows DEF Knows
<1> TypeOK /\ MergeKnows(k)
  BY DEF LockInv, Knows
<1> USE DEF disk, agents, branches, user, locals, cleaning, merging
<1>1. ASSUME NEW p \in Pane, Works(p),
             \A q \in Pane \ {p} : work'[q] = work[q]
      PROVE  MergeKnows(k)'
  <2>1. UNCHANGED <<mpc, listed, fetched, ref, merged>>
    BY <1>1 DEF Works
  <2>2. mpc[k] \in Holding \cup {"dispose"} => touched'[k] = touched[k] \cup {p}
    BY <1>1 DEF Works, TypeOK
  <2>3. QED
    BY <1>1, <2>1, <2>2, KnowsStill
<1>2. ASSUME NEW p \in Pane,
             AgentEdits(p) \/ AgentCommits(p) \/ AgentRewrites(p) \/ AgentDetachesHead(p)
      PROVE  MergeKnows(k)'
  <2>1. Works(p) /\ \A q \in Pane \ {p} : work'[q] = work[q]
    BY <1>2 DEF AgentEdits, AgentCommits, AgentRewrites, AgentDetachesHead, TypeOK
  <2>2. QED
    BY <1>1, <2>1
<1>3. CASE AttachReturns
  <2>1. UNCHANGED <<work, ref, listed, fetched, touched, merged>>
    BY <1>3 DEF AttachReturns
  <2>2. mpc'[k] = mpc[k] \/ mpc'[k] = "start"
    BY <1>3 DEF AttachReturns, TypeOK, Merger
  <2>3. QED
    BY <2>1, <2>2, KnowsStill, KnowsNothing DEF Holding
<1>4. ASSUME NEW s \in CliStrategies, CliMerge(s)
      PROVE  MergeKnows(k)'
  <2>1. UNCHANGED <<work, ref, listed, fetched, touched, merged>>
    BY <1>4 DEF CliMerge
  <2>2. mpc'[k] = mpc[k] \/ mpc'[k] = "start"
    BY <1>4 DEF CliMerge, TypeOK, Merger
  <2>3. QED
    BY <2>1, <2>2, KnowsStill, KnowsNothing DEF Holding
<1>5. CASE UNCHANGED <<work, ref, mpc, listed, fetched, touched, merged>>
  BY <1>5, KnowsStill
<1>6. QED
  BY <1>2, <1>3, <1>4, <1>5
  DEF Next, ClonePane, UserCommits, CloneFails, WriteMeta, Launch, LaunchFails,
      AgentExits, UserEditsTree, UserTidies, PlanClean, ExecuteClean, ForceClean, vars

-----------------------------------------------------------------------------
(* What a clean will delete.                                               *)

(* What a removal leaves present was so before.                             *)
LEMMA RemoveOnlyRemoves ==
  ASSUME TypeOK, NEW panes, Remove(panes)
  PROVE  \A p \in Pane : /\ dir'[p] = "absent" => dir[p] = "absent"
                         /\ dir'[p] = "present" => dir[p] = "present" /\ p \notin panes
  BY DEF TypeOK, Remove

(* The plan and the panes' excuses stay when the panes present do, or fewer *)
(* are.                                                                     *)
LEMMA PlanStill ==
  ASSUME PlanHolds, Present' \subseteq Present, UNCHANGED <<clean, stale, work, form, dirty>>,
         \A p \in Present' : p \in moved => p \in moved'
  PROVE  PlanHolds'
<1>1. Doomed' \subseteq Doomed
  BY DEF Doomed
<1>2. \A p \in Doomed' : p \in Present'
  BY DEF Doomed
<1>3. QED
  BY <1>1, <1>2 DEF PlanHolds, Spared

(* The steps of git, of the mergers and of their lists.                     *)
LEMMA ElsewhereHolds ==
  ASSUME TypeOK, Unborn, PlanHolds, UNCHANGED <<agents, cleaning>>,
         UNCHANGED dir \/ Remove(Pane), UNCHANGED moved \/ Remove(Pane)
  PROVE  Unborn' /\ PlanHolds'
<1> USE DEF agents, cleaning
<1>1. CASE UNCHANGED <<dir, moved>>
  BY <1>1, PlanStill DEF Unborn, Present
<1>2. CASE Remove(Pane)
  <2>1. Present' = {}
    BY <1>2, RemoveOnlyRemoves DEF Present
  <2>2. PlanHolds'
    BY <2>1, PlanStill
  <2>3. Unborn'
    BY <1>2, RemoveOnlyRemoves DEF Unborn
  <2>4. QED
    BY <2>2, <2>3
<1>3. QED
  BY <1>1, <1>2

(* A pane that is worked in is stale for the plan there is.                 *)
LEMMA WorkHolds ==
  ASSUME TypeOK, Unborn, PlanHolds, NEW p \in Pane,
         AgentEdits(p) \/ AgentCommits(p) \/ AgentRewrites(p) \/ AgentDetachesHead(p)
  PROVE  Unborn' /\ PlanHolds'
<1>1. dir[p] = "present" /\ UNCHANGED <<dir, moved, clean>> /\ Works(p)
  BY DEF AgentEdits, AgentCommits, AgentRewrites, AgentDetachesHead, Works, disk
<1>2. \A q \in Pane \ {p} : /\ work'[q] = work[q] /\ form'[q] = form[q]
                            /\ q \in dirty' <=> q \in dirty
  BY DEF AgentEdits, AgentCommits, AgentRewrites, AgentDetachesHead, TypeOK
<1>3. Unborn'
  BY <1>1, <1>2 DEF Unborn
<1>4. ASSUME clean # NoPlan
      PROVE  \A q \in Doomed' : Spared(q)'
  <2>1. stale' = stale \cup {p}
    BY <1>1, <1>4 DEF Works
  <2>2. Doomed' = Doomed /\ Doomed \subseteq Pane
    BY <1>1 DEF Doomed, Present
  <2>3. \A q \in Doomed : Spared(q)
    BY <1>4 DEF PlanHolds
  <2>4. QED
    BY <1>1, <1>2, <2>1, <2>2, <2>3 DEF Spared
<1>5. QED
  BY <1>1, <1>3, <1>4 DEF PlanHolds

(* A plan is never overtaken by work it does not know of.                   *)
LEMMA NextPlan == TypeOK /\ Unborn /\ PlanHolds /\ [Next]_vars => Unborn' /\ PlanHolds'
<1> SUFFICES ASSUME TypeOK, Unborn, PlanHolds, [Next]_vars
             PROVE  Unborn' /\ PlanHolds'
  OBVIOUS
<1>1. ASSUME NEW p \in Pane, ClonePane(p)
      PROVE  Unborn' /\ PlanHolds'
  <2>1. Present' = Present \cup {p} /\ dir[p] = "absent" /\ UNCHANGED <<agents, cleaning, moved>>
    BY <1>1 DEF ClonePane, Present, TypeOK
  <2>2. work[p] = 0 /\ p \notin dirty
    BY <2>1 DEF Unborn
  <2>3. PlanHolds'
    BY <2>1, <2>2 DEF PlanHolds, Doomed, Spared, agents, cleaning
  <2>4. Unborn'
    BY <1>1, <2>1 DEF ClonePane, Unborn, TypeOK, agents
  <2>5. QED
    BY <2>3, <2>4
<1>2. CASE UserCommits
  <2>1. UNCHANGED <<agents, cleaning, dir>> /\ moved = {}
    BY <1>2 DEF UserCommits
  <2>2. QED
    BY <2>1, PlanStill DEF Unborn, Present, agents, cleaning
<1>3. CASE CloneFails \/ WriteMeta \/ LaunchFails \/ AttachReturns
           \/ UserEditsTree \/ UserTidies \/ UNCHANGED vars
  BY <1>3, ElsewhereHolds
  DEF CloneFails, WriteMeta, LaunchFails, AttachReturns, UserEditsTree, UserTidies, vars,
      disk
<1>4. ASSUME Launch \/ \E p \in Pane : AgentExits(p)
      PROVE  Unborn' /\ PlanHolds'
  <2>1. UNCHANGED <<work, form, dirty, dir, moved, clean, stale>>
    BY <1>4 DEF Launch, AgentExits, disk, cleaning
  <2>2. QED
    BY <2>1, PlanStill DEF Unborn, Present
<1>5. ASSUME NEW p \in Pane,
             AgentEdits(p) \/ AgentCommits(p) \/ AgentRewrites(p) \/ AgentDetachesHead(p)
      PROVE  Unborn' /\ PlanHolds'
  BY <1>5, WorkHolds
<1>6. ASSUME NEW s \in CliStrategies, CliMerge(s)
      PROVE  Unborn' /\ PlanHolds'
  BY <1>6, ElsewhereHolds DEF CliMerge, disk
<1>7. ASSUME NEW m \in Merger, MergeStep(m) \/ MergerDies(m)
      PROVE  Unborn' /\ PlanHolds'
  <2>1. UNCHANGED <<agents, cleaning>>
    BY <1>7
    DEF MergeStep, MergerDies, ListPanes, CannotStart, FetchPane, FetchFails, FetchOnly,
        Preflight, Checkout, Merge, MergeFails, Restore, DeletePaneRefs, Dispose
  <2>2. UNCHANGED <<dir, moved>> \/ Remove(Pane)
    BY <1>7
    DEF MergeStep, MergerDies, ListPanes, CannotStart, FetchPane, FetchFails, FetchOnly,
        Preflight, Checkout, Merge, MergeFails, Restore, DeletePaneRefs, Dispose,
        AppendMeta, RemoveSession, disk
  <2>3. QED
    BY <2>1, <2>2, ElsewhereHolds
<1>8. ASSUME NEW mode \in CleanModes \ {"force"}, PlanClean(mode)
      PROVE  Unborn' /\ PlanHolds'
  <2>1. UNCHANGED <<dir, moved, work, form, dirty, stale>>
    BY <1>8 DEF PlanClean, disk, agents
  <2>2. /\ clean'.panes = {p \in Present : PaneCheck(p)}
        /\ clean'.kept = {p \in Present : ~PaneCheck(p)}
    BY <1>8 DEF PlanClean
  <2>3. \A p \in Doomed' : PaneCheck(p)
    BY <2>1, <2>2 DEF Doomed, Present
  <2>4. \A p \in Doomed' : Spared(p)'
    BY <2>1, <2>3 DEF PaneCheck, Spared
  <2>5. QED
    BY <2>1, <2>4 DEF Unborn, PlanHolds
<1>9. CASE ExecuteClean
  <2>1. clean' = NoPlan /\ UNCHANGED agents
    BY <1>9 DEF ExecuteClean
  <2>2. \A p \in Pane : dir'[p] = "absent" => dir[p] = "absent"
    BY <1>9, RemoveOnlyRemoves DEF ExecuteClean, RemoveSession
  <2>3. QED
    BY <2>1, <2>2 DEF Unborn, PlanHolds, agents
<1>10. CASE ForceClean
  BY <1>10, ElsewhereHolds DEF ForceClean, RemoveSession
<1>11. QED
  BY <1>1, <1>2, <1>3, <1>4, <1>5, <1>6, <1>7, <1>8, <1>9, <1>10 DEF Next

-----------------------------------------------------------------------------
(* The theorems.                                                           *)

(* The invariant holds before the first pane is cloned ...                  *)
LEMMA InitIInv == Init => IInv
<1> SUFFICES ASSUME Init PROVE IInv
  OBVIOUS
<1>1. LockInv
  BY InitLockInv
<1>2. Knows
  BY DEF Init, Knows, MergeKnows, Holding, Gathered
<1>3. Unborn /\ PlanHolds
  BY DEF Init, Unborn, PlanHolds
<1>4. QED
  BY <1>1, <1>2, <1>3 DEF IInv

(* ... and is kept by every step.                                           *)
LEMMA NextIInv == IInv /\ [Next]_vars => IInv'
<1> SUFFICES ASSUME IInv, [Next]_vars
             PROVE  IInv'
  OBVIOUS
<1>1. LockInv'
  BY NextLockInv DEF IInv
<1>2. Knows'
  BY <1>1, NextKnows DEF IInv
<1>3. Unborn' /\ PlanHolds'
  BY NextPlan DEF IInv, LockInv
<1>4. QED
  BY <1>1, <1>2, <1>3 DEF IInv

(* The inductive invariant holds of a session at all times.                 *)
THEOREM Invariance == Spec => []IInv
  BY InitIInv, NextIInv, PTL DEF Spec

(* Every variable keeps its type, and no merger has fetched a pane that it  *)
(* did not list.                                                            *)
THEOREM TypeCorrect == Spec => []TypeOK
<1>1. IInv => TypeOK
  BY DEF IInv, LockInv
<1>2. QED
  BY <1>1, Invariance, PTL

(* The merge lock is held from listing the panes until the merger returns,  *)
(* on each way out of fork_merge_branches, and by nobody else.              *)
THEOREM LockCorrect == Spec => []LockFollowsMerge
<1>1. IInv => LockFollowsMerge
  BY DEF IInv, LockInv
<1>2. QED
  BY <1>1, Invariance, PTL

(* A pane's branch leaves the original repository only once its commits     *)
(* went into a merge.                                                       *)
THEOREM RefsKept == Spec => RefsDroppedAfterMerge
<1>1. ASSUME IInv, [Next]_vars, NEW p \in Pane, ref[p] # NoRef, ref'[p] = NoRef
      PROVE  Commits(p, ref[p]) \subseteq merged
  <2> TypeOK
    BY <1>1 DEF IInv, LockInv
  <2>1. ASSUME NEW m \in Merger, NEW q \in Pane, FetchPane(m, q)
        PROVE  FALSE
    BY <1>1, <2>1 DEF FetchPane, TypeOK, NoRef
  <2>2. PICK m \in Merger : DeletePaneRefs(m)
    BY <1>1, <2>1
    DEF Next, ClonePane, UserCommits, CloneFails, WriteMeta, Launch, LaunchFails,
        AttachReturns, AgentEdits, AgentCommits, AgentRewrites, AgentDetachesHead, Works,
        AgentExits, CliMerge, MergeStep, MergerDies, ListPanes, CannotStart, FetchFails,
        FetchOnly, Preflight, Checkout, Merge, MergeFails, Restore, Dispose,
        UserEditsTree, UserTidies, PlanClean, ExecuteClean, ForceClean, vars, branches
  <2>3. p \in listed[m] /\ mpc[m] = "delete"
    BY <1>1, <2>2 DEF DeletePaneRefs
  <2>4. QED
    BY <1>1, <2>3 DEF IInv, Knows, MergeKnows
<1>2. IInv /\ [Next]_vars =>
        [\A p \in Pane : ref[p] # NoRef /\ ref'[p] = NoRef
           => Commits(p, ref[p]) \subseteq merged]_vars
  BY <1>1
<1>3. QED
  BY <1>2, Invariance, PTL DEF Spec, RefsDroppedAfterMerge

(* The automatic disposal after a merge deletes no commit that was not      *)
(* merged, but for what was done in a pane after it was listed.             *)
THEOREM DisposalSafe == Spec => DisposedWorkWasMerged
<1>1. ASSUME IInv, NEW m \in Merger, mpc[m] = "dispose", NEW p \in Present \cap listed[m]
      PROVE  p \in touched[m] \/ Commits(p, work[p]) \subseteq merged
  BY <1>1 DEF IInv, Knows, MergeKnows
<1>2. IInv /\ [Next]_vars =>
        [\A m \in Merger : mpc[m] = "dispose" /\ mpc'[m] = "ok" =>
           \A p \in Present \cap listed[m] :
             p \in touched[m] \/ Commits(p, work[p]) \subseteq merged]_vars
  BY <1>1
<1>3. QED
  BY <1>2, Invariance, PTL DEF Spec, DisposedWorkWasMerged

(* An unforced clean deletes no work, but for what was done after the       *)
(* check, for rewritten histories and for panes with an older base.         *)
THEOREM CleanSafe == Spec => CleanSparesWork
<1>1. ASSUME IInv, [Next]_vars, clean # NoPlan, clean' = NoPlan,
             NEW p \in Present, dir'[p] = "removed"
      PROVE  Spared(p)
  <2> TypeOK
    BY <1>1 DEF IInv, LockInv
  <2>1. ExecuteClean
    BY <1>1
    DEF Next, ClonePane, UserCommits, CloneFails, WriteMeta, Launch, LaunchFails,
        AttachReturns, AgentEdits, AgentCommits, AgentRewrites, AgentDetachesHead, Works,
        AgentExits, CliMerge, MergeStep, MergerDies, ListPanes, CannotStart, FetchPane,
        FetchFails, FetchOnly, Preflight, Checkout, Merge, MergeFails, Restore,
        DeletePaneRefs, Dispose, UserEditsTree, UserTidies, PlanClean, ForceClean, vars,
        cleaning
  <2>2. clean.kept = {} \/ p \in clean.panes
    BY <1>1, <2>1 DEF ExecuteClean, Remove, Present
  <2>3. p \in Doomed
    BY <2>2 DEF Doomed
  <2>4. QED
    BY <1>1, <2>3 DEF IInv, PlanHolds
<1>2. IInv /\ [Next]_vars =>
        [clean # NoPlan /\ clean' = NoPlan =>
           \A p \in Present :
             dir'[p] = "removed" =>
               \/ p \in stale \/ form[p] = "diverged" \/ p \in moved
               \/ work[p] = 0 /\ p \notin dirty]_vars
  BY <1>1 DEF Spared
<1>3. QED
  BY <1>2, Invariance, PTL DEF Spec, CleanSparesWork
=============================================================================
