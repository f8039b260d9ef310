----------------------------- MODULE MCRepoLock -----------------------------
(***************************************************************************)
(* RepoLock on a small instance.  Two agents start in one workspace whose  *)
(* file system has no flock() (the second cannot even write there), so     *)
(* both end up contending for the runtime directory's file; a third cannot *)
(* write anywhere; two merges contend for the merge lock and may each try  *)
(* twice.                                                                  *)
(***************************************************************************)
EXTENDS RepoLock

CONSTANTS a1, a2, a3, m1, m2, repo, runtime, merge

Agents == {a1, a2, a3}
MCProc == Agents \cup {m1, m2}
MCPath == {repo, runtime, merge}

MCCandidates ==
  [p \in MCProc |-> IF p \in Agents THEN <<repo, runtime>> ELSE <<merge>>]

MCAttempts == [p \in MCProc |-> IF p \in Agents THEN 1 ELSE 2]

MCUnopenable == {<<a2, repo>>, <<a3, repo>>, <<a3, runtime>>}
MCUnlockable == {repo}
NoPath == {}
=============================================================================
