--------------------------- MODULE MCRepoLockThree ---------------------------
(***************************************************************************)
(* RepoLock with three agents on one healthy lock file: the smallest       *)
(* instance in which one guard's Drop meets two other acquirers.           *)
(***************************************************************************)
EXTENDS RepoLock

CONSTANTS a1, a2, a3, repo

MCProc == {a1, a2, a3}
MCPath == {repo}
MCCandidates == [p \in MCProc |-> <<repo>>]
MCAttempts == [p \in MCProc |-> 1]
None == {}
=============================================================================
