--------------------------- MODULE RepoLockProof ---------------------------
(***************************************************************************)
(* Theorems of RepoLock, for any processes, paths, candidates, attempts    *)
(* and faults.                                                             *)
(*                                                                         *)
(* flock() belongs to an inode while the promise is about a path, so the   *)
(* argument is about which inodes a path's users can have open.  OnePath   *)
(* and Younger say that an inode never serves two paths (inodes are        *)
(* numbered in the order of their creation).  SameInode says that as long  *)
(* as nobody removed the file of a path, everybody who has it open has the *)
(* one inode the path names; with flock()'s own exclusion (OneLock) this   *)
(* gives ExclusionUntilRemoval.                                            *)
(***************************************************************************)
EXTENDS RepoLock, TLAPS

InUse == {"opened", "holding", "unlocked"}

(* Only inodes that were created are open or linked.                       *)
Younger ==
  /\ \A p \in Proc : ino[p] <= fresh
  /\ \A f \in Path : linked[f] <= fresh

(* A process in the middle of its use of a lock file has an inode open.    *)
Opened == \A p \in Proc : pc[p] \in InUse => ino[p] # 0

OnePath ==
  /\ \A p, q \in Proc : pc[p] \in InUse /\ pc[q] \in InUse /\ ino[p] = ino[q]
                          => PathOf(p) = PathOf(q)
  /\ \A p \in Proc, f \in Path : pc[p] \in InUse /\ ino[p] = linked[f]
                          => PathOf(p) = f
  /\ \A f, g \in Path : linked[f] = linked[g] /\ linked[f] # 0 => f = g

SameInode ==
  \A p \in Proc : pc[p] \in InUse /\ PathOf(p) \notin removed
                    => ino[p] = linked[PathOf(p)]

OneLock ==
  \A p, q \in Proc : pc[p] = "holding" /\ pc[q] = "holding" /\ ino[p] = ino[q]
                       => p = q

(* A candidate index within bounds names a path.                           *)
LEMMA PathOfIsPath ==
  ASSUME TypeOK, NEW p \in Proc
  PROVE  PathOf(p) \in Path
<1>1. Candidates[p] \in Seq(Path)
  BY LockAssumption
<1>2. cand[p] \in 1..Len(Candidates[p])
  BY DEF TypeOK
<1>3. QED
  BY <1>1, <1>2 DEF PathOf

(* Who is still acquiring has an attempt left.                             *)
TriesLeft == \A p \in Proc : pc[p] \in {"start", "opened"} => tries[p] < Attempts[p]

(* What the processes have open, apart from the types.                     *)
Uses == Younger /\ Opened /\ OnePath /\ SameInode /\ OneLock

IInv == TypeOK /\ TriesLeft /\ Uses

LEMMA InitIInv == Init => IInv
  BY LockAssumption
  DEF Init, IInv, Uses, TriesLeft, TypeOK, Younger, Opened, OnePath, SameInode, OneLock,
      InUse, Stage, PathOf

-----------------------------------------------------------------------------
(* Types.                                                                  *)

LEMMA AttemptFailedTypeOK ==
  ASSUME TypeOK, NEW p \in Proc, NEW v \in {"refused", "failed"},
         pc[p] \in {"start", "opened"}, tries[p] < Attempts[p],
         AttemptFailed(p, v), UNCHANGED <<linked, fresh, removed>>
  PROVE  TypeOK'
<1>1. pc' \in [Proc -> Stage]
  BY DEF TypeOK, Stage, AttemptFailed
<1>2. Attempts[p] \in Nat /\ Len(Candidates[p]) \in Nat /\ Candidates[p] # <<>>
  BY LockAssumption
<1>3. 1 \in 1..Len(Candidates[p])
  BY <1>2, LockAssumption
<1>4. cand' \in [Proc -> Nat] /\ \A q \in Proc : cand'[q] \in 1..Len(Candidates[q])
  BY <1>3 DEF TypeOK, AttemptFailed
<1>5. tries' \in [Proc -> Nat] /\ \A q \in Proc : tries'[q] <= Attempts[q]
  BY <1>2 DEF TypeOK, AttemptFailed
<1>6. ino' \in [Proc -> Nat]
  BY DEF TypeOK, AttemptFailed
<1>7. QED
  BY <1>1, <1>4, <1>5, <1>6 DEF TypeOK

LEMMA NextTypeOK == IInv /\ [Next]_vars => TypeOK'
<1> SUFFICES ASSUME IInv, [Next]_vars
             PROVE  TypeOK'
  OBVIOUS
<1>t. TypeOK
  BY DEF IInv
<1>m. pc \in [Proc -> Stage] /\ ino \in [Proc -> Nat]
  BY <1>t DEF TypeOK
<1>p. \A q \in Proc : PathOf(q) \in Path
  BY <1>t, PathOfIsPath
<1>1. ASSUME NEW p \in Proc, Open(p)
      PROVE  TypeOK'
  <2>1. pc' \in [Proc -> Stage]
    BY <1>1, <1>t DEF Open, TypeOK, Stage
  <2>2. linked' \in [Path -> Nat] /\ fresh' \in Nat
    BY <1>1, <1>p, <1>t DEF Open, TypeOK
  <2>3. ino' \in [Proc -> Nat]
    BY <1>1, <1>p, <1>t, <2>2 DEF Open, TypeOK
  <2>4. QED
    BY <1>1, <1>t, <2>1, <2>2, <2>3 DEF Open, TypeOK
<1>2. ASSUME NEW p \in Proc, TryLockOk(p) \/ Unlock(p) \/ Crash(p)
      PROVE  TypeOK'
  <2>1. pc' \in [Proc -> Stage] /\ ino' \in [Proc -> Nat]
    BY <1>2, <1>m DEF TryLockOk, Unlock, Crash, Stage
  <2>2. UNCHANGED <<cand, tries, linked, fresh, removed>>
    BY <1>2 DEF TryLockOk, Unlock, Crash
  <2>3. QED
    BY <1>t, <2>1, <2>2 DEF TypeOK
<1>3. ASSUME NEW p \in Proc, TryLockWouldBlock(p)
      PROVE  TypeOK'
  BY <1>3, <1>t, AttemptFailedTypeOK DEF TryLockWouldBlock, IInv, TriesLeft
<1>4. ASSUME NEW p \in Proc, CandidateFailed(p)
      PROVE  TypeOK'
  <2>1. CASE cand[p] < Len(Candidates[p])
    <3>1. Len(Candidates[p]) \in Nat
      BY LockAssumption
    <3>2. cand' = [cand EXCEPT ![p] = @ + 1] /\ UNCHANGED tries
      BY <1>4, <2>1 DEF CandidateFailed
    <3>3. cand' \in [Proc -> Nat] /\ \A q \in Proc : cand'[q] \in 1..Len(Candidates[q])
      BY <2>1, <3>1, <3>2, <1>t DEF TypeOK
    <3>4. QED
      <4>1. pc' \in [Proc -> Stage] /\ ino' \in [Proc -> Nat]
        BY <1>4, <2>1, <1>m DEF CandidateFailed, Stage
      <4>2. UNCHANGED <<linked, fresh, removed>>
        BY <1>4 DEF CandidateFailed
      <4>3. QED
        BY <1>t, <3>2, <3>3, <4>1, <4>2 DEF TypeOK
  <2>2. CASE ~(cand[p] < Len(Candidates[p]))
    BY <1>4, <2>2, <1>t, AttemptFailedTypeOK DEF CandidateFailed, IInv, TriesLeft
  <2>3. QED
    BY <2>1, <2>2
<1>5. ASSUME NEW p \in Proc, Remove(p)
      PROVE  TypeOK'
  <2>1. pc' \in [Proc -> Stage] /\ ino' \in [Proc -> Nat]
    BY <1>5, <1>m DEF Remove, Stage
  <2>2. linked' \in [Path -> Nat] /\ removed' \subseteq Path
    BY <1>5, <1>p, <1>t DEF Remove, TypeOK
  <2>3. UNCHANGED <<cand, tries, fresh>>
    BY <1>5 DEF Remove
  <2>4. QED
    BY <1>t, <2>1, <2>2, <2>3 DEF TypeOK
<1>6. CASE UNCHANGED vars
  BY <1>6, <1>t DEF vars, TypeOK
<1>7. QED
  BY <1>1, <1>2, <1>3, <1>4, <1>5, <1>6 DEF Next, Acquire, Terminated

-----------------------------------------------------------------------------
(* Opening: the file is created, or the inode the path names is opened.    *)
LEMMA OpenUses ==
  ASSUME IInv, TypeOK', NEW p \in Proc, Open(p)
  PROVE  Uses'
<1> USE DEF IInv, Uses
<1>p. \A q \in Proc : PathOf(q) \in Path /\ PathOf(q)' = PathOf(q)
  BY PathOfIsPath DEF Open, PathOf
<1>t. /\ ino \in [Proc -> Nat] /\ linked \in [Path -> Nat] /\ fresh \in Nat
      /\ pc \in [Proc -> Stage]
  BY DEF TypeOK
<1>0. /\ UNCHANGED removed
      /\ pc' = [pc EXCEPT ![p] = "opened"]
  BY DEF Open
<1>1. CASE linked[PathOf(p)] = 0
  <2>1. /\ linked' = [linked EXCEPT ![PathOf(p)] = fresh + 1]
        /\ ino' = [ino EXCEPT ![p] = fresh + 1]
        /\ fresh' = fresh + 1
    BY <1>1, <1>p, <1>t DEF Open
  <2>11. Younger'
    BY <1>p, <1>t, <1>0, <1>1, <2>1 DEF Younger
  <2>12. Opened'
    BY <1>p, <1>t, <1>0, <1>1, <2>1 DEF Opened, InUse
  <2>13. OnePath'
    BY <1>p, <1>t, <1>0, <1>1, <2>1 DEF OnePath, Opened, Younger, InUse
  <2>14. SameInode'
    BY <1>p, <1>t, <1>0, <1>1, <2>1 DEF SameInode, OnePath, Opened, InUse
  <2>15. OneLock'
    BY <1>p, <1>t, <1>0, <1>1, <2>1 DEF OneLock
  <2>20. QED
    BY <2>11, <2>12, <2>13, <2>14, <2>15 DEF Uses
<1>2. CASE linked[PathOf(p)] # 0
  <2>1. /\ ino' = [ino EXCEPT ![p] = linked[PathOf(p)]]
        /\ UNCHANGED <<linked, fresh>>
    BY <1>2 DEF Open
  <2>11. Younger'
    BY <1>p, <1>t, <1>0, <1>2, <2>1 DEF Younger
  <2>12. Opened'
    BY <1>p, <1>t, <1>0, <1>2, <2>1 DEF Opened, InUse
  <2>13. OnePath'
    BY <1>p, <1>t, <1>0, <1>2, <2>1 DEF OnePath, Opened, Younger, InUse
  <2>14. SameInode'
    BY <1>p, <1>t, <1>0, <1>2, <2>1 DEF SameInode, OnePath, Opened, InUse
  <2>15. OneLock'
    BY <1>p, <1>t, <1>0, <1>2, <2>1 DEF OneLock
  <2>20. QED
    BY <2>11, <2>12, <2>13, <2>14, <2>15 DEF Uses
<1>3. QED
  BY <1>1, <1>2

(* A step that only moves on a process that has the file open: taking the  *)
(* lock, which nobody else has, or giving it up.                           *)
LEMMA LockUnlockUses ==
  ASSUME IInv, NEW p \in Proc, TryLockOk(p) \/ Unlock(p)
  PROVE  Uses'
<1> USE DEF IInv, Uses
<1>p. \A q \in Proc : PathOf(q)' = PathOf(q)
  BY DEF TryLockOk, Unlock, PathOf
<1>t. pc \in [Proc -> Stage] /\ ino \in [Proc -> Nat]
  BY DEF TypeOK
<1>0. /\ UNCHANGED <<ino, linked, fresh, removed>>
      /\ pc[p] \in InUse
      /\ \E s \in InUse : pc' = [pc EXCEPT ![p] = s]
  BY DEF TryLockOk, Unlock, InUse
<1>1. pc'[p] = "holding" => \A q \in Proc : pc[q] = "holding" => ino[q] # ino[p]
  BY <1>t DEF TryLockOk, Unlock, Locked
<1>11. Younger'
  BY <1>p, <1>t, <1>0, <1>1 DEF Younger
<1>12. Opened'
  BY <1>p, <1>t, <1>0, <1>1 DEF Opened, InUse
<1>13. OnePath'
  BY <1>p, <1>t, <1>0, <1>1 DEF OnePath, Opened, Younger, InUse
<1>14. SameInode'
  BY <1>p, <1>t, <1>0, <1>1 DEF SameInode, OnePath, Opened, InUse
<1>15. OneLock'
  BY <1>p, <1>t, <1>0, <1>1 DEF OneLock
<1>20. QED
  BY <1>11, <1>12, <1>13, <1>14, <1>15 DEF Uses

(* A step in which one process closes its file and stops using it, and no  *)
(* name changes.                                                           *)
LEMMA CloseUses ==
  ASSUME IInv, NEW p \in Proc, NEW s \in Stage \ InUse,
         pc' = [pc EXCEPT ![p] = s],
         ino' = [ino EXCEPT ![p] = 0],
         \A q \in Proc \ {p} : PathOf(q)' = PathOf(q),
         UNCHANGED <<linked, fresh, removed>>
  PROVE  Uses'
<1> USE DEF IInv, Uses
<1>t. pc \in [Proc -> Stage] /\ ino \in [Proc -> Nat] /\ fresh \in Nat
  BY DEF TypeOK
<1>0. pc'[p] \notin InUse /\ pc'[p] # "holding"
  BY <1>t DEF InUse
<1>1. \A q \in Proc \ {p} : pc'[q] = pc[q] /\ ino'[q] = ino[q]
  BY <1>t
<1>11. Younger'
  BY <1>t, <1>0, <1>1 DEF Younger
<1>12. Opened'
  BY <1>t, <1>0, <1>1 DEF Opened, InUse
<1>13. OnePath'
  BY <1>t, <1>0, <1>1 DEF OnePath, Opened, Younger, InUse
<1>14. SameInode'
  BY <1>t, <1>0, <1>1 DEF SameInode, OnePath, Opened, InUse
<1>15. OneLock'
  BY <1>t, <1>0, <1>1 DEF OneLock
<1>20. QED
  BY <1>11, <1>12, <1>13, <1>14, <1>15 DEF Uses

(* Drop's removal takes the name away from whatever inode it has.          *)
LEMMA RemoveUses ==
  ASSUME IInv, NEW p \in Proc, Remove(p)
  PROVE  Uses'
<1> USE DEF IInv, Uses
<1>p. \A q \in Proc : PathOf(q) \in Path /\ PathOf(q)' = PathOf(q)
  BY PathOfIsPath DEF Remove, PathOf
<1>t. /\ pc \in [Proc -> Stage] /\ ino \in [Proc -> Nat]
      /\ linked \in [Path -> Nat] /\ fresh \in Nat
  BY DEF TypeOK
<1>0. pc'[p] \notin InUse /\ pc'[p] # "holding" /\ ino'[p] = 0 /\ UNCHANGED fresh
  BY <1>t DEF Remove, InUse
<1>1. \A q \in Proc \ {p} : pc'[q] = pc[q] /\ ino'[q] = ino[q]
  BY <1>t DEF Remove
<1>2. CASE /\ linked' = [linked EXCEPT ![PathOf(p)] = 0]
           /\ removed' = removed \cup {PathOf(p)}
  <2>11. Younger'
    BY <1>p, <1>t, <1>0, <1>1, <1>2 DEF Younger
  <2>12. Opened'
    BY <1>p, <1>t, <1>0, <1>1, <1>2 DEF Opened, InUse
  <2>13. OnePath'
    BY <1>p, <1>t, <1>0, <1>1, <1>2 DEF OnePath, Opened, Younger, InUse
  <2>14. SameInode'
    BY <1>p, <1>t, <1>0, <1>1, <1>2 DEF SameInode, OnePath, Opened, InUse
  <2>15. OneLock'
    BY <1>p, <1>t, <1>0, <1>1, <1>2 DEF OneLock
  <2>20. QED
    BY <2>11, <2>12, <2>13, <2>14, <2>15 DEF Uses
<1>3. CASE UNCHANGED <<linked, removed>>
  <2>11. Younger'
    BY <1>p, <1>t, <1>0, <1>1, <1>3 DEF Younger
  <2>12. Opened'
    BY <1>p, <1>t, <1>0, <1>1, <1>3 DEF Opened, InUse
  <2>13. OnePath'
    BY <1>p, <1>t, <1>0, <1>1, <1>3 DEF OnePath, Opened, Younger, InUse
  <2>14. SameInode'
    BY <1>p, <1>t, <1>0, <1>1, <1>3 DEF SameInode, OnePath, Opened, InUse
  <2>15. OneLock'
    BY <1>p, <1>t, <1>0, <1>1, <1>3 DEF OneLock
  <2>20. QED
    BY <2>11, <2>12, <2>13, <2>14, <2>15 DEF Uses
<1>4. QED
  BY <1>2, <1>3 DEF Remove

-----------------------------------------------------------------------------
(* A retry is only made with an attempt left.                              *)
LEMMA NextTriesLeft == IInv /\ [Next]_vars => TriesLeft'
<1> SUFFICES ASSUME IInv, [Next]_vars, NEW q \in Proc,
                    pc'[q] \in {"start", "opened"}
             PROVE  tries'[q] < Attempts[q]
  BY DEF TriesLeft
<1>t. /\ pc \in [Proc -> Stage] /\ tries \in [Proc -> Nat]
      /\ pc[q] \in {"start", "opened"} => tries[q] < Attempts[q]
  BY DEF IInv, TypeOK, TriesLeft
<1>1. ASSUME NEW p \in Proc, Acquire(p)
      PROVE  tries'[q] < Attempts[q]
  BY <1>1, <1>t DEF Acquire, Open, TryLockOk, TryLockWouldBlock, CandidateFailed,
                    AttemptFailed
<1>2. ASSUME NEW p \in Proc, Unlock(p) \/ Remove(p) \/ Crash(p)
      PROVE  tries'[q] < Attempts[q]
  BY <1>2, <1>t DEF Unlock, Remove, Crash
<1>3. CASE UNCHANGED vars
  BY <1>3, <1>t DEF vars
<1>4. QED
  BY <1>1, <1>2, <1>3 DEF Next, Terminated

LEMMA NextIInv == IInv /\ [Next]_vars => IInv'
<1> SUFFICES ASSUME IInv, [Next]_vars
             PROVE  IInv'
  OBVIOUS
<1>t. TypeOK'
  BY NextTypeOK
<1>r. TriesLeft'
  BY NextTriesLeft
<1>c. cand \in [Proc -> Nat]
  BY DEF IInv, TypeOK
<1>1. ASSUME NEW p \in Proc, Open(p)
      PROVE  Uses'
  BY <1>1, <1>t, OpenUses
<1>2. ASSUME NEW p \in Proc, TryLockOk(p) \/ Unlock(p)
      PROVE  Uses'
  BY <1>2, LockUnlockUses
<1>3. ASSUME NEW p \in Proc, NEW v \in {"refused", "failed"},
             AttemptFailed(p, v), UNCHANGED <<linked, fresh, removed>>
      PROVE  Uses'
  <2>1. \A q \in Proc \ {p} : PathOf(q)' = PathOf(q)
    BY <1>3, <1>c DEF AttemptFailed, PathOf
  <2>2. PICK s \in Stage \ InUse : pc' = [pc EXCEPT ![p] = s]
    BY <1>3 DEF AttemptFailed, Stage, InUse
  <2>3. ino' = [ino EXCEPT ![p] = 0]
    BY <1>3 DEF AttemptFailed
  <2>4. QED
    BY <1>3, <2>1, <2>2, <2>3, CloseUses
<1>4. ASSUME NEW p \in Proc, TryLockWouldBlock(p)
      PROVE  Uses'
  BY <1>4, <1>3 DEF TryLockWouldBlock
<1>5. ASSUME NEW p \in Proc, CandidateFailed(p)
      PROVE  Uses'
  <2>1. CASE cand[p] < Len(Candidates[p])
    <3>1. /\ pc' = [pc EXCEPT ![p] = "start"]
          /\ ino' = [ino EXCEPT ![p] = 0]
          /\ UNCHANGED <<linked, fresh, removed>>
      BY <1>5, <2>1 DEF CandidateFailed
    <3>2. \A q \in Proc \ {p} : PathOf(q)' = PathOf(q)
      BY <1>5, <1>c, <2>1 DEF CandidateFailed, PathOf
    <3>3. QED
      BY <3>1, <3>2, CloseUses DEF Stage, InUse
  <2>2. CASE ~(cand[p] < Len(Candidates[p]))
    BY <1>5, <1>3, <2>2 DEF CandidateFailed
  <2>3. QED
    BY <2>1, <2>2
<1>6. ASSUME NEW p \in Proc, Remove(p)
      PROVE  Uses'
  BY <1>6, RemoveUses
<1>7. ASSUME NEW p \in Proc, Crash(p)
      PROVE  Uses'
  <2>1. \A q \in Proc \ {p} : PathOf(q)' = PathOf(q)
    BY <1>7 DEF Crash, PathOf
  <2>2. QED
    BY <1>7, <2>1, CloseUses DEF Crash, Stage, InUse
<1>8. ASSUME UNCHANGED vars
      PROVE  Uses'
  BY <1>8 DEF IInv, Uses, vars, Younger, Opened, OnePath, SameInode, OneLock, PathOf
<1>9. QED
  BY <1>t, <1>r, <1>1, <1>2, <1>4, <1>5, <1>6, <1>7, <1>8
  DEF Next, Acquire, Terminated, IInv

-----------------------------------------------------------------------------
(* The invariant holds in every reachable state.                           *)
THEOREM Invariance == Spec => []IInv
  BY InitIInv, NextIInv, PTL DEF Spec

(* Types are right in every reachable state.                               *)
THEOREM TypeCorrect == Spec => []TypeOK
<1>1. IInv => TypeOK
  BY DEF IInv
<1>2. QED
  BY <1>1, Invariance, PTL

(* Until a guard has removed the lock file of a path, that path's lock has *)
(* at most one holder.                                                     *)
THEOREM FileExclusion == Spec => []ExclusionUntilRemoval
<1>1. IInv => ExclusionUntilRemoval
  BY DEF IInv, Uses, ExclusionUntilRemoval, Holders, SameInode, OneLock, InUse
<1>2. QED
  BY <1>1, Invariance, PTL

(* A refused process always finds a live holder of the same path: a lock   *)
(* file nobody holds never turns an agent away.                            *)
THEOREM RefusalNeedsHolder == Spec => RefusedOnlyByALiveHolder
<1>1. ASSUME IInv, [Next]_vars, NEW p \in Proc,
             pc[p] # "refused", pc'[p] = "refused"
      PROVE  Holders(PathOf(p)) \ {p} # {}
  <2>t. pc \in [Proc -> Stage]
    BY <1>1 DEF IInv, TypeOK
  <2>1. TryLockWouldBlock(p)
    BY <1>1, <2>t DEF Next, vars, Acquire, Terminated, Open, TryLockOk,
       TryLockWouldBlock, CandidateFailed, AttemptFailed, Unlock, Remove, Crash
  <2>2. PICK q \in Proc : pc[q] = "holding" /\ ino[q] = ino[p]
    BY <2>1 DEF TryLockWouldBlock, Locked
  <2>3. PathOf(q) = PathOf(p) /\ q # p
    BY <1>1, <2>1, <2>2 DEF IInv, Uses, OnePath, InUse, TryLockWouldBlock
  <2>4. QED
    BY <2>2, <2>3 DEF Holders
<1>2. IInv /\ [Next]_vars =>
        [\A p \in Proc : pc[p] # "refused" /\ pc'[p] = "refused"
           => Holders(PathOf(p)) \ {p} # {}]_vars
  BY <1>1
<1>3. QED
  BY <1>2, Invariance, PTL DEF Spec, RefusedOnlyByALiveHolder

(* What NoLeftoverFile asks of one path: somebody will remove its file.    *)
Keeper(p, f) ==
  /\ PathOf(p) = f
  /\ \/ pc[p] = "opened" /\ ino[p] = linked[f]
     \/ pc[p] \in {"holding", "unlocked"}

(* A refused process leaves the file to the holder that refused it, and a  *)
(* remover takes the file with it.                                         *)
LEMMA NextNoLeftoverFile ==
  IInv /\ NoLeftoverFile /\ [Next]_vars => NoLeftoverFile'
<1> SUFFICES ASSUME IInv, NoLeftoverFile, [Next]_vars,
                    \A p \in Proc : pc'[p] # "crashed",
                    NEW f \in Path \ (Unlockable \cup Unremovable),
                    linked'[f] # 0
             PROVE  \E p \in Proc : Keeper(p, f)'
  BY DEF NoLeftoverFile, Keeper
<1>t. /\ pc \in [Proc -> Stage] /\ ino \in [Proc -> Nat] /\ cand \in [Proc -> Nat]
      /\ linked \in [Path -> Nat]
      /\ \A q \in Proc : PathOf(q) \in Path
  BY PathOfIsPath DEF IInv, TypeOK
<1>1. ASSUME \A p \in Proc : pc[p] # "crashed", linked[f] # 0
      PROVE  \E q \in Proc : Keeper(q, f)
  BY <1>1 DEF NoLeftoverFile, Keeper
<1>2. ASSUME NEW p \in Proc, NEW q \in Proc \ {p}, Keeper(q, f),
             PathOf(q)' = PathOf(q), pc'[q] = pc[q], ino'[q] = ino[q],
             linked'[f] = linked[f]
      PROVE  Keeper(q, f)'
  BY <1>2 DEF Keeper
<1>3. ASSUME NEW p \in Proc, Open(p)
      PROVE  \E q \in Proc : Keeper(q, f)'
  <2>1. \A q \in Proc : PathOf(q)' = PathOf(q) /\ (q # p => pc'[q] = pc[q] /\ ino'[q] = ino[q])
    BY <1>3, <1>t DEF Open, PathOf
  <2>2. CASE PathOf(p) = f
    BY <1>3, <2>1, <2>2, <1>t DEF Open, Keeper
  <2>3. CASE PathOf(p) # f
    <3>1. linked'[f] = linked[f]
      BY <1>3, <2>3, <1>t DEF Open
    <3>2. \A q \in Proc : pc[q] # "crashed"
      BY <1>3, <2>1, <1>t DEF Open
    <3>3. PICK q \in Proc : Keeper(q, f)
      BY <1>1, <3>1, <3>2
    <3>4. q # p
      BY <2>3, <3>3 DEF Keeper
    <3>5. QED
      BY <1>2, <2>1, <3>1, <3>3, <3>4
  <2>4. QED
    BY <2>2, <2>3
<1>4. ASSUME NEW p \in Proc, TryLockOk(p) \/ Unlock(p)
      PROVE  \E q \in Proc : Keeper(q, f)'
  <2>1. /\ \A q \in Proc : PathOf(q)' = PathOf(q)
        /\ UNCHANGED <<ino, linked>>
        /\ \A q \in Proc : q # p => pc'[q] = pc[q]
        /\ pc'[p] \in {"holding", "unlocked"} /\ pc[p] # "crashed"
    BY <1>4, <1>t DEF TryLockOk, Unlock, PathOf
  <2>2. PICK q \in Proc : Keeper(q, f)
    BY <1>1, <2>1
  <2>3. QED
    BY <2>1, <2>2 DEF Keeper
<1>5. ASSUME NEW p \in Proc, TryLockWouldBlock(p) \/ CandidateFailed(p)
      PROVE  \E q \in Proc : Keeper(q, f)'
  <2>1. /\ \A q \in Proc \ {p} : PathOf(q)' = PathOf(q)
        /\ UNCHANGED linked
        /\ \A q \in Proc \ {p} : pc'[q] = pc[q] /\ ino'[q] = ino[q]
        /\ pc[p] \in {"start", "opened"}
    BY <1>5, <1>t DEF TryLockWouldBlock, CandidateFailed, AttemptFailed, PathOf
  <2>2. PICK q \in Proc : Keeper(q, f)
    BY <1>1, <2>1
  <2>3. CASE q # p
    BY <1>2, <2>1, <2>2, <2>3
  <2>4. CASE q = p
    <3>1. pc[p] = "opened" /\ ino[p] = linked[f] /\ PathOf(p) = f
      BY <2>1, <2>2, <2>4 DEF Keeper
    <3>2. TryLockWouldBlock(p)
      BY <1>5, <3>1 DEF CandidateFailed
    <3>3. PICK r \in Proc : pc[r] = "holding" /\ ino[r] = ino[p]
      BY <3>2 DEF TryLockWouldBlock, Locked
    <3>4. r # p /\ PathOf(r) = f
      BY <3>1, <3>3 DEF IInv, Uses, OnePath, InUse
    <3>5. QED
      BY <2>1, <3>3, <3>4 DEF Keeper
  <2>5. QED
    BY <2>3, <2>4
<1>6. ASSUME NEW p \in Proc, Remove(p)
      PROVE  \E q \in Proc : Keeper(q, f)'
  <2>1. /\ \A q \in Proc : PathOf(q)' = PathOf(q)
        /\ \A q \in Proc : q # p => pc'[q] = pc[q] /\ ino'[q] = ino[q]
        /\ pc[p] # "crashed"
    BY <1>6, <1>t DEF Remove, PathOf
  <2>2. PathOf(p) # f /\ linked'[f] = linked[f]
    BY <1>6, <1>t DEF Remove
  <2>3. PICK q \in Proc : Keeper(q, f)
    BY <1>1, <2>1, <2>2
  <2>4. q # p
    BY <2>2, <2>3 DEF Keeper
  <2>5. QED
    BY <1>2, <2>1, <2>2, <2>3, <2>4
<1>7. ASSUME NEW p \in Proc, Crash(p)
      PROVE  FALSE
  BY <1>7, <1>t DEF Crash
<1>8. CASE UNCHANGED vars
  BY <1>1, <1>8 DEF vars, Keeper, PathOf
<1>9. QED
  BY <1>3, <1>4, <1>5, <1>6, <1>7, <1>8 DEF Next, Acquire, Terminated

(* When nobody is killed, every lock file that exists has somebody left to *)
(* remove it: lock.rs cleans up after itself.                              *)
THEOREM FilesAreRemoved == Spec => []NoLeftoverFile
<1>1. Init => NoLeftoverFile
  BY DEF Init, NoLeftoverFile
<1>2. QED
  BY <1>1, NextNoLeftoverFile, Invariance, PTL DEF Spec
=============================================================================
