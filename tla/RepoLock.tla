------------------------------ MODULE RepoLock ------------------------------
(***************************************************************************)
(* The launcher's file lock (src/src/lock.rs): an flock() taken on a lock  *)
(* file, whose guard unlocks the file and then removes it by name.  The    *)
(* same guard serves two callers: acquire_lock, which walks a list of      *)
(* candidate paths and gives up as soon as one of them is held, and        *)
(* acquire_lock_blocking_at, which retries one path a bounded number of    *)
(* times (the merge lock of fork_impl/merge.rs).                           *)
(*                                                                         *)
(* The file system is kept as far as the lock can tell: a path names at    *)
(* most one inode, a removed inode lives on in the processes that have it  *)
(* open, and flock() belongs to the inode, never to the name.              *)
(***************************************************************************)
EXTENDS Naturals, Sequences

CONSTANTS
  Proc,         (* the processes, each of which runs its acquire call once    *)
  Path,         (* the lock file paths                                        *)
  Candidates,   (* the paths each process tries, in order                     *)
  Attempts,     (* how often each process may try its list of paths           *)
  Unopenable,   (* the <<process, path>> pairs whose open() fails             *)
  Unlockable,   (* the paths whose file system has no flock()                 *)
  Unremovable   (* the paths whose directory refuses remove_file()            *)

ASSUME LockAssumption ==
  /\ Candidates \in [Proc -> Seq(Path)]
  /\ \A p \in Proc : Candidates[p] # <<>>
  /\ Attempts \in [Proc -> Nat \ {0}]
  /\ Unopenable \subseteq Proc \X Path
  /\ Unlockable \subseteq Path
  /\ Unremovable \subseteq Path

VARIABLES
  pc,       (* where each process is in its call and in its guard's life      *)
  cand,     (* the index in Candidates[p] of the path being tried             *)
  tries,    (* the attempts that have failed                                  *)
  ino,      (* the inode each process has open, 0 when none                   *)
  linked,   (* the inode each path names, 0 when the file does not exist      *)
  fresh,    (* how many inodes were created                                   *)
  removed   (* the paths a guard has removed a lock file from                 *)

vars == <<pc, cand, tries, ino, linked, fresh, removed>>

(* "opened" is the instant between open() and flock(); "unlocked" the one   *)
(* in Drop between unlock and remove_file.                                  *)
Stage == {"start", "opened", "holding", "unlocked", "done", "refused",
          "failed", "crashed"}

PathOf(p) == Candidates[p][cand[p]]

(* flock() is exclusive on an inode; a process that dies loses it.          *)
Locked(i) == \E q \in Proc : pc[q] = "holding" /\ ino[q] = i

-----------------------------------------------------------------------------
(* Acquiring.                                                              *)

Init ==
  /\ pc = [p \in Proc |-> "start"]
  /\ cand = [p \in Proc |-> 1]
  /\ tries = [p \in Proc |-> 0]
  /\ ino = [p \in Proc |-> 0]
  /\ linked = [f \in Path |-> 0]
  /\ fresh = 0
  /\ removed = {}

(* OpenOptions::create(true).open(path): the file is made when it is not    *)
(* there, otherwise whatever inode the path names now is opened.            *)
Open(p) ==
  /\ pc[p] = "start"
  /\ <<p, PathOf(p)>> \notin Unopenable
  /\ IF linked[PathOf(p)] = 0
       THEN /\ fresh' = fresh + 1
            /\ linked' = [linked EXCEPT ![PathOf(p)] = fresh + 1]
       ELSE UNCHANGED <<fresh, linked>>
  /\ ino' = [ino EXCEPT ![p] = linked'[PathOf(p)]]
  /\ pc' = [pc EXCEPT ![p] = "opened"]
  /\ UNCHANGED <<cand, tries, removed>>

(* Mutant: the lock taken is a shared one.                                  *)
TryLockShared(p) ==
  /\ pc[p] = "opened"
  /\ PathOf(p) \notin Unlockable
  /\ pc' = [pc EXCEPT ![p] = "holding"]
  /\ UNCHANGED <<cand, tries, ino, linked, fresh, removed>>

(* try_lock_exclusive() succeeds.                                           *)
TryLockOk(p) ==
  /\ pc[p] = "opened"
  /\ PathOf(p) \notin Unlockable
  /\ ~Locked(ino[p])
  /\ pc' = [pc EXCEPT ![p] = "holding"]
  /\ UNCHANGED <<cand, tries, ino, linked, fresh, removed>>

(* An attempt has failed: acquire_lock_blocking_at sleeps and starts over   *)
(* while it has attempts left; acquire_lock (one attempt) reports the error.*)
AttemptFailed(p, verdict) ==
  /\ tries' = [tries EXCEPT ![p] = @ + 1]
  /\ ino' = [ino EXCEPT ![p] = 0]
  /\ IF tries[p] + 1 < Attempts[p]
       THEN /\ pc' = [pc EXCEPT ![p] = "start"]
            /\ cand' = [cand EXCEPT ![p] = 1]
       ELSE /\ pc' = [pc EXCEPT ![p] = verdict]
            /\ UNCHANGED cand

(* Mutant: every error of flock() is taken for "held by another".           *)
AnyLockErrorRefuses(p) ==
  /\ pc[p] = "opened"
  /\ PathOf(p) \in Unlockable \/ Locked(ino[p])
  /\ AttemptFailed(p, "refused")
  /\ UNCHANGED <<linked, fresh, removed>>

(* Mutant: a retry is not counted.                                          *)
RetryForever(p) ==
  /\ pc[p] = "opened"
  /\ PathOf(p) \notin Unlockable
  /\ Locked(ino[p])
  /\ pc' = [pc EXCEPT ![p] = "start"]
  /\ ino' = [ino EXCEPT ![p] = 0]
  /\ UNCHANGED <<cand, tries, linked, fresh, removed>>

(* try_lock_exclusive() says WouldBlock: no other candidate is tried.       *)
TryLockWouldBlock(p) ==
  /\ pc[p] = "opened"
  /\ PathOf(p) \notin Unlockable
  /\ Locked(ino[p])
  /\ AttemptFailed(p, "refused")
  /\ UNCHANGED <<linked, fresh, removed>>

(* Mutant: the candidates are counted one too far.                          *)
CandidatesOvershoot(p) ==
  /\ \/ pc[p] = "start" /\ <<p, PathOf(p)>> \in Unopenable
     \/ pc[p] = "opened" /\ PathOf(p) \in Unlockable
  /\ IF cand[p] <= Len(Candidates[p])
       THEN /\ cand' = [cand EXCEPT ![p] = @ + 1]
            /\ pc' = [pc EXCEPT ![p] = "start"]
            /\ ino' = [ino EXCEPT ![p] = 0]
            /\ UNCHANGED tries
       ELSE AttemptFailed(p, "failed")
  /\ UNCHANGED <<linked, fresh, removed>>

(* open() fails, or flock() fails with another error than WouldBlock: the   *)
(* next candidate is tried, and an attempt that runs out of them fails.     *)
CandidateFailed(p) ==
  /\ \/ pc[p] = "start" /\ <<p, PathOf(p)>> \in Unopenable
     \/ pc[p] = "opened" /\ PathOf(p) \in Unlockable
  /\ IF cand[p] < Len(Candidates[p])
       THEN /\ cand' = [cand EXCEPT ![p] = @ + 1]
            /\ pc' = [pc EXCEPT ![p] = "start"]
            /\ ino' = [ino EXCEPT ![p] = 0]
            /\ UNCHANGED tries
       ELSE AttemptFailed(p, "failed")
  /\ UNCHANGED <<linked, fresh, removed>>

-----------------------------------------------------------------------------
(* The guard's Drop, and dying without it.                                  *)

(* Mutant: Drop unlocks the file and leaves it there.                       *)
UnlockOnly(p) ==
  /\ pc[p] = "holding"
  /\ pc' = [pc EXCEPT ![p] = "done"]
  /\ ino' = [ino EXCEPT ![p] = 0]
  /\ UNCHANGED <<cand, tries, linked, fresh, removed>>

(* Drop begins: FileExt::unlock.                                            *)
Unlock(p) ==
  /\ pc[p] = "holding"
  /\ pc' = [pc EXCEPT ![p] = "unlocked"]
  /\ UNCHANGED <<cand, tries, ino, linked, fresh, removed>>

(* Drop ends: the name is removed, whatever inode it has by now, and the    *)
(* file is closed.  A directory that refuses is given up on.                *)
Remove(p) ==
  /\ pc[p] = "unlocked"
  /\ pc' = [pc EXCEPT ![p] = "done"]
  /\ ino' = [ino EXCEPT ![p] = 0]
  /\ IF linked[PathOf(p)] # 0 /\ PathOf(p) \notin Unremovable
       THEN /\ linked' = [linked EXCEPT ![PathOf(p)] = 0]
            /\ removed' = removed \cup {PathOf(p)}
       ELSE UNCHANGED <<linked, removed>>
  /\ UNCHANGED <<cand, tries, fresh>>

(* The process is killed: no Drop runs, the kernel closes its file.         *)
Crash(p) ==
  /\ pc[p] \in {"opened", "holding", "unlocked"}
  /\ pc' = [pc EXCEPT ![p] = "crashed"]
  /\ ino' = [ino EXCEPT ![p] = 0]
  /\ UNCHANGED <<cand, tries, linked, fresh, removed>>

Acquire(p) ==
  Open(p) \/ TryLockOk(p) \/ TryLockWouldBlock(p) \/ CandidateFailed(p)

Terminal == {"done", "refused", "failed", "crashed"}

Terminated == /\ \A p \in Proc : pc[p] \in Terminal
              /\ UNCHANGED vars

Next ==
  \/ \E p \in Proc : Acquire(p) \/ Unlock(p) \/ Remove(p) \/ Crash(p)
  \/ Terminated

(* A process in its acquire call or in Drop keeps running unless killed; an *)
(* agent may hold the lock for ever, so Unlock has no fairness.             *)
Fairness == \A p \in Proc : WF_vars(Acquire(p)) /\ WF_vars(Remove(p))

Spec == Init /\ [][Next]_vars /\ Fairness

-----------------------------------------------------------------------------
(* Properties.                                                             *)

TypeOK ==
  /\ pc \in [Proc -> Stage]
  /\ cand \in [Proc -> Nat]
  /\ \A p \in Proc : cand[p] \in 1..Len(Candidates[p])
  /\ tries \in [Proc -> Nat]
  /\ \A p \in Proc : tries[p] <= Attempts[p]
  /\ ino \in [Proc -> Nat]
  /\ linked \in [Path -> Nat]
  /\ fresh \in Nat
  /\ removed \subseteq Path

Holders(f) == {p \in Proc : pc[p] = "holding" /\ PathOf(p) = f}

(* Until some guard has removed the lock file of a path, at most one        *)
(* process holds that path's lock, however the opens, locks, retries and    *)
(* crashes interleave: only remove_file in Drop can break exclusion.        *)
ExclusionUntilRemoval ==
  \A f \in Path \ removed : \A p, q \in Holders(f) : p = q

(* What the launcher promises ("A lightweight lock prevents multiple agents *)
(* from running concurrently", README.md:167): one holder per lock path.    *)
OneHolder == \A f \in Path : \A p, q \in Holders(f) : p = q

(* Nobody is turned away by a lock file alone: when a process is refused,   *)
(* a live process holds a lock of the same path, so the file left by a      *)
(* crash never blocks the next agent.                                       *)
RefusedOnlyByALiveHolder ==
  [][\A p \in Proc : pc[p] # "refused" /\ pc'[p] = "refused"
        => Holders(PathOf(p)) \ {p} # {}]_vars

(* As long as nobody is killed, a lock file that exists has somebody who is *)
(* going to remove it: no run leaves lock files behind.                     *)
NoLeftoverFile ==
  (\A p \in Proc : pc[p] # "crashed") =>
    \A f \in Path \ (Unlockable \cup Unremovable) :
      linked[f] # 0 =>
        \E p \in Proc :
          /\ PathOf(p) = f
          /\ \/ pc[p] = "opened" /\ ino[p] = linked[f]
             \/ pc[p] \in {"holding", "unlocked"}

(* An acquire call ends: the retries of the merge lock are bounded and the  *)
(* candidates run out.                                                      *)
AcquireEnds ==
  \A p \in Proc :
    (pc[p] \in {"start", "opened"}) ~> (pc[p] \notin {"start", "opened"})
=============================================================================
