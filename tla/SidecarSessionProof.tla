------------------------ MODULE SidecarSessionProof ------------------------
(***************************************************************************)
(* The theorems about the sidecars of a session, for any panes, toolchains,*)
(* images and bounds.                                                      *)
(*                                                                         *)
(* Each property needs its own part of the inductive invariant IInv, one   *)
(* for every launcher where it speaks of launchers:                        *)
(*   Placed    - only node's launcher is at the overlay or runs a script,  *)
(*               and a launch begins with the first kind;                  *)
(*   Provided  - a start has got every kind it is past: Running, or taken  *)
(*               away since.  An agent has got them all;                   *)
(*   Informed  - what a proxy has cached of a container that runs is so,   *)
(*               unless a probe timed out or the container is a later one; *)
(*   Emptied   - what a cleanup has removed is gone, when it is alone;     *)
(*   Alone     - until the second launch one launcher at most is out of    *)
(*               its shell;                                                *)
(*   Installing - without an excuse there is one installer at most, its    *)
(*               hash is that of the lockfile, and what it has installed is*)
(*               what it will store the hash of.                           *)
(*                                                                         *)
(* Most steps change one launcher and no container: they are treated alike *)
(* as a Move, and the four that stop a container as Stopping.              *)
(***************************************************************************)
EXTENDS SidecarSession, WellFoundedInduction, TLAPS

-----------------------------------------------------------------------------
(* The inductive invariant, launcher by launcher.                          *)

Scripts == {"hash", "install", "store"}

(* A pane where nothing runs remembers nothing, and only a start at node    *)
(* looks at the volume.                                                     *)
Placed(p) ==
  /\ pc(p) = "shell" => launcher[p].k = 1
  /\ pc(p) \in {"overlay"} \cup Scripts => At(p) = Node

(* A sidecar that was started, or taken away since.                         *)
Given(x) == Running(x) \/ x \in taken

(* The start of an agent leaves no kind behind.                             *)
Provided(p) ==
  /\ pc(p) \in {"proxy", "bind", "agent"} => \A x \in Kind : Given(x)
  /\ launcher[p].mode = "agent"
       /\ pc(p) \in {"network", "volumes", "inspect", "create", "again", "overlay",
                     "next"} \cup Scripts
     => \A j \in 1..(launcher[p].k - 1) : Given(Kinds[j])
  /\ launcher[p].mode = "agent" /\ pc(p) \in {"overlay", "next"} \cup Scripts
     => Given(At(p))

(* What a proxy has cached is so, unless it was spoilt.                     *)
Informed(p) ==
  /\ pc(p) # "agent" => launcher[p].cache = Unknown
  /\ ~launcher[p].spoilt =>
       /\ launcher[p].ran # "missed"
       /\ \A x \in Kind : launcher[p].cache[x] # "unknown" /\ Running(x)
                            => (launcher[p].cache[x] = "yes" <=> HasTool[sidecar[x].at][x])

(* A cleanup that nobody disturbs gets rid of everything.                   *)
Emptied(p) ==
  starts = 1 =>
    /\ pc(p) = "cleanup" => \A j \in 1..(launcher[p].k - 1) : ~Running(Kinds[j])
    /\ pc(p) \in {"removal", "failed"} => \A x \in Kind : ~Running(x)
    /\ pc(p) = "failed" => (launcher[p].isolated => ~network)

(* The first launcher is alone.                                            *)
Alone ==
  /\ starts = 0 => \A p \in Pane : pc(p) = "shell"
  /\ starts = 1 => \A p, q \in Pane : pc(p) # "shell" /\ pc(q) # "shell" => p = q

(* An install that has nothing to be excused for is the only one, and       *)
(* installs the lockfile whose hash it will store.                          *)
Installing ==
  ~excuse =>
    /\ \A p \in Pane : pc(p) = "install" => launcher[p].newHash = lockfile[Workspace]
    /\ \A p \in Pane : pc(p) = "store" => modules.lock = launcher[p].newHash
    /\ \A p, q \in Installers : p = q

IInv ==
  /\ TypeOK /\ Alone /\ Installing /\ OverlayIsCurrent /\ SocketIsOwn
  /\ \A p \in Pane : Placed(p) /\ Provided(p) /\ Informed(p) /\ Emptied(p)

-----------------------------------------------------------------------------
(* What a step does to the launchers.                                       *)

LauncherRecord ==
  [pc : Starting \cup {"shell", "agent"}, mode : {"agent", "tool"},
   k : DOMAIN Kinds, isolated : BOOLEAN, newHash : 0..MaxLock,
   cache : [Kind -> {"unknown", "yes", "no"}], spoilt : BOOLEAN,
   ran : {None, "missed"}, last : BOOLEAN]

Launchers == launcher \in [Pane -> LauncherRecord]

Others(p) == \A q \in Pane \ {p} : launcher'[q] = launcher[q]

(* What a launcher is for, and what its proxy and its agent remember.       *)
SameTask(p) ==
  /\ launcher'[p].mode = launcher[p].mode
  /\ launcher'[p].k = launcher[p].k
  /\ launcher'[p].isolated = launcher[p].isolated

SameMemory(p) ==
  /\ launcher'[p].cache = launcher[p].cache
  /\ launcher'[p].spoilt = launcher[p].spoilt
  /\ launcher'[p].ran = launcher[p].ran

(* Where p is may have changed, and nothing else of it.                     *)
OnlyMoves(p) ==
  /\ SameTask(p) /\ SameMemory(p)
  /\ launcher'[p].newHash = launcher[p].newHash
  /\ launcher'[p].last = launcher[p].last

(* The launchers by themselves.                                             *)
LEMMA TypedLaunchers == TypeOK => Launchers
  BY DEF TypeOK, Launchers, LauncherRecord

(* The kinds, in their order: every one has an index.                       *)
LEMMA KindsType ==
  /\ Kinds \in Seq(Kind)
  /\ Len(Kinds) \in Nat /\ Len(Kinds) > 0
  /\ DOMAIN Kinds = 1..Len(Kinds)
  /\ \A i \in DOMAIN Kinds : Kinds[i] \in Kind
  /\ \A x \in Kind : \E i \in DOMAIN Kinds : Kinds[i] = x
<1>1. Kinds \in Seq(Kind)
  BY SessionAssumption
<1>2. \A x \in Kind : \E i \in DOMAIN Kinds : Kinds[i] = x
  BY DEF Kind, ToSet
<1>3. Kinds # <<>>
  BY SessionAssumption
<1>4. QED
  BY <1>1, <1>2, <1>3

(* One launcher's record is replaced.                                       *)
LEMMA OneChanges ==
  ASSUME Launchers, NEW p \in Pane, NEW r \in LauncherRecord,
         launcher' = [launcher EXCEPT ![p] = r]
  PROVE  Launchers' /\ launcher'[p] = r /\ Others(p)
  BY DEF Launchers, Others

(* A launcher goes somewhere, and nothing else of it changes.               *)
LEMMA GotoEffect ==
  ASSUME Launchers, NEW p \in Pane, NEW there \in Starting \cup {"shell", "agent"},
         Goto(p, there)
  PROVE  Launchers' /\ pc(p)' = there /\ OnlyMoves(p) /\ Others(p)
<1> DEFINE r == [launcher[p] EXCEPT !.pc = there]
<1>1. launcher[p] \in LauncherRecord
  BY DEF Launchers
<1>2. /\ r \in LauncherRecord /\ r.pc = there /\ r.mode = launcher[p].mode
      /\ r.k = launcher[p].k /\ r.isolated = launcher[p].isolated
      /\ r.newHash = launcher[p].newHash /\ r.cache = launcher[p].cache
      /\ r.spoilt = launcher[p].spoilt /\ r.ran = launcher[p].ran
      /\ r.last = launcher[p].last
  BY <1>1 DEF LauncherRecord
<1>3. launcher' = [launcher EXCEPT ![p] = r]
  BY DEF Goto
<1> HIDE DEF r
<1>4. Launchers' /\ launcher'[p] = r /\ Others(p)
  BY <1>2, <1>3, OneChanges
<1>5. QED
  BY <1>2, <1>4 DEF pc, OnlyMoves, SameTask, SameMemory

(* A launcher returns.                                                      *)
LEMMA ExitEffect ==
  ASSUME Launchers, NEW p \in Pane, Exit(p)
  PROVE  Launchers' /\ launcher'[p] = Idle /\ Others(p)
<1>1. Idle \in LauncherRecord
  BY KindsType, SessionAssumption DEF Idle, LauncherRecord, Unknown, None
<1>2. launcher' = [launcher EXCEPT ![p] = Idle]
  BY DEF Exit
<1>3. QED
  BY <1>1, <1>2, OneChanges

(* A launch, of an agent or of toolchain_run.                               *)
LEMMA LaunchEffect ==
  ASSUME Launchers, NEW p \in Pane, Placed(p), Launch(p)
  PROVE  /\ Launchers' /\ Others(p) /\ pc(p) = "shell" /\ pc(p)' = "network"
         /\ SameMemory(p) /\ launcher'[p].last = launcher[p].last
         /\ launcher'[p].mode = "agent" => launcher'[p].k = 1
<1>1. launcher[p] \in LauncherRecord /\ launcher[p].k = 1
  BY DEF Launchers, Placed, Launch
<1>2. ASSUME NEW isolated \in BOOLEAN,
             launcher' = [launcher EXCEPT ![p] = [launcher[p] EXCEPT !.pc = "network", !.isolated = isolated]]
      PROVE  /\ Launchers' /\ Others(p) /\ pc(p)' = "network"
             /\ SameMemory(p) /\ launcher'[p].last = launcher[p].last
             /\ launcher'[p].k = 1
  <2> DEFINE r == [launcher[p] EXCEPT !.pc = "network", !.isolated = isolated]
  <2>1. /\ r \in LauncherRecord /\ r.pc = "network" /\ r.k = 1 /\ r.last = launcher[p].last
        /\ r.cache = launcher[p].cache /\ r.spoilt = launcher[p].spoilt
        /\ r.ran = launcher[p].ran
    BY <1>1 DEF LauncherRecord, Starting
  <2>2. launcher' = [launcher EXCEPT ![p] = r]
    BY <1>2
  <2> HIDE DEF r
  <2>3. QED
    BY <2>1, <2>2, OneChanges DEF pc, SameMemory
<1>3. ASSUME NEW i \in DOMAIN Kinds,
             launcher' = [launcher EXCEPT ![p] = [launcher[p] EXCEPT !.pc = "network", !.mode = "tool", !.k = i]]
      PROVE  /\ Launchers' /\ Others(p) /\ pc(p)' = "network"
             /\ SameMemory(p) /\ launcher'[p].last = launcher[p].last
             /\ launcher'[p].mode = "tool"
  <2> DEFINE r == [launcher[p] EXCEPT !.pc = "network", !.mode = "tool", !.k = i]
  <2>1. /\ r \in LauncherRecord /\ r.pc = "network" /\ r.mode = "tool"
        /\ r.last = launcher[p].last /\ r.cache = launcher[p].cache
        /\ r.spoilt = launcher[p].spoilt /\ r.ran = launcher[p].ran
    BY <1>1 DEF LauncherRecord, Starting
  <2>2. launcher' = [launcher EXCEPT ![p] = r]
    BY <1>3
  <2> HIDE DEF r
  <2>3. QED
    BY <2>1, <2>2, OneChanges DEF pc, SameMemory
<1>4. QED
  BY <1>2, <1>3 DEF Launch

(* The network decides how the sidecars will be attached.                   *)
LEMMA ChooseNetworkEffect ==
  ASSUME Launchers, NEW p \in Pane, ChooseNetwork(p)
  PROVE  /\ Launchers' /\ Others(p) /\ pc(p) = "network" /\ pc(p)' = "volumes"
         /\ SameMemory(p)
         /\ launcher'[p].last = launcher[p].last
         /\ launcher'[p].mode = launcher[p].mode /\ launcher'[p].k = launcher[p].k
<1>1. launcher[p] \in LauncherRecord
  BY DEF Launchers
<1>2. PICK made \in BOOLEAN :
        launcher' = [launcher EXCEPT ![p] = [launcher[p] EXCEPT !.pc = "volumes", !.isolated = made]]
  BY DEF ChooseNetwork
<1> DEFINE r == [launcher[p] EXCEPT !.pc = "volumes", !.isolated = made]
<1>3. /\ r \in LauncherRecord /\ r.pc = "volumes" /\ r.k = launcher[p].k
      /\ r.mode = launcher[p].mode /\ r.last = launcher[p].last
      /\ r.cache = launcher[p].cache /\ r.spoilt = launcher[p].spoilt
      /\ r.ran = launcher[p].ran
  BY <1>1 DEF LauncherRecord, Starting
<1>4. launcher' = [launcher EXCEPT ![p] = r]
  BY <1>2
<1> HIDE DEF r
<1>5. QED
  BY <1>3, <1>4, OneChanges DEF pc, SameMemory, ChooseNetwork

(* A hash that is not the stored one is remembered for the store.           *)
LEMMA InstallEffect ==
  ASSUME Launchers, NEW p \in Pane, NEW h \in 0..MaxLock,
         launcher' = [launcher EXCEPT ![p].pc = "install", ![p].newHash = h]
  PROVE  /\ Launchers' /\ Others(p) /\ pc(p)' = "install" /\ launcher'[p].newHash = h
         /\ SameTask(p) /\ SameMemory(p) /\ launcher'[p].last = launcher[p].last
<1>1. launcher[p] \in LauncherRecord
  BY DEF Launchers
<1> DEFINE r == [launcher[p] EXCEPT !.pc = "install", !.newHash = h]
<1>2. /\ r \in LauncherRecord /\ r.pc = "install" /\ r.newHash = h /\ r.k = launcher[p].k
      /\ r.mode = launcher[p].mode /\ r.isolated = launcher[p].isolated
      /\ r.cache = launcher[p].cache /\ r.spoilt = launcher[p].spoilt
      /\ r.ran = launcher[p].ran /\ r.last = launcher[p].last
  BY <1>1 DEF LauncherRecord, Starting
<1>3. launcher' = [launcher EXCEPT ![p] = r]
  OBVIOUS
<1> HIDE DEF r
<1>4. QED
  BY <1>2, <1>3, OneChanges DEF pc, SameTask, SameMemory

(* The hash is forgotten once it is stored.                                 *)
LEMMA StoreHashEffect ==
  ASSUME Launchers, NEW p \in Pane, StoreHash(p)
  PROVE  /\ Launchers' /\ Others(p) /\ pc(p)' = "next"
         /\ SameTask(p) /\ SameMemory(p) /\ launcher'[p].last = launcher[p].last
<1>0. 0 \in 0..MaxLock
  BY SessionAssumption
<1>1. launcher[p] \in LauncherRecord
  BY DEF Launchers
<1> DEFINE r == [launcher[p] EXCEPT !.pc = "next", !.newHash = 0]
<1>2. /\ r \in LauncherRecord /\ r.pc = "next" /\ r.k = launcher[p].k
      /\ r.mode = launcher[p].mode /\ r.isolated = launcher[p].isolated
      /\ r.cache = launcher[p].cache /\ r.spoilt = launcher[p].spoilt
      /\ r.ran = launcher[p].ran /\ r.last = launcher[p].last
  BY <1>0, <1>1 DEF LauncherRecord, Starting
<1>3. launcher' = [launcher EXCEPT ![p] = r]
  BY DEF StoreHash
<1> HIDE DEF r
<1>4. QED
  BY <1>2, <1>3, OneChanges DEF pc, SameTask, SameMemory

(* A launcher that goes on to another kind, or to the cleanup of the first. *)
LEMMA KindEffect ==
  ASSUME Launchers, NEW p \in Pane, NEW there \in Starting, NEW k \in DOMAIN Kinds,
         launcher' = [launcher EXCEPT ![p].pc = there, ![p].k = k]
  PROVE  /\ Launchers' /\ Others(p) /\ pc(p)' = there /\ launcher'[p].k = k
         /\ SameMemory(p) /\ launcher'[p].last = launcher[p].last
         /\ launcher'[p].mode = launcher[p].mode
         /\ launcher'[p].isolated = launcher[p].isolated
<1>1. launcher[p] \in LauncherRecord
  BY DEF Launchers
<1> DEFINE r == [launcher[p] EXCEPT !.pc = there, !.k = k]
<1>2. /\ r \in LauncherRecord /\ r.pc = there /\ r.k = k
      /\ r.mode = launcher[p].mode /\ r.isolated = launcher[p].isolated
      /\ r.cache = launcher[p].cache /\ r.spoilt = launcher[p].spoilt
      /\ r.ran = launcher[p].ran /\ r.last = launcher[p].last
  BY <1>1 DEF LauncherRecord
<1>3. launcher' = [launcher EXCEPT ![p] = r]
  OBVIOUS
<1> HIDE DEF r
<1>4. QED
  BY <1>2, <1>3, OneChanges DEF pc, SameMemory

(* A launcher whose place, task and hash are the same as before.            *)
Stays(q) ==
  /\ pc(q)' = pc(q)
  /\ SameTask(q)
  /\ launcher'[q].newHash = launcher[q].newHash

(* Whoever does not change is where they were.                              *)
LEMMA OthersStay ==
  ASSUME NEW p \in Pane, Others(p)
  PROVE  \A q \in Pane \ {p} : Stays(q) /\ SameMemory(q) /\ launcher'[q].last = launcher[q].last
  BY DEF Others, Stays, SameTask, SameMemory, pc

(* A new container overtakes the proxies that know the one before it.       *)
LEMMA CreateEffect ==
  ASSUME Launchers, NEW p \in Pane, Create(p)
  PROVE  /\ Launchers' /\ pc(p)' = Afterwards(p, TRUE) /\ OnlyMoves(p)
         /\ \A q \in Pane \ {p} :
              /\ Stays(q)
              /\ launcher'[q].last = launcher[q].last
              /\ launcher'[q].cache = launcher[q].cache
              /\ launcher'[q].ran = launcher[q].ran
              /\ launcher'[q].spoilt = (launcher[q].spoilt \/ launcher[q].cache[At(p)] # "unknown")
<1>1. \A q \in Pane : launcher[q] \in LauncherRecord
  BY DEF Launchers
<1> DEFINE r == [launcher[p] EXCEPT !.pc = Afterwards(p, TRUE)]
           o(q) == [launcher[q] EXCEPT !.spoilt = launcher[q].spoilt \/ launcher[q].cache[At(p)] # "unknown"]
<1>2. /\ r \in LauncherRecord /\ r.pc = Afterwards(p, TRUE) /\ r.mode = launcher[p].mode
      /\ r.k = launcher[p].k /\ r.isolated = launcher[p].isolated
      /\ r.newHash = launcher[p].newHash /\ r.cache = launcher[p].cache
      /\ r.spoilt = launcher[p].spoilt /\ r.ran = launcher[p].ran
      /\ r.last = launcher[p].last
  <2>1. Afterwards(p, TRUE) \in Starting
    BY DEF Afterwards, Starting
  <2>2. QED
    BY <1>1, <2>1 DEF LauncherRecord
<1>3. ASSUME NEW q \in Pane
      PROVE  /\ o(q) \in LauncherRecord /\ o(q).pc = launcher[q].pc
             /\ o(q).mode = launcher[q].mode
             /\ o(q).k = launcher[q].k /\ o(q).isolated = launcher[q].isolated
             /\ o(q).newHash = launcher[q].newHash /\ o(q).cache = launcher[q].cache
             /\ o(q).spoilt = (launcher[q].spoilt \/ launcher[q].cache[At(p)] # "unknown")
             /\ o(q).ran = launcher[q].ran
             /\ o(q).last = launcher[q].last
  <2> DEFINE b == launcher[q].spoilt \/ launcher[q].cache[At(p)] # "unknown"
  <2>1. b \in BOOLEAN
    BY <1>1 DEF LauncherRecord
  <2>2. o(q) = [launcher[q] EXCEPT !.spoilt = b]
    OBVIOUS
  <2> HIDE DEF b
  <2>3. /\ o(q) \in LauncherRecord /\ o(q).pc = launcher[q].pc
        /\ o(q).mode = launcher[q].mode
        /\ o(q).k = launcher[q].k /\ o(q).isolated = launcher[q].isolated
        /\ o(q).newHash = launcher[q].newHash /\ o(q).cache = launcher[q].cache
        /\ o(q).spoilt = b /\ o(q).ran = launcher[q].ran
        /\ o(q).last = launcher[q].last
    BY <1>1, <2>1, <2>2 DEF LauncherRecord
  <2>4. QED
    BY <2>3 DEF b
<1>4. launcher' = [q \in Pane |-> IF q = p THEN r ELSE o(q)]
  BY DEF Create
<1> HIDE DEF r, o
<1>5. launcher'[p] = r /\ \A q \in Pane \ {p} : launcher'[q] = o(q)
  BY <1>4
<1>6. Launchers'
  BY <1>2, <1>3, <1>4 DEF Launchers
<1>7. pc(p)' = Afterwards(p, TRUE) /\ OnlyMoves(p)
  BY <1>2, <1>5 DEF pc, OnlyMoves, SameTask, SameMemory
<1>8. ASSUME NEW q \in Pane \ {p}
      PROVE  /\ Stays(q)
             /\ launcher'[q].last = launcher[q].last
             /\ launcher'[q].cache = launcher[q].cache
             /\ launcher'[q].ran = launcher[q].ran
             /\ launcher'[q].spoilt = (launcher[q].spoilt \/ launcher[q].cache[At(p)] # "unknown")
  <2>1. launcher'[q] = o(q)
    BY <1>5
  <2>2. QED
    BY <1>3, <2>1 DEF pc, Stays, SameTask
<1>9. QED
  BY <1>6, <1>7, <1>8

(* Every other proxy loses the socket's path.                               *)
LEMMA RemoveSocketEffect ==
  ASSUME Launchers, NEW p \in Pane, RemoveSocket(p)
  PROVE  /\ Launchers' /\ pc(p)' = "bind" /\ SameMemory(p)
         /\ \A q \in Pane \ {p} : Stays(q) /\ SameMemory(q) /\ launcher'[q].last = FALSE
<1>1. \A q \in Pane : launcher[q] \in LauncherRecord
  BY DEF Launchers
<1> DEFINE r == [launcher[p] EXCEPT !.pc = "bind"]
           o(q) == [launcher[q] EXCEPT !.last = FALSE]
<1>2. /\ r \in LauncherRecord /\ r.pc = "bind" /\ r.cache = launcher[p].cache
      /\ r.spoilt = launcher[p].spoilt /\ r.ran = launcher[p].ran
  BY <1>1 DEF LauncherRecord, Starting
<1>3. ASSUME NEW q \in Pane
      PROVE  /\ o(q) \in LauncherRecord /\ o(q).pc = launcher[q].pc
             /\ o(q).mode = launcher[q].mode
             /\ o(q).k = launcher[q].k /\ o(q).isolated = launcher[q].isolated
             /\ o(q).newHash = launcher[q].newHash /\ o(q).cache = launcher[q].cache
             /\ o(q).spoilt = launcher[q].spoilt
             /\ o(q).ran = launcher[q].ran
             /\ o(q).last = FALSE
  BY <1>1 DEF LauncherRecord
<1>4. launcher' = [q \in Pane |-> IF q = p THEN r ELSE o(q)]
  BY DEF RemoveSocket
<1> HIDE DEF r, o
<1>5. launcher'[p] = r /\ \A q \in Pane \ {p} : launcher'[q] = o(q)
  BY <1>4
<1>6. Launchers'
  BY <1>2, <1>3, <1>4 DEF Launchers
<1>7. pc(p)' = "bind" /\ SameMemory(p)
  BY <1>2, <1>5 DEF pc, SameMemory
<1>8. ASSUME NEW q \in Pane \ {p}
      PROVE  Stays(q) /\ SameMemory(q) /\ launcher'[q].last = FALSE
  <2>1. launcher'[q] = o(q)
    BY <1>5
  <2>2. QED
    BY <1>3, <2>1 DEF pc, Stays, SameTask, SameMemory
<1>9. QED
  BY <1>6, <1>7, <1>8

(* A proxy that has bound the path serves an agent.                         *)
LEMMA StartProxyEffect ==
  ASSUME Launchers, NEW p \in Pane, StartProxy(p)
  PROVE  Launchers' /\ Others(p) /\ pc(p)' = "agent" /\ SameMemory(p)
<1> DEFINE r == [launcher[p] EXCEPT !.pc = "agent", !.k = 1, !.last = TRUE]
<1>1. launcher[p] \in LauncherRecord /\ 1 \in DOMAIN Kinds
  BY KindsType DEF Launchers
<1>2. /\ r \in LauncherRecord /\ r.pc = "agent" /\ r.cache = launcher[p].cache
      /\ r.spoilt = launcher[p].spoilt /\ r.ran = launcher[p].ran
  BY <1>1 DEF LauncherRecord
<1>3. launcher' = [launcher EXCEPT ![p] = r]
  BY DEF StartProxy
<1> HIDE DEF r
<1>4. QED
  BY <1>2, <1>3, OneChanges DEF pc, SameMemory

(* The two steps of a proxy on its way to its socket, alike.                *)
ToSocket(p) == RemoveSocket(p) \/ StartProxy(p)

(* They keep what the launchers remember, and move none but p.              *)
LEMMA ToSocketEffect ==
  ASSUME Launchers, NEW p \in Pane, ToSocket(p)
  PROVE  /\ Launchers' /\ SameMemory(p)
         /\ pc(p) \in {"proxy", "bind"} /\ pc(p)' \in {"bind", "agent"}
         /\ \A q \in Pane \ {p} : Stays(q) /\ SameMemory(q)
         /\ UNCHANGED <<starts, containers, network, volume>>
<1>1. CASE RemoveSocket(p)
  BY <1>1, RemoveSocketEffect DEF RemoveSocket
<1>2. CASE StartProxy(p)
  <2>1. Launchers' /\ Others(p) /\ pc(p)' = "agent" /\ SameMemory(p)
    BY <1>2, StartProxyEffect
  <2>2. \A q \in Pane \ {p} : Stays(q) /\ SameMemory(q)
    BY <2>1 DEF Others, Stays, SameTask, SameMemory, pc
  <2>3. QED
    BY <1>2, <2>1, <2>2 DEF StartProxy
<1>3. QED
  BY <1>1, <1>2 DEF ToSocket

(* An agent ends, and with its proxy the socket of everyone.                *)
LEMMA EndAgentEffect ==
  ASSUME Launchers, NEW p \in Pane, EndAgent(p)
  PROVE  /\ Launchers' /\ launcher'[p] = Idle
         /\ \A q \in Pane \ {p} : Stays(q) /\ SameMemory(q) /\ launcher'[q].last = FALSE
<1>1. \A q \in Pane : launcher[q] \in LauncherRecord
  BY DEF Launchers
<1> DEFINE o(q) == [launcher[q] EXCEPT !.last = FALSE]
<1>2. Idle \in LauncherRecord
  BY KindsType, SessionAssumption DEF Idle, LauncherRecord, Unknown, None
<1>3. ASSUME NEW q \in Pane
      PROVE  /\ o(q) \in LauncherRecord /\ o(q).pc = launcher[q].pc
             /\ o(q).mode = launcher[q].mode
             /\ o(q).k = launcher[q].k /\ o(q).isolated = launcher[q].isolated
             /\ o(q).newHash = launcher[q].newHash /\ o(q).cache = launcher[q].cache
             /\ o(q).spoilt = launcher[q].spoilt
             /\ o(q).ran = launcher[q].ran
             /\ o(q).last = FALSE
  BY <1>1 DEF LauncherRecord
<1>4. launcher' = [q \in Pane |-> IF q = p THEN Idle ELSE o(q)]
  BY DEF EndAgent
<1> HIDE DEF o
<1>5. launcher'[p] = Idle /\ \A q \in Pane \ {p} : launcher'[q] = o(q)
  BY <1>4
<1>6. Launchers'
  BY <1>2, <1>3, <1>4 DEF Launchers
<1>7. ASSUME NEW q \in Pane \ {p}
      PROVE  Stays(q) /\ SameMemory(q) /\ launcher'[q].last = FALSE
  <2>1. launcher'[q] = o(q)
    BY <1>5
  <2>2. QED
    BY <1>3, <2>1 DEF pc, Stays, SameTask, SameMemory
<1>8. QED
  BY <1>5, <1>6, <1>7

(* A container that stops: a script in it ends, everyone else is where      *)
(* "then" puts them.                                                        *)
LEMMA StopEffect ==
  ASSUME Launchers, NEW x \in Kind, NEW then \in [Pane -> LauncherRecord], Stop(x, then)
  PROVE  /\ Launchers'
         /\ \A q \in Pane :
              /\ ~(x = Node /\ pc(q) \in Scripts) => launcher'[q] = then[q]
              /\ x = Node /\ pc(q) \in Scripts /\ then[q] = launcher[q] =>
                   /\ pc(q)' = "next" /\ SameTask(q) /\ SameMemory(q)
                   /\ launcher'[q].last = launcher[q].last
<1>0. 0 \in 0..MaxLock
  BY SessionAssumption
<1> DEFINE o(q) == [then[q] EXCEPT !.pc = "next", !.newHash = 0]
           hit(q) == x = Node /\ pc(q) \in Scripts
<1>1. ASSUME NEW q \in Pane
      PROVE  /\ o(q) \in LauncherRecord /\ o(q).pc = "next" /\ o(q).mode = then[q].mode
             /\ o(q).k = then[q].k /\ o(q).isolated = then[q].isolated
             /\ o(q).cache = then[q].cache /\ o(q).spoilt = then[q].spoilt
             /\ o(q).ran = then[q].ran /\ o(q).last = then[q].last
  <2>1. then[q] \in LauncherRecord
    OBVIOUS
  <2>2. QED
    BY <1>0, <2>1 DEF LauncherRecord, Starting
<1>2. launcher' = [q \in Pane |-> IF hit(q) THEN o(q) ELSE then[q]]
  BY DEF Stop, Scripts
<1> HIDE DEF o
<1>3. Launchers'
  BY <1>1, <1>2 DEF Launchers
<1>4. ASSUME NEW q \in Pane
      PROVE  /\ ~hit(q) => launcher'[q] = then[q]
             /\ hit(q) /\ then[q] = launcher[q] =>
                   /\ pc(q)' = "next" /\ SameTask(q) /\ SameMemory(q)
                   /\ launcher'[q].last = launcher[q].last
  BY <1>1, <1>2 DEF pc, SameTask, SameMemory
<1>5. QED
  BY <1>3, <1>4

(* The four who stop a container, alike: nobody but p, if anybody, is       *)
(* elsewhere, and p is at its end.                                          *)
Stopping(x, then) ==
  /\ then \in [Pane -> LauncherRecord]
  /\ Stop(x, then)
  /\ UNCHANGED <<starts, network, socket>>
  /\ \A p \in Pane : then[p] # launcher[p] =>
       \/ then[p] = Idle /\ pc(p) = "exec"
       \/ /\ x = At(p) /\ pc(p) = "cleanup"
          /\ then[p].mode = launcher[p].mode /\ then[p].isolated = launcher[p].isolated
          /\ then[p].cache = launcher[p].cache /\ then[p].spoilt = launcher[p].spoilt
          /\ then[p].ran = launcher[p].ran
          /\ \/ /\ launcher[p].k < Len(Kinds)
                /\ then[p].k = launcher[p].k + 1 /\ then[p].pc = "cleanup"
             \/ ~(launcher[p].k < Len(Kinds)) /\ then[p].pc = "removal"

(* toolchain_run stops its sidecar.                                         *)
LEMMA EndToolStops ==
  ASSUME Launchers, NEW p \in Pane, EndTool(p)
  PROVE  At(p) \in Kind /\ \E then : Stopping(At(p), then)
<1> DEFINE then == [launcher EXCEPT ![p] = Idle]
<1>1. Idle \in LauncherRecord
  BY KindsType, SessionAssumption DEF Idle, LauncherRecord, Unknown, None
<1>2. then \in [Pane -> LauncherRecord] /\ \A q \in Pane : then[q] # launcher[q] => q = p /\ then[q] = Idle
  BY <1>1 DEF Launchers
<1>3. Stop(At(p), then) /\ UNCHANGED <<starts, network, socket>> /\ pc(p) = "exec"
  BY DEF EndTool
<1>4. At(p) \in Kind
  BY KindsType DEF Launchers, LauncherRecord, At
<1> HIDE DEF then
<1>5. QED
  BY <1>2, <1>3, <1>4 DEF Stopping

(* A failed start stops one sidecar after the other.                        *)
LEMMA CleanupSidecarStops ==
  ASSUME Launchers, NEW p \in Pane, CleanupSidecar(p)
  PROVE  At(p) \in Kind /\ \E then : Stopping(At(p), then)
<1>1. launcher[p] \in LauncherRecord
  BY DEF Launchers
<1> DEFINE r == IF launcher[p].k < Len(Kinds) THEN [launcher[p] EXCEPT !.k = launcher[p].k + 1]
                ELSE [launcher[p] EXCEPT !.pc = "removal"]
           then == IF launcher[p].k < Len(Kinds) THEN [launcher EXCEPT ![p].k = @ + 1]
                   ELSE [launcher EXCEPT ![p].pc = "removal"]
<1>2. /\ r \in LauncherRecord /\ r.mode = launcher[p].mode
      /\ r.isolated = launcher[p].isolated /\ r.cache = launcher[p].cache
      /\ r.spoilt = launcher[p].spoilt /\ r.ran = launcher[p].ran
      /\ launcher[p].k < Len(Kinds) => r.k = launcher[p].k + 1 /\ r.pc = launcher[p].pc
      /\ ~(launcher[p].k < Len(Kinds)) => r.pc = "removal"
  <2>1. CASE launcher[p].k < Len(Kinds)
    <3>1. r = [launcher[p] EXCEPT !.k = launcher[p].k + 1]
      BY <2>1
    <3>2. launcher[p].k + 1 \in DOMAIN Kinds
      BY <1>1, <2>1, KindsType DEF LauncherRecord
    <3> HIDE DEF r
    <3>3. QED
      BY <1>1, <2>1, <3>1, <3>2 DEF LauncherRecord
  <2>2. CASE ~(launcher[p].k < Len(Kinds))
    <3>1. r = [launcher[p] EXCEPT !.pc = "removal"]
      BY <2>2
    <3> HIDE DEF r
    <3>2. QED
      BY <1>1, <2>2, <3>1 DEF LauncherRecord, Starting
  <2>3. QED
    BY <2>1, <2>2
<1>3. Stop(At(p), then) /\ UNCHANGED <<starts, network, socket>> /\ pc(p) = "cleanup"
  BY DEF CleanupSidecar
<1>4. At(p) \in Kind
  BY KindsType DEF Launchers, LauncherRecord, At
<1>0. then = [launcher EXCEPT ![p] = r]
  OBVIOUS
<1> HIDE DEF r, then
<1>5. then \in [Pane -> LauncherRecord] /\ then[p] = r
      /\ \A q \in Pane : then[q] # launcher[q] => q = p
  BY <1>0, <1>2 DEF Launchers
<1>6. \A q \in Pane : then[q] # launcher[q] =>
          /\ At(p) = At(q) /\ pc(q) = "cleanup"
          /\ then[q].mode = launcher[q].mode /\ then[q].isolated = launcher[q].isolated
          /\ then[q].cache = launcher[q].cache /\ then[q].spoilt = launcher[q].spoilt
          /\ then[q].ran = launcher[q].ran
          /\ \/ /\ launcher[q].k < Len(Kinds)
                /\ then[q].k = launcher[q].k + 1 /\ then[q].pc = "cleanup"
             \/ ~(launcher[q].k < Len(Kinds)) /\ then[q].pc = "removal"
  BY <1>2, <1>3, <1>5 DEF pc
<1>7. Stopping(At(p), then)
  BY <1>3, <1>5, <1>6 DEF Stopping
<1>8. QED
  BY <1>4, <1>7

(* "fork clean", and a container that ends by itself.                       *)
LEMMA OutsiderStops ==
  ASSUME Launchers
  PROVE  /\ CleanStops => \E x \in Kind : Stopping(x, launcher)
         /\ \A x \in Kind : SidecarDies(x) => Stopping(x, launcher)
<1>1. launcher \in [Pane -> LauncherRecord]
  BY DEF Launchers
<1>2. ASSUME CleanStops PROVE \E x \in Kind : Stopping(x, launcher)
  BY <1>1, <1>2, KindsType DEF CleanStops, Stopping
<1>3. ASSUME NEW x \in Kind, SidecarDies(x) PROVE Stopping(x, launcher)
  BY <1>1, <1>3 DEF SidecarDies, Stopping
<1>4. QED
  BY <1>2, <1>3

-----------------------------------------------------------------------------
(* The steps of one launcher that touch neither the containers nor the      *)
(* socket, and that an agent at work does not take.                         *)
Move(p) ==
  \/ Launch(p) \/ ChooseNetwork(p) \/ InitVolumes(p) \/ Inspect(p) \/ CreateFails(p)
  \/ LookAgain(p) \/ Guard(p) \/ ReadHash(p) \/ Install(p) \/ StoreHash(p) \/ NextKind(p)
  \/ StartProxyFails(p) \/ RemoveNetwork(p) \/ Failed(p) \/ Killed(p)

(* What a pane does is a move, or one of eight other steps.                 *)
LEMMA StepKinds ==
  ASSUME NEW p \in Pane, Launch(p) \/ Step(p) \/ EndAgent(p) \/ Killed(p) \/ RunMake(p)
                           \/ EditLockfile(p)
  PROVE  Move(p) \/ Create(p) \/ ToSocket(p) \/ EndTool(p) \/ CleanupSidecar(p)
           \/ EndAgent(p) \/ RunMake(p) \/ EditLockfile(p)
  BY DEF Step, Move, ToSocket

(* Only node has an overlay to see to.                                      *)
LEMMA AfterwardsIs ==
  ASSUME NEW p \in Pane, NEW created \in BOOLEAN
  PROVE  /\ Afterwards(p, created) \in {"overlay", "next"}
         /\ Afterwards(p, created) = "overlay" => At(p) = Node
  BY DEF Afterwards

(* A script runs in a container, which has some pane's clone mounted.       *)
LEMMA WorkspaceTyped ==
  ASSUME TypeOK, NEW p \in Pane, Placed(p), pc(p) \in Scripts
  PROVE  Node \in Kind /\ Running(Node) /\ Workspace \in Pane
         /\ lockfile[Workspace] \in 1..MaxLock /\ lockfile[Workspace] \in 0..MaxLock
<1>1. At(p) = Node /\ Running(Node)
  BY DEF Placed, TypeOK, Scripts
<1>2. Node \in Kind
  <2>1. Launchers
    BY TypedLaunchers
  <2>2. launcher[p].k \in DOMAIN Kinds
    BY <2>1 DEF Launchers, LauncherRecord
  <2>3. QED
    BY <1>1, <2>2, KindsType DEF At
<1>3. Workspace \in Pane
  BY <1>1, <1>2 DEF TypeOK, Running, Workspace
<1>4. lockfile[Workspace] \in 1..MaxLock
  BY <1>3 DEF TypeOK
<1>5. MaxLock \in Nat
  BY SessionAssumption
<1>6. QED
  BY <1>1, <1>2, <1>3, <1>4, <1>5

(* A moving launcher is back in the shell, or remembers what it did.        *)
LEMMA MoveEffect ==
  ASSUME TypeOK, NEW p \in Pane, Placed(p), Move(p)
  PROVE  /\ Launchers' /\ Others(p) /\ UNCHANGED <<containers, socket>>
         /\ \/ launcher'[p] = Idle /\ pc(p) \notin Scripts
            \/ /\ SameMemory(p) /\ launcher'[p].last = launcher[p].last
               /\ pc(p) # "agent" /\ pc(p)' \in Starting
<1>0. Launchers
  BY TypedLaunchers
<1>1. CASE Launch(p)
  BY <1>0, <1>1, LaunchEffect DEF Launch, Starting
<1>2. CASE ChooseNetwork(p)
  BY <1>0, <1>2, ChooseNetworkEffect DEF ChooseNetwork, Starting
<1>3. ASSUME NEW there \in Starting, Goto(p, there), pc(p) # "agent",
             UNCHANGED <<containers, socket>>
      PROVE  /\ Launchers' /\ Others(p) /\ UNCHANGED <<containers, socket>>
             /\ SameMemory(p) /\ launcher'[p].last = launcher[p].last
             /\ pc(p) # "agent" /\ pc(p)' \in Starting
  <2>1. Launchers' /\ pc(p)' = there /\ OnlyMoves(p) /\ Others(p)
    BY <1>0, <1>3, GotoEffect
  <2>2. QED
    BY <1>3, <2>1 DEF OnlyMoves
<1>4. CASE InitVolumes(p)
  BY <1>3, <1>4 DEF InitVolumes, Starting
<1>5. CASE Inspect(p)
  <2>1. (IF Running(At(p)) THEN Afterwards(p, FALSE) ELSE "create") \in Starting
    BY AfterwardsIs DEF Starting
  <2>2. QED
    BY <1>3, <1>5, <2>1 DEF Inspect
<1>6. CASE CreateFails(p)
  BY <1>3, <1>6 DEF CreateFails, Starting
<1>7. CASE LookAgain(p)
  <2>1. CASE Running(At(p))
    <3>1. Afterwards(p, TRUE) \in Starting
      BY AfterwardsIs DEF Starting
    <3>2. QED
      BY <1>3, <1>7, <2>1, <3>1 DEF LookAgain
  <2>2. CASE ~Running(At(p))
    BY <1>0, <1>7, <2>2, ExitEffect DEF LookAgain, Scripts
  <2>3. QED
    BY <2>1, <2>2
<1>8. CASE Guard(p)
  <2>1. CASE Goto(p, IF Running(Node) THEN "hash" ELSE "next")
    <3>1. (IF Running(Node) THEN "hash" ELSE "next") \in Starting
      BY DEF Starting
    <3>2. QED
      BY <1>3, <1>8, <2>1, <3>1 DEF Guard
  <2>2. CASE Exit(p)
    BY <1>0, <1>8, <2>2, ExitEffect DEF Guard, Scripts
  <2>3. QED
    BY <1>8, <2>1, <2>2 DEF Guard
<1>9. CASE NextKind(p)
  <2>1. CASE launcher[p].mode = "tool"
    BY <1>3, <1>9, <2>1 DEF NextKind, Starting
  <2>2. CASE launcher[p].mode # "tool" /\ launcher[p].k < Len(Kinds)
    <3>1. launcher[p].k + 1 \in DOMAIN Kinds
      BY <1>0, <2>2, KindsType DEF Launchers, LauncherRecord
    <3>2. "volumes" \in Starting
      BY DEF Starting
    <3>3. launcher' = [launcher EXCEPT ![p].pc = "volumes", ![p].k = launcher[p].k + 1]
      BY <1>9, <2>2 DEF NextKind
    <3>4. QED
      BY <1>0, <1>9, <3>1, <3>2, <3>3, KindEffect DEF NextKind
  <2>3. CASE launcher[p].mode # "tool" /\ ~(launcher[p].k < Len(Kinds))
    BY <1>3, <1>9, <2>3 DEF NextKind, Starting
  <2>4. QED
    BY <2>1, <2>2, <2>3
<1>10. CASE StartProxyFails(p)
  <2>1. "cleanup" \in Starting /\ 1 \in DOMAIN Kinds
    BY KindsType DEF Starting
  <2>2. QED
    BY <1>0, <1>10, <2>1, KindEffect DEF StartProxyFails
<1>11. CASE RemoveNetwork(p)
  BY <1>3, <1>11 DEF RemoveNetwork, Starting
<1>12. CASE Failed(p)
  BY <1>0, <1>12, ExitEffect DEF Failed, Scripts
<1>13. CASE Killed(p)
  BY <1>0, <1>13, ExitEffect DEF Killed, Scripts
<1>14. CASE Install(p)
  BY <1>3, <1>14 DEF Install, Starting
<1>15. CASE StoreHash(p)
  BY <1>0, <1>15, StoreHashEffect DEF StoreHash, Starting
<1>16. CASE ReadHash(p) /\ modules.hash = lockfile[Workspace]
  BY <1>3, <1>16 DEF ReadHash, Starting
<1>17. CASE ReadHash(p) /\ modules.hash # lockfile[Workspace]
  <2>1. launcher' = [launcher EXCEPT ![p].pc = "install", ![p].newHash = lockfile[Workspace]]
    BY <1>17 DEF ReadHash
  <2>2. lockfile[Workspace] \in 0..MaxLock
    BY <1>17, WorkspaceTyped DEF ReadHash, Scripts
  <2>3. QED
    BY <1>0, <1>17, <2>1, <2>2, InstallEffect DEF ReadHash, Starting
<1>18. QED
  BY <1>1, <1>2, <1>4, <1>5, <1>6, <1>7, <1>8, <1>9, <1>10, <1>11, <1>12, <1>13, <1>14,
     <1>15, <1>16, <1>17 DEF Move

(* What a "make" probes and runs in, as RunMake says.                       *)
Probed(p, timely) ==
  LET asked == {Kinds[j] : j \in 1..Min({Select(p, timely), Len(Kinds)})}
  IN {x \in asked : Running(x) /\ launcher[p].cache[x] = "unknown"}

Chosen(p, timely) ==
  IF Select(p, timely) > Len(Kinds) THEN Kinds[1] ELSE Kinds[Select(p, timely)]

(* The agent's "make" leaves its launcher where it is.                      *)
LEMMA RunMakeEffect ==
  ASSUME Launchers, NEW p \in Pane, RunMake(p)
  PROVE  /\ Launchers' /\ Others(p) /\ Stays(p) /\ launcher'[p].last = launcher[p].last
         /\ \E timely \in SUBSET Kind :
              /\ launcher'[p].cache =
                   [x \in Kind |-> IF x \notin Probed(p, timely) THEN launcher[p].cache[x]
                                   ELSE IF Known(p, x, timely) THEN "yes" ELSE "no"]
              /\ launcher'[p].spoilt =
                   (launcher[p].spoilt \/ \E x \in Probed(p, timely) : Has(x) /\ x \notin timely)
              /\ launcher'[p].ran = IF ~Has(Chosen(p, timely)) /\ \E x \in Kind : Has(x)
                                    THEN "missed" ELSE None
<1>1. launcher[p] \in LauncherRecord
  BY DEF Launchers
<1>2. PICK timely \in SUBSET Kind :
        launcher' = [launcher EXCEPT
          ![p].cache = [x \in Kind |-> IF x \notin Probed(p, timely) THEN @[x]
                                       ELSE IF Known(p, x, timely) THEN "yes" ELSE "no"],
          ![p].spoilt = @ \/ \E x \in Probed(p, timely) : Has(x) /\ x \notin timely,
          ![p].ran = IF ~Has(Chosen(p, timely)) /\ \E x \in Kind : Has(x)
                     THEN "missed" ELSE None]
  BY DEF RunMake, Probed, Chosen
<1> DEFINE c == [x \in Kind |-> IF x \notin Probed(p, timely) THEN launcher[p].cache[x]
                                ELSE IF Known(p, x, timely) THEN "yes" ELSE "no"]
           s == launcher[p].spoilt \/ \E x \in Probed(p, timely) : Has(x) /\ x \notin timely
           m == IF ~Has(Chosen(p, timely)) /\ \E x \in Kind : Has(x) THEN "missed" ELSE None
           r == [launcher[p] EXCEPT !.cache = c, !.spoilt = s, !.ran = m]
<1>3. c \in [Kind -> {"unknown", "yes", "no"}]
  <2>1. launcher[p].cache \in [Kind -> {"unknown", "yes", "no"}]
    BY <1>1 DEF LauncherRecord
  <2>2. QED
    BY <2>1
<1>4. s \in BOOLEAN
  BY <1>1 DEF LauncherRecord
<1>5. m \in {None, "missed"}
  OBVIOUS
<1>6. launcher' = [launcher EXCEPT ![p] = r]
  BY <1>2
<1> HIDE DEF c, s, m
<1>7. /\ r \in LauncherRecord /\ r.pc = launcher[p].pc /\ r.mode = launcher[p].mode
      /\ r.k = launcher[p].k /\ r.isolated = launcher[p].isolated
      /\ r.newHash = launcher[p].newHash /\ r.last = launcher[p].last
      /\ r.cache = c /\ r.spoilt = s /\ r.ran = m
  BY <1>1, <1>3, <1>4, <1>5 DEF LauncherRecord
<1> HIDE DEF r
<1>8. Launchers' /\ launcher'[p] = r /\ Others(p)
  BY <1>6, <1>7, OneChanges
<1>9. Stays(p) /\ launcher'[p].last = launcher[p].last
  BY <1>7, <1>8 DEF Stays, SameTask, pc
<1>10. launcher'[p].cache = c /\ launcher'[p].spoilt = s /\ launcher'[p].ran = m
  BY <1>7, <1>8
<1>11. QED
  BY <1>8, <1>9, <1>10 DEF c, s, m

(* All steps.                                                               *)
LEMMA NextKinds ==
  ASSUME TypeOK, Next
  PROVE  \/ \E p \in Pane : Move(p) \/ Create(p) \/ ToSocket(p) \/ EndAgent(p)
                              \/ RunMake(p) \/ EditLockfile(p)
         \/ CleanBegins
         \/ \E x \in Kind : \E then : Stopping(x, then)
<1>0. Launchers
  BY TypedLaunchers
<1>1. ASSUME NEW p \in Pane, Launch(p) \/ Step(p) \/ EndAgent(p) \/ Killed(p) \/ RunMake(p)
                               \/ EditLockfile(p)
      PROVE  \/ Move(p) \/ Create(p) \/ ToSocket(p) \/ EndAgent(p) \/ RunMake(p)
                \/ EditLockfile(p)
             \/ \E x \in Kind : \E then : Stopping(x, then)
  <2>1. CASE EndTool(p)
    BY <1>0, <2>1, EndToolStops
  <2>2. CASE CleanupSidecar(p)
    BY <1>0, <2>2, CleanupSidecarStops
  <2>3. QED
    BY <1>1, <2>1, <2>2, StepKinds
<1>2. CASE CleanBegins
  BY <1>2
<1>3. CASE CleanStops
  BY <1>0, <1>3, OutsiderStops
<1>4. CASE \E x \in Kind : SidecarDies(x)
  BY <1>0, <1>4, OutsiderStops
<1>5. QED
  BY <1>1, <1>2, <1>3, <1>4 DEF Next

(* The launchers, after a container has stopped.                            *)
LEMMA StoppingEffect ==
  ASSUME Launchers, NEW x \in Kind, NEW then, Stopping(x, then)
  PROVE  /\ Launchers'
         /\ \A q \in Pane :
              /\ ~(x = Node /\ pc(q) \in Scripts) => launcher'[q] = then[q]
              /\ x = Node /\ pc(q) \in Scripts /\ then[q] = launcher[q] =>
                   /\ pc(q)' = "next" /\ SameTask(q) /\ SameMemory(q)
                   /\ launcher'[q].last = launcher[q].last
  BY StopEffect DEF Stopping

(* Launchers keep their type.                                               *)
LEMMA LaunchersStep ==
  ASSUME TypeOK, \A p \in Pane : Placed(p), [Next]_vars
  PROVE  Launchers'
<1>0. Launchers
  BY TypedLaunchers
<1>1. CASE UNCHANGED vars
  BY <1>0, <1>1 DEF vars, Launchers
<1>2. ASSUME NEW p \in Pane, Move(p) PROVE Launchers'
  BY <1>2, MoveEffect
<1>3. ASSUME NEW p \in Pane, Create(p) PROVE Launchers'
  BY <1>0, <1>3, CreateEffect
<1>4. ASSUME NEW p \in Pane, ToSocket(p) PROVE Launchers'
  BY <1>0, <1>4, ToSocketEffect
<1>5. ASSUME NEW p \in Pane, EndAgent(p) PROVE Launchers'
  BY <1>0, <1>5, EndAgentEffect
<1>6. ASSUME NEW p \in Pane, RunMake(p) PROVE Launchers'
  BY <1>0, <1>6, RunMakeEffect
<1>7. ASSUME NEW p \in Pane, EditLockfile(p) PROVE Launchers'
  BY <1>0, <1>7 DEF EditLockfile, Launchers
<1>8. CASE CleanBegins
  BY <1>0, <1>8 DEF CleanBegins, Launchers
<1>9. ASSUME NEW x \in Kind, NEW then, Stopping(x, then) PROVE Launchers'
  BY <1>0, <1>9, StoppingEffect
<1>10. QED
  BY <1>1, <1>2, <1>3, <1>4, <1>5, <1>6, <1>7, <1>8, <1>9, NextKinds

-----------------------------------------------------------------------------
(* The types of the other variables.                                        *)

RestTyped ==
  /\ starts \in 0..MaxStarts
  /\ events \in 0..MaxEvents
  /\ clean \in 0..(Len(Kinds) + 1)
  /\ sidecar \in [Kind -> [at : Pane, isolated : BOOLEAN] \cup {NoSidecar}]
  /\ taken \subseteq Kind
  /\ network \in BOOLEAN
  /\ socket \in Pane \cup {None}
  /\ lockfile \in [Pane -> 1..MaxLock]
  /\ modules \in [stamp : BOOLEAN, owned : BOOLEAN, lock : 0..MaxLock, hash : 0..MaxLock]
  /\ excuse \in BOOLEAN

ScriptsRun == \A p \in Pane : pc(p) \in Scripts => Running(Node)

(* The parts of TypeOK.                                                     *)
LEMMA TypeParts == TypeOK <=> Launchers /\ RestTyped /\ ScriptsRun
  BY DEF TypeOK, Launchers, LauncherRecord, RestTyped, ScriptsRun, Scripts

(* A container that stops leaves the other types alone.                     *)
LEMMA StopTyped ==
  ASSUME RestTyped, NEW x \in Kind, NEW then, Stop(x, then)
  PROVE  /\ sidecar' \in [Kind -> [at : Pane, isolated : BOOLEAN] \cup {NoSidecar}]
         /\ taken' \subseteq Kind /\ excuse' \in BOOLEAN
         /\ lockfile' = lockfile /\ modules' = modules
  BY DEF Stop, RestTyped

(* The other variables keep their types.                                    *)
LEMMA RestTypedStep ==
  ASSUME TypeOK, \A p \in Pane : Placed(p), [Next]_vars
  PROVE  RestTyped'
<1>0. Launchers /\ RestTyped
  BY TypeParts
<1>n. MaxStarts \in Nat /\ MaxEvents \in Nat /\ MaxLock \in Nat \ {0}
  BY SessionAssumption
<1>1. CASE UNCHANGED vars
  BY <1>0, <1>1 DEF vars, containers, volume, RestTyped
<1>2. ASSUME NEW p \in Pane, Launch(p) PROVE RestTyped'
  BY <1>0, <1>n, <1>2 DEF Launch, containers, volume, RestTyped
<1>3. ASSUME NEW p \in Pane, ChooseNetwork(p) PROVE RestTyped'
  BY <1>0, <1>3 DEF ChooseNetwork, containers, volume, RestTyped
<1>4. ASSUME NEW p \in Pane, InitVolumes(p) PROVE RestTyped'
  BY <1>0, <1>4 DEF InitVolumes, containers, RestTyped
<1>5. ASSUME NEW p \in Pane, Inspect(p) \/ CreateFails(p) \/ LookAgain(p) \/ Guard(p) \/ NextKind(p)
                               \/ StartProxyFails(p) \/ Failed(p)
      PROVE RestTyped'
  BY <1>0, <1>5 DEF Inspect, CreateFails, LookAgain, Guard, NextKind, StartProxyFails, Failed,
                    containers, volume, RestTyped
<1>6. ASSUME NEW p \in Pane, Create(p) PROVE RestTyped'
  <2>1. At(p) \in Kind /\ launcher[p].isolated \in BOOLEAN
    BY <1>0, KindsType DEF Launchers, LauncherRecord, At
  <2>2. sidecar' \in [Kind -> [at : Pane, isolated : BOOLEAN] \cup {NoSidecar}]
    BY <1>0, <1>6, <2>1 DEF Create, RestTyped
  <2>3. QED
    BY <1>0, <1>6, <2>2 DEF Create, volume, RestTyped
<1>7. ASSUME NEW p \in Pane, ReadHash(p) PROVE RestTyped'
  BY <1>0, <1>7 DEF ReadHash, containers, RestTyped
<1>8. ASSUME NEW p \in Pane, Install(p) PROVE RestTyped'
  <2>1. lockfile[Workspace] \in 0..MaxLock
    BY <1>8, WorkspaceTyped DEF Install, Scripts
  <2>2. modules' \in [stamp : BOOLEAN, owned : BOOLEAN, lock : 0..MaxLock, hash : 0..MaxLock]
    BY <1>0, <1>8, <2>1 DEF Install, RestTyped
  <2>3. QED
    BY <1>0, <1>8, <2>2 DEF Install, containers, RestTyped
<1>9. ASSUME NEW p \in Pane, StoreHash(p) PROVE RestTyped'
  <2>1. launcher[p].newHash \in 0..MaxLock
    BY <1>0 DEF Launchers, LauncherRecord
  <2>2. modules' \in [stamp : BOOLEAN, owned : BOOLEAN, lock : 0..MaxLock, hash : 0..MaxLock]
    BY <1>0, <1>9, <2>1 DEF StoreHash, RestTyped
  <2>3. excuse' \in BOOLEAN
    BY <1>9 DEF StoreHash
  <2>4. QED
    BY <1>0, <1>9, <2>2, <2>3 DEF StoreHash, containers, RestTyped
<1>10. ASSUME NEW p \in Pane, RemoveSocket(p) \/ StartProxy(p) PROVE RestTyped'
  BY <1>0, <1>10 DEF RemoveSocket, StartProxy, containers, volume, RestTyped
<1>11. ASSUME NEW p \in Pane, RemoveNetwork(p) PROVE RestTyped'
  BY <1>0, <1>11 DEF RemoveNetwork, containers, volume, RestTyped
<1>12. ASSUME NEW p \in Pane, EndAgent(p) \/ RunMake(p) PROVE RestTyped'
  BY <1>0, <1>12 DEF EndAgent, RunMake, containers, volume, RestTyped
<1>13. ASSUME NEW p \in Pane, Killed(p) PROVE RestTyped'
  BY <1>0, <1>n, <1>13 DEF Killed, containers, volume, RestTyped
<1>14. ASSUME NEW p \in Pane, EditLockfile(p) PROVE RestTyped'
  <2>1. PICK v \in 1..MaxLock \ {lockfile[p]} :
          /\ lockfile' = [lockfile EXCEPT ![p] = v]
          /\ \/ excuse' = (excuse \/ (Installers # {} /\ Workspace = p)) /\ UNCHANGED modules
             \/ modules' = [modules EXCEPT !.lock = v] /\ excuse' = TRUE
    BY <1>14 DEF EditLockfile
  <2>2. lockfile' \in [Pane -> 1..MaxLock] /\ v \in 0..MaxLock
    BY <1>0, <1>n, <2>1 DEF RestTyped
  <2>3. modules' \in [stamp : BOOLEAN, owned : BOOLEAN, lock : 0..MaxLock, hash : 0..MaxLock]
    BY <1>0, <2>1, <2>2 DEF RestTyped
  <2>4. excuse' \in BOOLEAN
    BY <1>0, <2>1 DEF RestTyped
  <2>5. events' \in 0..MaxEvents
    BY <1>0, <1>n, <1>14 DEF EditLockfile, RestTyped
  <2>6. QED
    BY <1>0, <1>14, <2>2, <2>3, <2>4, <2>5 DEF EditLockfile, containers, RestTyped
<1>15. CASE CleanBegins
  BY <1>0, <1>15 DEF CleanBegins, containers, volume, RestTyped
<1>16. CASE CleanStops
  <2>1. Kinds[clean] \in Kind /\ clean' \in 0..(Len(Kinds) + 1)
    BY <1>0, <1>16, KindsType DEF CleanStops
  <2>2. QED
    BY <1>0, <1>16, <2>1, StopTyped DEF CleanStops, RestTyped
<1>17. ASSUME NEW x \in Kind, SidecarDies(x) PROVE RestTyped'
  <2>1. events' \in 0..MaxEvents
    BY <1>0, <1>n, <1>17 DEF SidecarDies, RestTyped
  <2>2. QED
    BY <1>0, <1>17, <2>1, StopTyped DEF SidecarDies, RestTyped
<1>18. ASSUME NEW p \in Pane, EndTool(p) \/ CleanupSidecar(p) PROVE RestTyped'
  <2>1. At(p) \in Kind
    BY <1>0, KindsType DEF Launchers, LauncherRecord, At
  <2>2. \E then : Stop(At(p), then)
    BY <1>18 DEF EndTool, CleanupSidecar
  <2>3. QED
    BY <1>0, <1>18, <2>1, <2>2, StopTyped DEF EndTool, CleanupSidecar, RestTyped
<1>19. ASSUME NEW p \in Pane, Launch(p) \/ Step(p) \/ EndAgent(p) \/ Killed(p) \/ RunMake(p)
                                \/ EditLockfile(p)
       PROVE  RestTyped'
  BY <1>2, <1>3, <1>4, <1>5, <1>6, <1>7, <1>8, <1>9, <1>10, <1>11, <1>12, <1>13, <1>14, <1>18,
     <1>19 DEF Step
<1>20. QED
  BY <1>1, <1>15, <1>16, <1>17, <1>19 DEF Next

(* What became of one launcher when a container stopped.                    *)
LEMMA StoppingCases ==
  ASSUME TypeOK, NEW x \in Kind, NEW then, Stopping(x, then), NEW q \in Pane
  PROVE  \/ /\ launcher'[q] = launcher[q]
            /\ ~(x = Node /\ pc(q) \in Scripts)
         \/ /\ x = Node /\ pc(q) \in Scripts /\ pc(q)' = "next"
            /\ SameTask(q) /\ SameMemory(q) /\ launcher'[q].last = launcher[q].last
         \/ launcher'[q] = Idle /\ pc(q) = "exec"
         \/ /\ x = At(q) /\ pc(q) = "cleanup" /\ SameMemory(q)
            /\ launcher'[q].isolated = launcher[q].isolated
            /\ \/ /\ launcher[q].k < Len(Kinds)
                  /\ launcher'[q].k = launcher[q].k + 1 /\ pc(q)' = "cleanup"
               \/ ~(launcher[q].k < Len(Kinds)) /\ pc(q)' = "removal"
<1>1. /\ ~(x = Node /\ pc(q) \in Scripts) => launcher'[q] = then[q]
      /\ x = Node /\ pc(q) \in Scripts /\ then[q] = launcher[q] =>
           /\ pc(q)' = "next" /\ SameTask(q) /\ SameMemory(q)
           /\ launcher'[q].last = launcher[q].last
  BY TypedLaunchers, StoppingEffect
<1>2. CASE then[q] = launcher[q]
  BY <1>1, <1>2
<1>3. CASE then[q] # launcher[q] /\ then[q] = Idle /\ pc(q) = "exec"
  BY <1>1, <1>3 DEF Scripts
<1>4. CASE then[q] # launcher[q] /\ ~(then[q] = Idle /\ pc(q) = "exec")
  <2>1. /\ x = At(q) /\ pc(q) = "cleanup"
        /\ then[q].isolated = launcher[q].isolated
        /\ then[q].cache = launcher[q].cache /\ then[q].spoilt = launcher[q].spoilt
        /\ then[q].ran = launcher[q].ran
        /\ \/ /\ launcher[q].k < Len(Kinds)
              /\ then[q].k = launcher[q].k + 1 /\ then[q].pc = "cleanup"
           \/ ~(launcher[q].k < Len(Kinds)) /\ then[q].pc = "removal"
    BY <1>4 DEF Stopping
  <2>2. launcher'[q] = then[q]
    BY <1>1, <2>1 DEF Scripts
  <2>3. QED
    BY <2>1, <2>2 DEF SameMemory, pc
<1>5. QED
  BY <1>2, <1>3, <1>4

(* What became of the containers.                                           *)
LEMMA StoppedContainers ==
  ASSUME TypeOK, NEW x \in Kind, NEW then, Stopping(x, then)
  PROVE  /\ ~Running(x)' /\ \A y \in Kind \ {x} : sidecar'[y] = sidecar[y]
         /\ taken' = IF Running(x) THEN taken \cup {x} ELSE taken
  BY DEF Stopping, Stop, Running, TypeOK

(* A created container runs, with the clone of its creator.                 *)
LEMMA CreatedContainers ==
  ASSUME TypeOK, NEW p \in Pane, Create(p)
  PROVE  /\ At(p) \in Kind /\ ~Running(At(p)) /\ Running(At(p))'
         /\ sidecar'[At(p)].at = p
         /\ \A y \in Kind \ {At(p)} : sidecar'[y] = sidecar[y] /\ (y \in taken => y \in taken')
<1>1. At(p) \in Kind
  BY TypedLaunchers, KindsType DEF Launchers, LauncherRecord, At
<1>2. sidecar'[At(p)] = [at |-> p, isolated |-> launcher[p].isolated]
  BY <1>1 DEF Create, TypeOK
<1>3. Running(At(p))' 
  <2>1. None \notin Pane
    BY SessionAssumption
  <2>2. At(p)' = At(p)
    BY TypedLaunchers, CreateEffect DEF At, OnlyMoves, SameTask
  <2>3. QED
    BY <1>2, <2>1, <2>2 DEF Running, NoSidecar
<1>4. QED
  BY <1>1, <1>2, <1>3 DEF Create, TypeOK

-----------------------------------------------------------------------------
(* Where a launcher can be.                                                 *)

(* A launcher that stays is still well placed.                              *)
LEMMA PlacedKept ==
  ASSUME NEW q \in Pane, Placed(q), Stays(q)
  PROVE  Placed(q)'
  BY DEF Placed, Stays, SameTask, At, pc

(* So is one that has returned.                                             *)
LEMMA IdlePlaced ==
  ASSUME NEW q \in Pane, launcher'[q] = Idle
  PROVE  Placed(q)' /\ pc(q)' = "shell"
  BY DEF Placed, Idle, pc, Scripts

(* And one that is nowhere Placed speaks of.                                *)
LEMMA ElsewherePlaced ==
  ASSUME NEW q \in Pane, pc(q)' \notin {"shell", "overlay"} \cup Scripts
  PROVE  Placed(q)'
  BY DEF Placed

(* A script is started in a container that runs.                            *)
LEMMA MovePlaced ==
  ASSUME TypeOK, NEW p \in Pane, Placed(p), Move(p)
  PROVE  Placed(p)' /\ (pc(p)' \in Scripts => Running(Node))
<1>0. Launchers /\ ScriptsRun
  BY TypeParts
<1>1. ASSUME NEW there, there \in Starting, Goto(p, there),
             there \in {"overlay"} \cup Scripts => At(p) = Node,
             there \in Scripts => Running(Node)
      PROVE  Placed(p)' /\ (pc(p)' \in Scripts => Running(Node))
  <2>1. pc(p)' = there /\ At(p)' = At(p)
    BY <1>0, <1>1, GotoEffect DEF OnlyMoves, SameTask, At
  <2>2. there # "shell"
    BY <1>1 DEF Starting
  <2>3. QED
    BY <1>1, <2>1, <2>2 DEF Placed
<1>2. ASSUME launcher'[p] = Idle
      PROVE  Placed(p)' /\ (pc(p)' \in Scripts => Running(Node))
  BY <1>2, IdlePlaced DEF Scripts
<1>3. ASSUME pc(p)' \notin {"shell", "overlay"} \cup Scripts
      PROVE  Placed(p)' /\ (pc(p)' \in Scripts => Running(Node))
  BY <1>3, ElsewherePlaced
<1>4. ASSUME NEW there, there \in Starting, Goto(p, there), there \notin {"overlay"} \cup Scripts
      PROVE  Placed(p)' /\ (pc(p)' \in Scripts => Running(Node))
  BY <1>1, <1>4
<1>5. CASE Launch(p)
  BY <1>0, <1>3, <1>5, LaunchEffect DEF Scripts
<1>6. CASE ChooseNetwork(p)
  BY <1>0, <1>3, <1>6, ChooseNetworkEffect DEF Scripts
<1>7. CASE InitVolumes(p) \/ CreateFails(p) \/ RemoveNetwork(p)
  BY <1>4, <1>7 DEF InitVolumes, CreateFails, RemoveNetwork, Starting, Scripts
<1>8. CASE Inspect(p)
  <2> DEFINE there == IF Running(At(p)) THEN Afterwards(p, FALSE) ELSE "create"
  <2>1. there \in Starting /\ (there \in {"overlay"} \cup Scripts => At(p) = Node) /\ there \notin Scripts
    BY AfterwardsIs DEF Starting, Scripts
  <2>2. Goto(p, there)
    BY <1>8 DEF Inspect
  <2> HIDE DEF there
  <2>3. QED
    BY <1>1, <2>1, <2>2
<1>9. CASE LookAgain(p)
  <2>1. CASE Running(At(p))
    <3>1. Goto(p, Afterwards(p, TRUE))
      BY <1>9, <2>1 DEF LookAgain
    <3>2. /\ Afterwards(p, TRUE) \in Starting /\ Afterwards(p, TRUE) \notin Scripts
          /\ Afterwards(p, TRUE) \in {"overlay"} \cup Scripts => At(p) = Node
      BY AfterwardsIs DEF Starting, Scripts
    <3>3. QED
      BY <1>1, <3>1, <3>2
  <2>2. CASE ~Running(At(p))
    BY <1>0, <1>2, <1>9, <2>2, ExitEffect DEF LookAgain
  <2>3. QED
    BY <2>1, <2>2
<1>10. CASE Guard(p)
  <2>0. pc(p) = "overlay" /\ At(p) = Node
    BY <1>10 DEF Guard, Placed
  <2>1. CASE Goto(p, IF Running(Node) THEN "hash" ELSE "next")
    <3> DEFINE there == IF Running(Node) THEN "hash" ELSE "next"
    <3>1. there \in Starting /\ (there \in Scripts => Running(Node))
      BY DEF Starting, Scripts
    <3>2. Goto(p, there)
      BY <2>1
    <3> HIDE DEF there
    <3>3. QED
      BY <1>1, <2>0, <3>1, <3>2
  <2>2. CASE Exit(p)
    BY <1>0, <1>2, <2>2, ExitEffect
  <2>3. QED
    BY <1>10, <2>1, <2>2 DEF Guard
<1>11. CASE ReadHash(p)
  <2>0. At(p) = Node /\ Running(Node)
    BY <1>0, <1>11 DEF ReadHash, Placed, Scripts, ScriptsRun
  <2>1. CASE modules.hash = lockfile[Workspace]
    BY <1>4, <1>11, <2>1 DEF ReadHash, Starting, Scripts
  <2>2. CASE modules.hash # lockfile[Workspace]
    <3>1. lockfile[Workspace] \in 0..MaxLock
      BY <1>11, WorkspaceTyped DEF ReadHash, Scripts
    <3>2. launcher' = [launcher EXCEPT ![p].pc = "install", ![p].newHash = lockfile[Workspace]]
      BY <1>11, <2>2 DEF ReadHash
    <3>3. pc(p)' = "install" /\ At(p)' = At(p)
      BY <1>0, <3>1, <3>2, InstallEffect DEF SameTask, At
    <3>4. QED
      BY <2>0, <3>3 DEF Placed
  <2>3. QED
    BY <2>1, <2>2
<1>12. CASE Install(p)
  <2>0. At(p) = Node /\ Running(Node)
    BY <1>0, <1>12 DEF Install, Placed, Scripts, ScriptsRun
  <2>1. Goto(p, "store") /\ "store" \in Starting
    BY <1>12 DEF Install, Starting
  <2>2. QED
    BY <1>1, <2>0, <2>1
<1>13. CASE StoreHash(p)
  BY <1>0, <1>3, <1>13, StoreHashEffect DEF Scripts
<1>14. CASE NextKind(p)
  <2>1. CASE launcher[p].mode = "tool"
    BY <1>4, <1>14, <2>1 DEF NextKind, Starting, Scripts
  <2>2. CASE launcher[p].mode # "tool" /\ launcher[p].k < Len(Kinds)
    <3>1. launcher[p].k + 1 \in DOMAIN Kinds
      BY <1>0, <2>2, KindsType DEF Launchers, LauncherRecord
    <3>2. "volumes" \in Starting
      BY DEF Starting
    <3>3. launcher' = [launcher EXCEPT ![p].pc = "volumes", ![p].k = launcher[p].k + 1]
      BY <1>14, <2>2 DEF NextKind
    <3>4. pc(p)' = "volumes"
      BY <1>0, <3>1, <3>2, <3>3, KindEffect
    <3>5. QED
      BY <1>3, <3>4 DEF Scripts
  <2>3. CASE launcher[p].mode # "tool" /\ ~(launcher[p].k < Len(Kinds))
    BY <1>4, <1>14, <2>3 DEF NextKind, Starting, Scripts
  <2>4. QED
    BY <2>1, <2>2, <2>3
<1>15. CASE StartProxyFails(p)
  <2>1. "cleanup" \in Starting /\ 1 \in DOMAIN Kinds
    BY KindsType DEF Starting
  <2>2. pc(p)' = "cleanup"
    BY <1>0, <1>15, <2>1, KindEffect DEF StartProxyFails
  <2>3. QED
    BY <1>3, <2>2 DEF Scripts
<1>16. CASE Failed(p) \/ Killed(p)
  BY <1>0, <1>2, <1>16, ExitEffect DEF Failed, Killed
<1>17. QED
  BY <1>5, <1>6, <1>7, <1>8, <1>9, <1>10, <1>11, <1>12, <1>13, <1>14, <1>15, <1>16 DEF Move

(* Launchers stay well placed, and scripts have their container.            *)
LEMMA PlacedStep ==
  ASSUME TypeOK, \A p \in Pane : Placed(p), [Next]_vars
  PROVE  (\A p \in Pane : Placed(p))' /\ ScriptsRun'
<1>0. Launchers /\ ScriptsRun
  BY TypeParts
<1>s. SUFFICES ASSUME NEW q \in Pane
               PROVE  Placed(q)' /\ (pc(q)' \in Scripts => Running(Node)')
  BY DEF ScriptsRun
<1>a. ASSUME Stays(q), Running(Node) => Running(Node)'
      PROVE  Placed(q)' /\ (pc(q)' \in Scripts => Running(Node)')
  BY <1>0, <1>a, PlacedKept DEF ScriptsRun, Stays
<1>1. CASE UNCHANGED vars
  BY <1>1, <1>a DEF vars, containers, Stays, SameTask, pc, Running
<1>2. ASSUME NEW p \in Pane, Move(p)
      PROVE  Placed(q)' /\ (pc(q)' \in Scripts => Running(Node)')
  <2>1. Running(Node)' = Running(Node)
    BY <1>2, MoveEffect DEF containers, Running
  <2>2. CASE q = p
    BY <1>2, <2>1, <2>2, MovePlaced
  <2>3. CASE q # p
    BY <1>2, <1>a, <2>1, <2>3, MoveEffect, OthersStay
  <2>4. QED
    BY <2>2, <2>3
<1>3. ASSUME NEW p \in Pane, Create(p)
      PROVE  Placed(q)' /\ (pc(q)' \in Scripts => Running(Node)')
  <2>1. CASE q = p
    <3>1. pc(p)' = Afterwards(p, TRUE) /\ At(p)' = At(p)
      BY <1>0, <1>3, CreateEffect DEF OnlyMoves, SameTask, At
    <3>2. pc(p)' \in {"overlay", "next"} /\ (pc(p)' = "overlay" => At(p)' = Node)
      BY <3>1, AfterwardsIs
    <3>3. QED
      BY <2>1, <3>2 DEF Placed, Scripts
  <2>2. CASE q # p
    <3>1. Stays(q)
      BY <1>0, <1>3, <2>2, CreateEffect
    <3>2. CASE pc(q) \in Scripts
      <4>1. Node \in Kind /\ Running(Node)
        BY <3>2, WorkspaceTyped
      <4>2. sidecar'[Node] = sidecar[Node]
        BY <1>3, <4>1, CreatedContainers
      <4>3. QED
        BY <1>a, <3>1, <4>2 DEF Running
    <3>3. CASE pc(q) \notin Scripts
      BY <3>1, <3>3, PlacedKept DEF Stays
    <3>4. QED
      BY <3>2, <3>3
  <2>3. QED
    BY <2>1, <2>2
<1>4. ASSUME NEW p \in Pane, ToSocket(p)
      PROVE  Placed(q)' /\ (pc(q)' \in Scripts => Running(Node)')
  <2>1. CASE q = p
    BY <1>0, <1>4, <2>1, ToSocketEffect, ElsewherePlaced DEF Scripts
  <2>2. CASE q # p
    BY <1>0, <1>4, <1>a, <2>2, ToSocketEffect DEF containers, Running
  <2>3. QED
    BY <2>1, <2>2
<1>5. ASSUME NEW p \in Pane, EndAgent(p)
      PROVE  Placed(q)' /\ (pc(q)' \in Scripts => Running(Node)')
  <2>1. CASE q = p
    BY <1>0, <1>5, <2>1, EndAgentEffect, IdlePlaced DEF Scripts
  <2>2. CASE q # p
    BY <1>0, <1>5, <1>a, <2>2, EndAgentEffect DEF EndAgent, containers, Running
  <2>3. QED
    BY <2>1, <2>2
<1>6. ASSUME NEW p \in Pane, RunMake(p)
      PROVE  Placed(q)' /\ (pc(q)' \in Scripts => Running(Node)')
  <2>1. Stays(q)
    BY <1>0, <1>6, RunMakeEffect, OthersStay
  <2>2. Running(Node)' = Running(Node)
    BY <1>6 DEF RunMake, containers, Running
  <2>3. QED
    BY <1>a, <2>1, <2>2
<1>7. ASSUME UNCHANGED <<launcher, containers>>
      PROVE  Placed(q)' /\ (pc(q)' \in Scripts => Running(Node)')
  BY <1>7, <1>a DEF containers, Stays, SameTask, pc, Running
<1>8. ASSUME NEW x \in Kind, NEW then, Stopping(x, then)
      PROVE  Placed(q)' /\ (pc(q)' \in Scripts => Running(Node)')
  <2>1. CASE launcher'[q] = launcher[q] /\ ~(x = Node /\ pc(q) \in Scripts)
    <3>1. Stays(q)
      BY <2>1 DEF Stays, SameTask, pc
    <3>2. CASE pc(q) \in Scripts
      <4>1. Node \in Kind /\ Running(Node) /\ x # Node
        BY <2>1, <3>2, WorkspaceTyped
      <4>2. sidecar'[Node] = sidecar[Node]
        BY <1>8, <4>1, StoppedContainers
      <4>3. QED
        BY <1>a, <3>1, <4>2 DEF Running
    <3>3. CASE pc(q) \notin Scripts
      BY <3>1, <3>3, PlacedKept DEF Stays
    <3>4. QED
      BY <3>2, <3>3
  <2>2. CASE pc(q)' \in {"next", "cleanup", "removal"}
    BY <2>2, ElsewherePlaced DEF Scripts
  <2>3. CASE launcher'[q] = Idle
    BY <2>3, IdlePlaced DEF Scripts
  <2>4. QED
    BY <1>8, <2>1, <2>2, <2>3, StoppingCases
<1>9. QED
  BY <1>1, <1>2, <1>3, <1>4, <1>5, <1>6, <1>7, <1>8, NextKinds DEF EditLockfile, CleanBegins

(* TypeOK is kept, given Placed.                                            *)
LEMMA TypeStep ==
  ASSUME TypeOK, \A p \in Pane : Placed(p), [Next]_vars
  PROVE  TypeOK'
<1>1. Launchers' /\ RestTyped' /\ ScriptsRun'
  BY LaunchersStep, RestTypedStep, PlacedStep
<1>2. QED
  BY <1>1 DEF TypeOK, Launchers, LauncherRecord, RestTyped, ScriptsRun, Scripts

-----------------------------------------------------------------------------
(* What an agent was given.                                                 *)

(* A sidecar once given stays given.                                        *)
LEMMA GivenStep ==
  ASSUME TypeOK, \A p \in Pane : Placed(p), [Next]_vars, NEW y \in Kind, Given(y)
  PROVE  Given(y)'
<1>1. ASSUME UNCHANGED containers PROVE Given(y)'
  BY <1>1 DEF containers, Given, Running
<1>2. ASSUME NEW p \in Pane, Create(p) PROVE Given(y)'
  <2>1. CASE y = At(p)
    <3>1. At(p)' = At(p)
      BY <1>2, TypedLaunchers, CreateEffect DEF At, OnlyMoves, SameTask
    <3>2. QED
      BY <1>2, <2>1, <3>1, CreatedContainers DEF Given
  <2>2. CASE y # At(p)
    BY <1>2, <2>2, CreatedContainers DEF Given, Running
  <2>3. QED
    BY <2>1, <2>2
<1>3. ASSUME NEW x \in Kind, NEW then, Stopping(x, then) PROVE Given(y)'
  <2>1. CASE x = y
    BY <1>3, <2>1, StoppedContainers DEF Given
  <2>2. CASE x # y
    BY <1>3, <2>2, StoppedContainers DEF Given, Running
  <2>3. QED
    BY <2>1, <2>2
<1>4. ASSUME NEW p \in Pane, Move(p) PROVE Given(y)'
  BY <1>1, <1>4, MoveEffect
<1>5. ASSUME NEW p \in Pane, ToSocket(p) \/ EndAgent(p) \/ RunMake(p) \/ EditLockfile(p)
      PROVE  Given(y)'
  BY <1>1, <1>5 DEF ToSocket, RemoveSocket, StartProxy, EndAgent, RunMake, EditLockfile
<1>6. QED
  BY <1>1, <1>2, <1>3, <1>4, <1>5, NextKinds DEF vars, CleanBegins

(* Where a launcher of an agent is while the kinds before its own are there. *)
Preparing == {"network", "volumes", "inspect", "create", "again", "overlay", "next"} \cup Scripts

(* Provided, by the names of the places.                                    *)
LEMMA ProvidedIs ==
  ASSUME NEW p
  PROVE  Provided(p) <=>
           /\ pc(p) \in {"proxy", "bind", "agent"} => \A x \in Kind : Given(x)
           /\ launcher[p].mode = "agent" /\ pc(p) \in Preparing
                => \A j \in 1..(launcher[p].k - 1) : Given(Kinds[j])
           /\ launcher[p].mode = "agent" /\ pc(p) \in {"overlay", "next"} \cup Scripts
                => Given(At(p))
  BY DEF Provided, Preparing

(* The kinds before a launcher's own are kinds.                             *)
LEMMA EarlierKinds ==
  ASSUME Launchers, NEW q \in Pane, NEW j \in 1..(launcher[q].k - 1)
  PROVE  Kinds[j] \in Kind
<1>1. launcher[q].k \in 1..Len(Kinds) /\ Len(Kinds) \in Nat
  BY KindsType DEF Launchers, LauncherRecord
<1>2. j \in DOMAIN Kinds
  BY <1>1, KindsType
<1>3. QED
  BY <1>2, KindsType

(* A launcher that stays has what it had.                                   *)
LEMMA ProvidedKept ==
  ASSUME TypeOK, NEW q \in Pane, Provided(q), Stays(q),
         \A y \in Kind : Given(y) => Given(y)'
  PROVE  Provided(q)'
<1>1. At(q) \in Kind /\ At(q)' = At(q)
  BY TypedLaunchers, KindsType DEF Launchers, LauncherRecord, At, Stays, SameTask
<1>2. \A j \in 1..(launcher[q].k - 1) : Kinds[j] \in Kind
  BY TypedLaunchers, EarlierKinds
<1>3. pc(q)' = pc(q) /\ launcher'[q].mode = launcher[q].mode /\ launcher'[q].k = launcher[q].k
  BY DEF Stays, SameTask
<1>4. QED
  BY <1>1, <1>2, <1>3 DEF Provided

(* A start that goes on keeps what it has.                                  *)
LEMMA ProvidedOn ==
  ASSUME TypeOK, NEW q \in Pane, Provided(q), \A y \in Kind : Given(y) => Given(y)',
         pc(q) \in Preparing, pc(q)' \in Preparing, SameTask(q),
         pc(q)' \in {"overlay", "next"} \cup Scripts => Given(At(q))'
  PROVE  Provided(q)'
<1>1. \A j \in 1..(launcher[q].k - 1) : Kinds[j] \in Kind
  BY TypedLaunchers, EarlierKinds
<1>2. launcher'[q].mode = launcher[q].mode /\ launcher'[q].k = launcher[q].k
  BY DEF SameTask
<1>3. pc(q)' \notin {"proxy", "bind", "agent"}
  BY DEF Preparing, Scripts
<1>4. ASSUME launcher[q].mode = "agent" PROVE \A j \in 1..(launcher[q].k - 1) : Given(Kinds[j])
  BY <1>4, ProvidedIs
<1>5. ASSUME launcher[q].mode = "agent", NEW j \in 1..(launcher[q].k - 1)
      PROVE  Given(Kinds[j])'
  BY <1>1, <1>4, <1>5
<1>6. QED
  BY <1>2, <1>3, <1>5 DEF Provided

(* Nothing is promised to a launcher that is past its agent.                *)
LEMMA ProvidedElsewhere ==
  ASSUME NEW q \in Pane, pc(q)' \notin {"proxy", "bind", "agent"} \cup Preparing
  PROVE  Provided(q)'
  BY DEF Provided, Preparing

(* Nor to one that has returned.                                            *)
LEMMA IdleProvided ==
  ASSUME NEW q \in Pane, launcher'[q] = Idle
  PROVE  Provided(q)'
  BY ProvidedElsewhere DEF Preparing, Scripts, Idle, pc

(* A start goes on only where the kind it is at has been given.             *)
LEMMA MoveProvided ==
  ASSUME TypeOK, NEW p \in Pane, Placed(p), Provided(p), Move(p)
  PROVE  Provided(p)'
<1>0. Launchers /\ UNCHANGED containers
  BY TypeParts, MoveEffect
<1>g. \A y : Given(y)' <=> Given(y)
  BY <1>0 DEF containers, Given, Running
<1>k. At(p) \in Kind
  BY <1>0, KindsType DEF Launchers, LauncherRecord, At
<1>1. ASSUME NEW there, there \in Starting, Goto(p, there), pc(p) \in Preparing,
             there \in Preparing,
             launcher[p].mode = "agent" /\ there \in {"overlay", "next"} \cup Scripts
               => Given(At(p))
      PROVE  Provided(p)'
  <2>1. pc(p)' = there /\ SameTask(p) /\ At(p)' = At(p)
    BY <1>0, <1>1, GotoEffect DEF OnlyMoves, SameTask, At
  <2>2. CASE launcher[p].mode = "agent"
    <3>1. there \in {"overlay", "next"} \cup Scripts => Given(At(p))'
      BY <1>1, <1>g, <1>k, <2>1, <2>2
    <3>2. QED
      BY <1>1, <1>g, <2>1, <3>1, ProvidedOn
  <2>3. CASE launcher[p].mode # "agent"
    <3>1. launcher'[p].mode # "agent" /\ pc(p)' \notin {"proxy", "bind", "agent"}
      BY <1>1, <2>1, <2>3 DEF SameTask, Preparing, Scripts
    <3>2. QED
      BY <3>1 DEF Provided
  <2>4. QED
    BY <2>2, <2>3
<1>2. ASSUME pc(p) \in {"overlay", "next"} \cup Scripts, launcher[p].mode = "agent"
      PROVE  Given(At(p))
  BY <1>2, ProvidedIs
<1>3. CASE Launch(p)
  <2>1. pc(p)' = "network" /\ (launcher'[p].mode = "agent" => launcher'[p].k = 1)
    BY <1>0, <1>3, LaunchEffect
  <2>2. \A j \in 1..(1 - 1) : FALSE
    OBVIOUS
  <2>3. QED
    BY <2>1, <2>2 DEF Provided, Scripts
<1>4. CASE ChooseNetwork(p)
  <2>1. /\ pc(p) = "network" /\ pc(p)' = "volumes"
        /\ launcher'[p].mode = launcher[p].mode /\ launcher'[p].k = launcher[p].k
    BY <1>0, <1>4, ChooseNetworkEffect
  <2>2. QED
    BY <1>g, <2>1 DEF Provided, Scripts
<1>5. CASE InitVolumes(p)
  BY <1>1, <1>5 DEF InitVolumes, Starting, Preparing, Scripts
<1>6. CASE CreateFails(p)
  BY <1>1, <1>6 DEF CreateFails, Starting, Preparing, Scripts
<1>7. CASE Inspect(p)
  <2>1. CASE Running(At(p))
    <3>1. Goto(p, Afterwards(p, FALSE)) /\ pc(p) = "inspect"
      BY <1>7, <2>1 DEF Inspect
    <3>2. Afterwards(p, FALSE) \in Starting /\ Afterwards(p, FALSE) \in Preparing
      BY AfterwardsIs DEF Starting, Preparing
    <3>3. QED
      BY <1>1, <2>1, <3>1, <3>2 DEF Given, Preparing
  <2>2. CASE ~Running(At(p))
    BY <1>1, <1>7, <2>2 DEF Inspect, Starting, Preparing, Scripts
  <2>3. QED
    BY <2>1, <2>2
<1>8. CASE LookAgain(p)
  <2>1. CASE Running(At(p))
    <3>1. Goto(p, Afterwards(p, TRUE)) /\ pc(p) = "again"
      BY <1>8, <2>1 DEF LookAgain
    <3>2. Afterwards(p, TRUE) \in Starting /\ Afterwards(p, TRUE) \in Preparing
      BY AfterwardsIs DEF Starting, Preparing
    <3>3. QED
      BY <1>1, <2>1, <3>1, <3>2 DEF Given, Preparing
  <2>2. CASE ~Running(At(p))
    BY <1>0, <1>8, <2>2, ExitEffect, IdleProvided DEF LookAgain
  <2>3. QED
    BY <2>1, <2>2
<1>9. CASE Guard(p)
  <2>0. pc(p) = "overlay"
    BY <1>9 DEF Guard
  <2>1. CASE Goto(p, IF Running(Node) THEN "hash" ELSE "next")
    <3> DEFINE there == IF Running(Node) THEN "hash" ELSE "next"
    <3>1. there \in Starting /\ there \in Preparing
      BY DEF Starting, Preparing, Scripts
    <3>2. Goto(p, there)
      BY <2>1
    <3> HIDE DEF there
    <3>3. QED
      BY <1>1, <1>2, <2>0, <3>1, <3>2 DEF Preparing
  <2>2. CASE Exit(p)
    BY <1>0, <2>2, ExitEffect, IdleProvided
  <2>3. QED
    BY <1>9, <2>1, <2>2 DEF Guard
<1>10. CASE ReadHash(p)
  <2>0. pc(p) = "hash"
    BY <1>10 DEF ReadHash
  <2>1. CASE modules.hash = lockfile[Workspace]
    BY <1>1, <1>2, <1>10, <2>0, <2>1 DEF ReadHash, Starting, Preparing, Scripts
  <2>2. CASE modules.hash # lockfile[Workspace]
    <3>1. lockfile[Workspace] \in 0..MaxLock
      BY <2>0, WorkspaceTyped DEF Scripts
    <3>2. launcher' = [launcher EXCEPT ![p].pc = "install", ![p].newHash = lockfile[Workspace]]
      BY <1>10, <2>2 DEF ReadHash
    <3>3. pc(p)' = "install" /\ SameTask(p)
      BY <1>0, <3>1, <3>2, InstallEffect
    <3>4. QED
      BY <1>g, <2>0, <3>3 DEF Provided, SameTask, Scripts, At
  <2>3. QED
    BY <2>1, <2>2
<1>11. CASE Install(p)
  BY <1>1, <1>2, <1>11 DEF Install, Starting, Preparing, Scripts
<1>12. CASE StoreHash(p)
  <2>1. pc(p) = "store" /\ pc(p)' = "next" /\ SameTask(p)
    BY <1>0, <1>12, StoreHashEffect DEF StoreHash
  <2>2. QED
    BY <1>g, <2>1 DEF Provided, SameTask, Scripts, At
<1>13. CASE NextKind(p)
  <2>0. pc(p) = "next"
    BY <1>13 DEF NextKind
  <2>1. CASE launcher[p].mode = "tool"
    <3>1. "exec" \in Starting /\ Goto(p, "exec")
      BY <1>13, <2>1 DEF NextKind, Starting
    <3>2. pc(p)' = "exec"
      BY <1>0, <3>1, GotoEffect
    <3>3. QED
      BY <3>2, ProvidedElsewhere DEF Preparing, Scripts
  <2>2. CASE launcher[p].mode # "tool"
    <3>0. /\ launcher[p].mode = "agent" /\ launcher[p].k \in 1..Len(Kinds) /\ Len(Kinds) \in Nat
      BY <1>0, <2>2, KindsType DEF Launchers, LauncherRecord
    <3>1. Given(At(p)) /\ \A j \in 1..(launcher[p].k - 1) : Given(Kinds[j])
      BY <2>0, <3>0 DEF Provided
    <3>2. \A j \in 1..launcher[p].k : Given(Kinds[j])
      <4>1. ASSUME NEW j \in 1..launcher[p].k PROVE j = launcher[p].k \/ j \in 1..(launcher[p].k - 1)
        BY <3>0
      <4>2. QED
        BY <3>1, <4>1 DEF At
    <3>3. CASE launcher[p].k < Len(Kinds)
      <4>1. launcher[p].k + 1 \in DOMAIN Kinds
        BY <3>0, <3>3, KindsType
      <4>2. "volumes" \in Starting
        BY DEF Starting
      <4>3. launcher' = [launcher EXCEPT ![p].pc = "volumes", ![p].k = launcher[p].k + 1]
        BY <1>13, <2>2, <3>3 DEF NextKind
      <4>4. pc(p)' = "volumes" /\ launcher'[p].k = launcher[p].k + 1
        BY <1>0, <4>1, <4>2, <4>3, KindEffect
      <4>5. launcher'[p].k - 1 = launcher[p].k
        BY <3>0, <4>4
      <4>6. QED
        BY <1>g, <3>2, <4>4, <4>5 DEF Provided, Scripts
    <3>4. CASE ~(launcher[p].k < Len(Kinds))
      <4>1. launcher[p].k = Len(Kinds)
        BY <3>0, <3>4
      <4>2. \A x \in Kind : Given(x)
        BY <3>2, <4>1, KindsType
      <4>3. "proxy" \in Starting /\ Goto(p, "proxy")
        BY <1>13, <2>2, <3>4 DEF NextKind, Starting
      <4>4. pc(p)' = "proxy"
        BY <1>0, <4>3, GotoEffect
      <4>5. QED
        BY <1>g, <4>2, <4>4 DEF Provided, Scripts
    <3>5. QED
      BY <3>3, <3>4
  <2>3. QED
    BY <2>1, <2>2
<1>14. CASE StartProxyFails(p)
  <2>1. "cleanup" \in Starting /\ 1 \in DOMAIN Kinds
    BY KindsType DEF Starting
  <2>2. pc(p)' = "cleanup"
    BY <1>0, <1>14, <2>1, KindEffect DEF StartProxyFails
  <2>3. QED
    BY <2>2, ProvidedElsewhere DEF Preparing, Scripts
<1>15. CASE RemoveNetwork(p)
  <2>1. "failed" \in Starting /\ Goto(p, "failed")
    BY <1>15 DEF RemoveNetwork, Starting
  <2>2. pc(p)' = "failed"
    BY <1>0, <2>1, GotoEffect
  <2>3. QED
    BY <2>2, ProvidedElsewhere DEF Preparing, Scripts
<1>16. CASE Failed(p) \/ Killed(p)
  BY <1>0, <1>16, ExitEffect, IdleProvided DEF Failed, Killed
<1>17. QED
  BY <1>3, <1>4, <1>5, <1>6, <1>7, <1>8, <1>9, <1>10, <1>11, <1>12, <1>13, <1>14, <1>15, <1>16
     DEF Move

(* No step leaves an agent without what it was given.                       *)
LEMMA ProvidedStep ==
  ASSUME TypeOK, \A p \in Pane : Placed(p), \A p \in Pane : Provided(p), [Next]_vars
  PROVE  (\A p \in Pane : Provided(p))'
<1>0. Launchers
  BY TypeParts
<1>g. \A y \in Kind : Given(y) => Given(y)'
  BY GivenStep
<1>s. SUFFICES ASSUME NEW q \in Pane PROVE Provided(q)'
  OBVIOUS
<1>a. ASSUME Stays(q) PROVE Provided(q)'
  BY <1>a, <1>g, ProvidedKept
<1>1. ASSUME UNCHANGED launcher PROVE Provided(q)'
  BY <1>1, <1>a DEF Stays, SameTask, pc
<1>2. ASSUME NEW p \in Pane, Move(p) PROVE Provided(q)'
  <2>1. CASE q = p
    BY <1>2, <2>1, MoveProvided
  <2>2. CASE q # p
    BY <1>2, <1>a, <2>2, MoveEffect, OthersStay
  <2>3. QED
    BY <2>1, <2>2
<1>3. ASSUME NEW p \in Pane, Create(p) PROVE Provided(q)'
  <2>1. CASE q = p
    <3>1. /\ pc(p) = "create" /\ pc(p)' = Afterwards(p, TRUE) /\ SameTask(p) /\ At(p)' = At(p)
      BY <1>0, <1>3, CreateEffect DEF Create, OnlyMoves, SameTask, At
    <3>2. Given(At(p))'
      BY <1>3, CreatedContainers DEF Given
    <3>3. pc(p) \in Preparing /\ pc(p)' \in Preparing
      BY <3>1, AfterwardsIs DEF Preparing
    <3>4. QED
      BY <1>g, <2>1, <3>1, <3>2, <3>3, ProvidedOn
  <2>2. CASE q # p
    BY <1>0, <1>3, <1>a, <2>2, CreateEffect
  <2>3. QED
    BY <2>1, <2>2
<1>4. ASSUME NEW p \in Pane, ToSocket(p) PROVE Provided(q)'
  <2>1. CASE q = p
    <3>1. pc(p) \in {"proxy", "bind"} /\ pc(p)' \in {"bind", "agent"}
      BY <1>0, <1>4, ToSocketEffect
    <3>2. \A x \in Kind : Given(x)'
      BY <1>g, <3>1 DEF Provided
    <3>3. QED
      BY <2>1, <3>1, <3>2 DEF Provided, Scripts
  <2>2. CASE q # p
    BY <1>0, <1>4, <1>a, <2>2, ToSocketEffect
  <2>3. QED
    BY <2>1, <2>2
<1>5. ASSUME NEW p \in Pane, EndAgent(p) PROVE Provided(q)'
  <2>1. CASE q = p
    BY <1>0, <1>5, <2>1, EndAgentEffect, IdleProvided
  <2>2. CASE q # p
    BY <1>0, <1>5, <1>a, <2>2, EndAgentEffect
  <2>3. QED
    BY <2>1, <2>2
<1>6. ASSUME NEW p \in Pane, RunMake(p) PROVE Provided(q)'
  BY <1>0, <1>6, <1>a, RunMakeEffect, OthersStay
<1>7. ASSUME NEW x \in Kind, NEW then, Stopping(x, then) PROVE Provided(q)'
  <2>1. CASE launcher'[q] = launcher[q]
    BY <1>a, <2>1 DEF Stays, SameTask, pc
  <2>2. CASE x = Node /\ pc(q) \in Scripts /\ pc(q)' = "next" /\ SameTask(q)
    <3>1. At(q) \in Kind /\ At(q)' = At(q)
      BY <1>0, <2>2, KindsType DEF Launchers, LauncherRecord, At, SameTask
    <3>2. CASE launcher[q].mode = "agent"
      <4>1. Given(At(q))
        BY <2>2, <3>2 DEF Provided
      <4>2. Given(At(q))'
        BY <1>g, <3>1, <4>1
      <4>3. QED
        BY <1>g, <2>2, <4>2, ProvidedOn DEF Preparing
    <3>3. CASE launcher[q].mode # "agent"
      BY <2>2, <3>3 DEF Provided, SameTask
    <3>4. QED
      BY <3>2, <3>3
  <2>3. CASE launcher'[q] = Idle
    BY <2>3, IdleProvided
  <2>4. CASE pc(q)' \in {"cleanup", "removal"}
    BY <2>4, ProvidedElsewhere DEF Preparing, Scripts
  <2>5. QED
    BY <1>7, <2>1, <2>2, <2>3, <2>4, StoppingCases
<1>8. QED
  BY <1>1, <1>2, <1>3, <1>4, <1>5, <1>6, <1>7, NextKinds DEF EditLockfile, CleanBegins, vars

-----------------------------------------------------------------------------
(* Whose proxy has the socket.                                              *)

(* A socket that is bound belongs to no other agent: the path was free.     *)
LEMMA SocketStep ==
  ASSUME TypeOK, \A p \in Pane : Placed(p), SocketIsOwn, [Next]_vars
  PROVE  SocketIsOwn'
<1>0. Launchers
  BY TypeParts
<1>s. SUFFICES ASSUME NEW q \in Pane, pc(q)' = "agent", launcher'[q].last
               PROVE  socket' = q
  BY DEF SocketIsOwn
<1>i. launcher'[q] # Idle
  BY <1>s DEF pc, Idle
<1>a. ASSUME pc(q)' = pc(q), launcher'[q].last = launcher[q].last, socket' = socket
      PROVE  socket' = q
  BY <1>a, <1>s DEF SocketIsOwn
<1>1. ASSUME UNCHANGED <<launcher, socket>> PROVE socket' = q
  BY <1>1, <1>a DEF pc
<1>2. ASSUME NEW p \in Pane, Move(p) PROVE socket' = q
  <2>1. q # p
    BY <1>2, <1>i, <1>s, MoveEffect DEF Starting
  <2>2. QED
    BY <1>2, <1>a, <2>1, MoveEffect, OthersStay DEF Stays
<1>3. ASSUME NEW p \in Pane, Create(p) PROVE socket' = q
  <2>1. q # p
    BY <1>0, <1>3, <1>s, CreateEffect, AfterwardsIs
  <2>2. QED
    BY <1>0, <1>3, <1>a, <2>1, CreateEffect DEF Stays, Create
<1>r. ASSUME NEW p \in Pane, RemoveSocket(p) PROVE FALSE
  BY <1>0, <1>r, <1>s, RemoveSocketEffect
<1>4. ASSUME NEW p \in Pane, StartProxy(p) PROVE socket' = q
  <2>1. CASE q = p
    BY <1>4, <2>1 DEF StartProxy
  <2>2. CASE q # p
    <3>1. launcher'[q] = launcher[q]
      BY <1>0, <1>4, <2>2, StartProxyEffect DEF Others
    <3>2. socket = q
      BY <1>s, <3>1 DEF SocketIsOwn, pc
    <3>3. socket = None /\ None \notin Pane
      BY <1>4, SessionAssumption DEF StartProxy
    <3>4. QED
      BY <3>2, <3>3
  <2>3. QED
    BY <2>1, <2>2
<1>5. ASSUME NEW p \in Pane, EndAgent(p) PROVE FALSE
  BY <1>0, <1>5, <1>i, <1>s, EndAgentEffect
<1>6. ASSUME NEW p \in Pane, RunMake(p) PROVE socket' = q
  <2>1. Stays(q) /\ launcher'[q].last = launcher[q].last
    BY <1>0, <1>6, RunMakeEffect, OthersStay
  <2>2. QED
    BY <1>6, <1>a, <2>1 DEF RunMake, Stays
<1>7. ASSUME NEW x \in Kind, NEW then, Stopping(x, then) PROVE socket' = q
  <2>1. launcher'[q] = launcher[q]
    BY <1>7, <1>i, <1>s, StoppingCases
  <2>2. QED
    BY <1>7, <1>a, <2>1 DEF Stopping, pc
<1>8. QED
  BY <1>1, <1>2, <1>3, <1>r, <1>4, <1>5, <1>6, <1>7, NextKinds
     DEF EditLockfile, CleanBegins, vars, ToSocket

-----------------------------------------------------------------------------
(* What a proxy knows.                                                      *)

(* The least of some natural numbers is one of them.                        *)
LEMMA MinIsLeast ==
  ASSUME NEW S, S \subseteq Nat, S # {}
  PROVE  Min(S) \in S /\ \A y \in S : Min(S) <= y
<1> DEFINE less == OpToRel(<, Nat)
<1>1. \A x, y \in Nat : <<x, y>> \in less <=> x < y
  BY DEF OpToRel
<1>2. IsWellFoundedOn(less, Nat)
  BY NatLessThanWellFounded
<1> HIDE DEF less
<1>3. PICK x \in S : \A y \in S : ~(<<y, x>> \in less)
  BY <1>2, WFMin
<1>4. ASSUME NEW y \in S PROVE x <= y
  <2>1. x \in Nat /\ y \in Nat
    OBVIOUS
  <2>2. ~(y < x)
    BY <1>1, <1>3, <2>1
  <2>3. QED
    BY <2>1, <2>2
<1>5. QED
  BY <1>4 DEF Min

(* Knowledge stays right while no new container is created.                 *)
LEMMA InformedKept ==
  ASSUME NEW q \in Pane, Informed(q), SameMemory(q), pc(q) = "agent" => pc(q)' = "agent",
         \A x \in Kind : Running(x)' => sidecar'[x] = sidecar[x]
  PROVE  Informed(q)'
<1>1. ASSUME NEW x \in Kind, Running(x)' PROVE Running(x)
  BY <1>1 DEF Running
<1>2. QED
  BY <1>1 DEF Informed, SameMemory

(* A launcher that has returned knows nothing.                              *)
LEMMA IdleInformed ==
  ASSUME NEW q \in Pane, launcher'[q] = Idle
  PROVE  Informed(q)'
<1>1. None # "missed"
  BY DEF None
<1>2. /\ launcher'[q].cache = Unknown /\ launcher'[q].ran = None
      /\ \A x \in Kind : launcher'[q].cache[x] = "unknown"
  BY DEF Idle, Unknown
<1>3. QED
  BY <1>1, <1>2 DEF Informed

(* Where "make" is looked for.                                              *)
LEMMA SelectIs ==
  ASSUME NEW p, NEW timely
  PROVE  \/ /\ Select(p, timely) = Len(Kinds) + 1
            /\ \A i \in DOMAIN Kinds : ~(Running(Kinds[i]) /\ Known(p, Kinds[i], timely))
         \/ /\ Select(p, timely) \in DOMAIN Kinds
            /\ Running(Kinds[Select(p, timely)])
            /\ Known(p, Kinds[Select(p, timely)], timely)
<1> DEFINE ok == {i \in DOMAIN Kinds : Running(Kinds[i]) /\ Known(p, Kinds[i], timely)}
<1>1. Select(p, timely) = IF ok = {} THEN Len(Kinds) + 1 ELSE Min(ok)
  BY DEF Select
<1>2. ok \subseteq Nat
  BY KindsType
<1>3. CASE ok = {}
  BY <1>1, <1>3
<1>4. CASE ok # {}
  <2>1. Min(ok) \in ok
    BY <1>2, <1>4, MinIsLeast
  <2>2. QED
    BY <1>1, <1>4, <2>1
<1>5. QED
  BY <1>3, <1>4

(* One past the last kind, every kind has been asked.                       *)
LEMMA ProbedIs ==
  ASSUME NEW p, NEW timely, Select(p, timely) = Len(Kinds) + 1
  PROVE  \A x \in Kind : Running(x) /\ launcher[p].cache[x] = "unknown" => x \in Probed(p, timely)
<1>1. Min({Select(p, timely), Len(Kinds)}) = Len(Kinds)
  <2>1. {Select(p, timely), Len(Kinds)} = {Len(Kinds) + 1, Len(Kinds)}
    OBVIOUS
  <2>2. {Len(Kinds) + 1, Len(Kinds)} \subseteq Nat
    BY KindsType
  <2>3. /\ Min({Len(Kinds) + 1, Len(Kinds)}) \in {Len(Kinds) + 1, Len(Kinds)}
        /\ Min({Len(Kinds) + 1, Len(Kinds)}) <= Len(Kinds)
    BY <2>2, MinIsLeast
  <2>4. QED
    BY <2>1, <2>3, KindsType
<1>2. \A x \in Kind : x \in {Kinds[j] : j \in 1..Len(Kinds)}
  BY KindsType
<1>3. QED
  BY <1>1, <1>2 DEF Probed

(* What a "make" learns is so, unless a probe timed out.                    *)
LEMMA RunMakeInforms ==
  ASSUME TypeOK, NEW p \in Pane, Informed(p), RunMake(p)
  PROVE  Informed(p)'
<1>0. Launchers /\ launcher[p] \in LauncherRecord
  BY TypedLaunchers DEF Launchers
<1>1. PICK timely \in SUBSET Kind :
        /\ launcher'[p].cache =
             [x \in Kind |-> IF x \notin Probed(p, timely) THEN launcher[p].cache[x]
                             ELSE IF Known(p, x, timely) THEN "yes" ELSE "no"]
        /\ launcher'[p].spoilt =
             (launcher[p].spoilt \/ \E x \in Probed(p, timely) : Has(x) /\ x \notin timely)
        /\ launcher'[p].ran = IF ~Has(Chosen(p, timely)) /\ \E x \in Kind : Has(x)
                              THEN "missed" ELSE None
  BY <1>0, RunMakeEffect
<1>2. pc(p)' = "agent" /\ pc(p) = "agent"
  BY <1>0, RunMakeEffect DEF Stays, RunMake
<1>3. UNCHANGED sidecar
  BY DEF RunMake, containers
<1>4. SUFFICES ASSUME ~launcher'[p].spoilt
               PROVE  /\ launcher'[p].ran # "missed"
                      /\ \A x \in Kind : launcher'[p].cache[x] # "unknown" /\ Running(x)
                           => (launcher'[p].cache[x] = "yes" <=> HasTool[sidecar[x].at][x])
  BY <1>2, <1>3 DEF Informed, Running
<1>5. /\ ~launcher[p].spoilt
      /\ \A x \in Probed(p, timely) : Has(x) => x \in timely
  BY <1>1, <1>4
<1>6. \A x \in Kind : launcher[p].cache[x] # "unknown" /\ Running(x)
                        => (launcher[p].cache[x] = "yes" <=> HasTool[sidecar[x].at][x])
  BY <1>5 DEF Informed
(* What this "make" takes a running sidecar for is so. *)
<1>7. \A x \in Kind : Running(x) /\ (x \in Probed(p, timely) \/ launcher[p].cache[x] # "unknown")
                        => (Known(p, x, timely) <=> HasTool[sidecar[x].at][x])
  BY <1>5, <1>6 DEF Known, Has, Probed
<1>8. ASSUME NEW x \in Kind, launcher'[p].cache[x] # "unknown", Running(x)
      PROVE  launcher'[p].cache[x] = "yes" <=> HasTool[sidecar[x].at][x]
  <2>1. CASE x \in Probed(p, timely)
    <3>1. launcher'[p].cache[x] = IF Known(p, x, timely) THEN "yes" ELSE "no"
      BY <1>1, <2>1
    <3>2. QED
      BY <1>7, <1>8, <2>1, <3>1
  <2>2. CASE x \notin Probed(p, timely)
    <3>1. launcher'[p].cache[x] = launcher[p].cache[x]
      BY <1>1, <2>2
    <3>2. QED
      BY <1>6, <1>8, <3>1
  <2>3. QED
    BY <2>1, <2>2
<1>9. launcher'[p].ran # "missed"
  <2>1. SUFFICES ASSUME NEW x \in Kind, Has(x), ~Has(Chosen(p, timely)) PROVE FALSE
    BY <1>1 DEF None
  <2>2. CASE Select(p, timely) = Len(Kinds) + 1
              /\ \A i \in DOMAIN Kinds : ~(Running(Kinds[i]) /\ Known(p, Kinds[i], timely))
    <3>1. Running(x) /\ HasTool[sidecar[x].at][x]
      BY <2>1 DEF Has
    <3>2. x \in Probed(p, timely) \/ launcher[p].cache[x] # "unknown"
      BY <2>2, <3>1, ProbedIs
    <3>3. Known(p, x, timely)
      BY <1>7, <3>1, <3>2
    <3>4. QED
      BY <2>2, <3>1, <3>3, KindsType
  <2>3. CASE /\ Select(p, timely) \in DOMAIN Kinds
             /\ Running(Kinds[Select(p, timely)])
             /\ Known(p, Kinds[Select(p, timely)], timely)
    <3> DEFINE y == Kinds[Select(p, timely)]
    <3>1. Chosen(p, timely) = y /\ y \in Kind
      BY <2>3, KindsType DEF Chosen
    <3>2. Running(y) /\ Known(p, y, timely)
      BY <2>3
    <3> HIDE DEF y
    <3>3. Has(y)
      <4>1. CASE launcher[p].cache[y] # "unknown"
        BY <1>7, <3>1, <3>2, <4>1 DEF Has
      <4>2. CASE launcher[p].cache[y] = "unknown"
        BY <3>2, <4>2 DEF Known
      <4>3. QED
        BY <4>1, <4>2
    <3>4. QED
      BY <2>1, <3>1, <3>3
  <2>4. QED
    BY <2>2, <2>3, SelectIs
<1>10. QED
  BY <1>8, <1>9

(* Every step keeps the proxies' knowledge right, or spoilt.                *)
LEMMA InformedStep ==
  ASSUME TypeOK, \A p \in Pane : Placed(p), \A p \in Pane : Informed(p), [Next]_vars
  PROVE  (\A p \in Pane : Informed(p))'
<1>0. Launchers
  BY TypeParts
<1>s. SUFFICES ASSUME NEW q \in Pane PROVE Informed(q)'
  OBVIOUS
<1>a. ASSUME SameMemory(q), pc(q) = "agent" => pc(q)' = "agent", UNCHANGED sidecar
      PROVE  Informed(q)'
  BY <1>a, InformedKept
<1>1. ASSUME UNCHANGED <<launcher, sidecar>> PROVE Informed(q)'
  BY <1>1, <1>a DEF SameMemory, pc
<1>2. ASSUME NEW p \in Pane, Move(p) PROVE Informed(q)'
  <2>1. UNCHANGED sidecar
    BY <1>2, MoveEffect DEF containers
  <2>2. CASE q = p
    BY <1>2, <1>a, <2>1, <2>2, MoveEffect, IdleInformed
  <2>3. CASE q # p
    BY <1>2, <1>a, <2>1, <2>3, MoveEffect, OthersStay DEF Stays
  <2>4. QED
    BY <2>2, <2>3
<1>3. ASSUME NEW p \in Pane, Create(p) PROVE Informed(q)'
  <2>0. /\ At(p) \in Kind /\ ~Running(At(p))
        /\ \A y \in Kind \ {At(p)} : sidecar'[y] = sidecar[y]
    BY <1>3, CreatedContainers
  <2>1. CASE q = p
    <3>1. /\ SameMemory(p) /\ pc(p) = "create" /\ pc(p)' # "agent"
      BY <1>0, <1>3, CreateEffect, AfterwardsIs DEF OnlyMoves, Create
    <3>2. launcher'[p].cache = Unknown
      BY <3>1 DEF Informed, SameMemory
    <3>3. \A x \in Kind : launcher'[p].cache[x] = "unknown"
      BY <3>2 DEF Unknown
    <3>4. ~launcher'[p].spoilt => launcher'[p].ran # "missed"
      BY <3>1 DEF Informed, SameMemory
    <3>5. QED
      BY <2>1, <3>2, <3>3, <3>4 DEF Informed
  <2>2. CASE q # p
    <3>1. /\ pc(q)' = pc(q)
          /\ launcher'[q].cache = launcher[q].cache /\ launcher'[q].ran = launcher[q].ran
          /\ launcher'[q].spoilt = (launcher[q].spoilt \/ launcher[q].cache[At(p)] # "unknown")
      BY <1>0, <1>3, <2>2, CreateEffect DEF Stays
    <3>2. pc(q)' # "agent" => launcher'[q].cache = Unknown
      BY <3>1 DEF Informed
    <3>3. ASSUME ~launcher'[q].spoilt
          PROVE  /\ launcher'[q].ran # "missed"
                 /\ \A x \in Kind : launcher'[q].cache[x] # "unknown" /\ Running(x)'
                      => (launcher'[q].cache[x] = "yes" <=> HasTool[sidecar'[x].at][x])
      <4>1. ~launcher[q].spoilt /\ launcher[q].cache[At(p)] = "unknown"
        BY <3>1, <3>3
      <4>2. ASSUME NEW x \in Kind, launcher'[q].cache[x] # "unknown", Running(x)'
            PROVE  launcher'[q].cache[x] = "yes" <=> HasTool[sidecar'[x].at][x]
        <5>1. x # At(p)
          BY <3>1, <4>1, <4>2
        <5>2. sidecar'[x] = sidecar[x]
          BY <2>0, <5>1
        <5>3. Running(x)
          BY <4>2, <5>2 DEF Running
        <5>4. QED
          BY <3>1, <4>1, <4>2, <5>2, <5>3 DEF Informed
      <4>3. QED
        BY <3>1, <4>1, <4>2 DEF Informed
    <3>4. QED
      BY <3>2, <3>3 DEF Informed
  <2>3. QED
    BY <2>1, <2>2
<1>4. ASSUME NEW p \in Pane, ToSocket(p) PROVE Informed(q)'
  <2>1. UNCHANGED sidecar /\ pc(p) # "agent"
    BY <1>0, <1>4, ToSocketEffect DEF containers
  <2>2. SameMemory(q) /\ (q # p => pc(q)' = pc(q))
    BY <1>0, <1>4, ToSocketEffect DEF Stays
  <2>3. QED
    BY <1>a, <2>1, <2>2
<1>5. ASSUME NEW p \in Pane, EndAgent(p) PROVE Informed(q)'
  <2>1. UNCHANGED sidecar
    BY <1>5 DEF EndAgent, containers
  <2>2. CASE q = p
    BY <1>0, <1>5, <2>2, EndAgentEffect, IdleInformed
  <2>3. CASE q # p
    BY <1>0, <1>5, <1>a, <2>1, <2>3, EndAgentEffect DEF Stays
  <2>4. QED
    BY <2>2, <2>3
<1>6. ASSUME NEW p \in Pane, RunMake(p) PROVE Informed(q)'
  <2>1. CASE q = p
    BY <1>6, <2>1, RunMakeInforms
  <2>2. CASE q # p
    <3>1. UNCHANGED sidecar
      BY <1>6 DEF RunMake, containers
    <3>2. QED
      BY <1>0, <1>6, <1>a, <2>2, <3>1, RunMakeEffect, OthersStay DEF Stays
  <2>3. QED
    BY <2>1, <2>2
<1>7. ASSUME NEW x \in Kind, NEW then, Stopping(x, then) PROVE Informed(q)'
  <2>0. \A y \in Kind : Running(y)' => sidecar'[y] = sidecar[y]
    BY <1>7, StoppedContainers
  <2>1. CASE launcher'[q] = Idle
    BY <2>1, IdleInformed
  <2>2. CASE SameMemory(q) /\ (pc(q) = "agent" => pc(q)' = "agent")
    BY <2>0, <2>2, InformedKept
  <2>3. CASE launcher'[q] = launcher[q]
    BY <2>2, <2>3 DEF SameMemory, pc
  <2>4. QED
    BY <1>7, <2>1, <2>2, <2>3, StoppingCases DEF Scripts
<1>8. QED
  BY <1>1, <1>2, <1>3, <1>4, <1>5, <1>6, <1>7, NextKinds
     DEF EditLockfile, CleanBegins, vars, containers

-----------------------------------------------------------------------------
(* Where a move leads.                                                      *)

(* The moves, by where they lead.                                           *)
LEMMA MoveWhere ==
  ASSUME TypeOK, NEW p \in Pane, Placed(p), Move(p)
  PROVE  \/ Launch(p) /\ pc(p)' = "network"
         \/ ReadHash(p) /\ pc(p)' \in {"install", "next"}
         \/ Install(p) /\ pc(p)' = "store"
         \/ StoreHash(p) /\ pc(p)' = "next"
         \/ StartProxyFails(p) /\ pc(p)' = "cleanup" /\ launcher'[p].k = 1
         \/ RemoveNetwork(p) /\ pc(p)' = "failed" /\ launcher'[p].isolated = launcher[p].isolated
         \/ /\ pc(p) \notin {"shell", "install", "store"}
            /\ pc(p)' \notin {"cleanup", "removal", "failed", "install", "store"}
            /\ starts' = starts /\ lockfile' = lockfile /\ excuse' = excuse
            /\ modules'.lock = modules.lock /\ modules'.hash = modules.hash
<1>0. Launchers /\ modules \in [stamp : BOOLEAN, owned : BOOLEAN, lock : 0..MaxLock, hash : 0..MaxLock]
  BY TypeParts DEF RestTyped
<1>1. ASSUME NEW there, there \in Starting, Goto(p, there) PROVE pc(p)' = there
  BY <1>0, <1>1, GotoEffect
<1>2. ASSUME Exit(p) PROVE pc(p)' = "shell"
  BY <1>0, <1>2, ExitEffect, IdlePlaced
<1>3. ASSUME UNCHANGED <<starts, volume>>
      PROVE  /\ starts' = starts /\ lockfile' = lockfile /\ excuse' = excuse
             /\ modules'.lock = modules.lock /\ modules'.hash = modules.hash
  BY <1>3 DEF volume
<1>4. CASE Launch(p)
  BY <1>0, <1>4, LaunchEffect
<1>5. CASE ChooseNetwork(p)
  <2>1. pc(p) = "network" /\ pc(p)' = "volumes"
    BY <1>0, <1>5, ChooseNetworkEffect
  <2>2. QED
    BY <1>3, <1>5, <2>1 DEF ChooseNetwork
<1>6. CASE InitVolumes(p)
  <2>1. pc(p) = "volumes" /\ pc(p)' = "inspect"
    BY <1>1, <1>6 DEF InitVolumes, Starting
  <2>2. modules'.lock = modules.lock /\ modules'.hash = modules.hash
    BY <1>0, <1>6 DEF InitVolumes
  <2>3. QED
    BY <1>6, <2>1, <2>2 DEF InitVolumes
<1>7. CASE Inspect(p)
  <2>1. pc(p)' \in {"create", "overlay", "next"}
    <3>1. (IF Running(At(p)) THEN Afterwards(p, FALSE) ELSE "create") \in {"create", "overlay", "next"}
      BY AfterwardsIs
    <3>2. QED
      BY <1>1, <1>7, <3>1 DEF Inspect, Starting
  <2>2. QED
    BY <1>3, <1>7, <2>1 DEF Inspect
<1>8. CASE CreateFails(p)
  <2>1. pc(p) = "create" /\ pc(p)' = "again"
    BY <1>1, <1>8 DEF CreateFails, Starting
  <2>2. QED
    BY <1>3, <1>8, <2>1 DEF CreateFails
<1>9. CASE LookAgain(p)
  <2>1. pc(p) = "again" /\ pc(p)' \in {"overlay", "next", "shell"}
    <3>1. CASE Running(At(p))
      BY <1>1, <1>9, <3>1, AfterwardsIs DEF LookAgain, Starting
    <3>2. CASE ~Running(At(p))
      BY <1>2, <1>9, <3>2 DEF LookAgain
    <3>3. QED
      BY <3>1, <3>2
  <2>2. QED
    BY <1>3, <1>9, <2>1 DEF LookAgain
<1>10. CASE Guard(p)
  <2>1. pc(p) = "overlay" /\ pc(p)' \in {"hash", "next", "shell"}
    <3>1. (IF Running(Node) THEN "hash" ELSE "next") \in {"hash", "next"}
      OBVIOUS
    <3>2. QED
      BY <1>1, <1>2, <1>10, <3>1 DEF Guard, Starting
  <2>2. QED
    BY <1>3, <1>10, <2>1 DEF Guard
<1>11. CASE ReadHash(p)
  <2>1. CASE modules.hash = lockfile[Workspace]
    BY <1>1, <1>11, <2>1 DEF ReadHash, Starting
  <2>2. CASE modules.hash # lockfile[Workspace]
    <3>1. lockfile[Workspace] \in 0..MaxLock
      BY <1>11, WorkspaceTyped DEF ReadHash, Scripts
    <3>2. launcher' = [launcher EXCEPT ![p].pc = "install", ![p].newHash = lockfile[Workspace]]
      BY <1>11, <2>2 DEF ReadHash
    <3>3. QED
      BY <1>0, <1>11, <3>1, <3>2, InstallEffect
  <2>3. QED
    BY <2>1, <2>2
<1>12. CASE Install(p)
  BY <1>1, <1>12 DEF Install, Starting
<1>13. CASE StoreHash(p)
  BY <1>0, <1>13, StoreHashEffect
<1>14. CASE NextKind(p)
  <2>0. pc(p) = "next" /\ UNCHANGED <<starts, volume>>
    BY <1>14 DEF NextKind
  <2>1. CASE launcher[p].mode = "tool"
    <3>1. pc(p)' = "exec"
      BY <1>1, <1>14, <2>1 DEF NextKind, Starting
    <3>2. QED
      BY <1>3, <2>0, <3>1
  <2>2. CASE launcher[p].mode # "tool" /\ launcher[p].k < Len(Kinds)
    <3>1. launcher[p].k + 1 \in DOMAIN Kinds
      BY <1>0, <2>2, KindsType DEF Launchers, LauncherRecord
    <3>2. "volumes" \in Starting
      BY DEF Starting
    <3>3. launcher' = [launcher EXCEPT ![p].pc = "volumes", ![p].k = launcher[p].k + 1]
      BY <1>14, <2>2 DEF NextKind
    <3>4. pc(p)' = "volumes"
      BY <1>0, <3>1, <3>2, <3>3, KindEffect
    <3>5. QED
      BY <1>3, <2>0, <3>4
  <2>3. CASE launcher[p].mode # "tool" /\ ~(launcher[p].k < Len(Kinds))
    <3>1. pc(p)' = "proxy"
      BY <1>1, <1>14, <2>3 DEF NextKind, Starting
    <3>2. QED
      BY <1>3, <2>0, <3>1
  <2>4. QED
    BY <2>1, <2>2, <2>3
<1>15. CASE StartProxyFails(p)
  <2>1. "cleanup" \in Starting /\ 1 \in DOMAIN Kinds
    BY KindsType DEF Starting
  <2>2. QED
    BY <1>0, <1>15, <2>1, KindEffect DEF StartProxyFails
<1>16. CASE RemoveNetwork(p)
  <2>1. "failed" \in Starting /\ Goto(p, "failed")
    BY <1>16 DEF RemoveNetwork, Starting
  <2>2. QED
    BY <1>0, <1>16, <2>1, GotoEffect DEF OnlyMoves, SameTask
<1>17. CASE Failed(p)
  <2>1. pc(p) = "failed" /\ pc(p)' = "shell"
    BY <1>2, <1>17 DEF Failed
  <2>2. QED
    BY <1>3, <1>17, <2>1 DEF Failed
<1>18. CASE Killed(p)
  <2>1. pc(p) \notin {"shell", "install", "store"} /\ pc(p)' = "shell"
    BY <1>2, <1>18 DEF Killed
  <2>2. QED
    BY <1>3, <1>18, <2>1 DEF Killed
<1>19. QED
  BY <1>4, <1>5, <1>6, <1>7, <1>8, <1>9, <1>10, <1>11, <1>12, <1>13, <1>14, <1>15, <1>16,
     <1>17, <1>18 DEF Move

-----------------------------------------------------------------------------
(* The first launcher, alone.                                               *)

(* Nobody leaves the shell but by a launch.                                 *)
LEMMA StartsKept ==
  ASSUME TypeOK, \A p \in Pane : Placed(p), [Next]_vars
  PROVE  \/ \E p \in Pane : Launch(p) /\ Others(p) /\ pc(p)' = "network" /\ starts' = starts + 1
         \/ starts' = starts /\ \A q \in Pane : pc(q)' # "shell" => pc(q) # "shell"
<1>0. Launchers
  BY TypeParts
<1>1. CASE UNCHANGED vars
  BY <1>1 DEF vars, pc
<1>2. ASSUME NEW p \in Pane, Move(p), ~Launch(p)
      PROVE  starts' = starts /\ \A q \in Pane : pc(q)' # "shell" => pc(q) # "shell"
  <2>1. pc(p) # "shell" /\ starts' = starts
    BY <1>2, MoveWhere DEF ReadHash, Install, StoreHash, StartProxyFails, RemoveNetwork
  <2>2. \A q \in Pane \ {p} : pc(q)' = pc(q)
    BY <1>2, MoveEffect, OthersStay DEF Stays
  <2>3. QED
    BY <2>1, <2>2
<1>3. ASSUME NEW p \in Pane, Launch(p)
      PROVE  Launch(p) /\ Others(p) /\ pc(p)' = "network" /\ starts' = starts + 1
  BY <1>0, <1>3, LaunchEffect DEF Launch
<1>4. ASSUME NEW p \in Pane, Create(p)
      PROVE  starts' = starts /\ \A q \in Pane : pc(q)' # "shell" => pc(q) # "shell"
  BY <1>0, <1>4, CreateEffect DEF Create, Stays
<1>5. ASSUME NEW p \in Pane, ToSocket(p)
      PROVE  starts' = starts /\ \A q \in Pane : pc(q)' # "shell" => pc(q) # "shell"
  BY <1>0, <1>5, ToSocketEffect DEF Stays
<1>6. ASSUME NEW p \in Pane, EndAgent(p)
      PROVE  starts' = starts /\ \A q \in Pane : pc(q)' # "shell" => pc(q) # "shell"
  BY <1>0, <1>6, EndAgentEffect DEF EndAgent, Stays
<1>7. ASSUME NEW p \in Pane, RunMake(p)
      PROVE  starts' = starts /\ \A q \in Pane : pc(q)' # "shell" => pc(q) # "shell"
  BY <1>0, <1>7, RunMakeEffect, OthersStay DEF RunMake, Stays
<1>8. ASSUME UNCHANGED <<launcher, starts>>
      PROVE  starts' = starts /\ \A q \in Pane : pc(q)' # "shell" => pc(q) # "shell"
  BY <1>8 DEF pc
<1>9. ASSUME NEW x \in Kind, NEW then, Stopping(x, then)
      PROVE  starts' = starts /\ \A q \in Pane : pc(q)' # "shell" => pc(q) # "shell"
  <2>1. ASSUME NEW q \in Pane, pc(q)' # "shell" PROVE pc(q) # "shell"
    <3>1. CASE launcher'[q] = launcher[q]
      BY <2>1, <3>1 DEF pc
    <3>2. QED
      BY <1>9, <2>1, <3>1, StoppingCases, IdlePlaced DEF Scripts
  <2>2. QED
    BY <1>9, <2>1 DEF Stopping
<1>10. QED
  BY <1>1, <1>2, <1>3, <1>4, <1>5, <1>6, <1>7, <1>8, <1>9, NextKinds DEF EditLockfile, CleanBegins

(* The first launcher stays alone until the second launch.                  *)
LEMMA AloneStep ==
  ASSUME TypeOK, \A p \in Pane : Placed(p), Alone, [Next]_vars
  PROVE  Alone'
<1>0. starts \in Nat
  BY DEF TypeOK
<1>1. CASE starts' = starts /\ \A q \in Pane : pc(q)' # "shell" => pc(q) # "shell"
  BY <1>1 DEF Alone
<1>2. ASSUME NEW p \in Pane, Others(p), starts' = starts + 1 PROVE Alone'
  <2>1. \A q \in Pane \ {p} : pc(q)' = pc(q)
    BY <1>2 DEF Others, pc
  <2>2. starts' # 0 /\ (starts' = 1 => starts = 0)
    BY <1>0, <1>2
  <2>3. QED
    BY <2>1, <2>2 DEF Alone
<1>3. QED
  BY <1>1, <1>2, StartsKept

(* Emptied speaks of the end of a failed start only.                        *)
LEMMA EmptiedElsewhere ==
  ASSUME NEW q \in Pane, pc(q)' \notin {"cleanup", "removal", "failed"}
  PROVE  Emptied(q)'
  BY DEF Emptied

(* What is gone stays gone while nobody creates anything.                   *)
LEMMA EmptiedKept ==
  ASSUME TypeOK, NEW q \in Pane, Emptied(q), Stays(q), starts' = starts,
         \A y \in Kind : Running(y)' => Running(y), network' => network
  PROVE  Emptied(q)'
<1>1. \A j \in 1..(launcher[q].k - 1) : Kinds[j] \in Kind
  BY TypedLaunchers, EarlierKinds
<1>2. /\ pc(q)' = pc(q) /\ launcher'[q].k = launcher[q].k
      /\ launcher'[q].isolated = launcher[q].isolated
  BY DEF Stays, SameTask
<1>3. QED
  BY <1>1, <1>2 DEF Emptied

(* The cleanup of a launcher that is alone loses nothing it has removed.    *)
LEMMA EmptiedStep ==
  ASSUME TypeOK, \A p \in Pane : Placed(p), Alone, \A p \in Pane : Emptied(p), [Next]_vars
  PROVE  (\A p \in Pane : Emptied(p))'
<1>0. Launchers
  BY TypeParts
<1>s. SUFFICES ASSUME NEW q \in Pane, starts' = 1, pc(q)' \in {"cleanup", "removal", "failed"}
               PROVE  Emptied(q)'
  BY DEF Emptied
<1>1. starts = 1 /\ starts' = starts /\ pc(q) # "shell"
  <2>1. ASSUME NEW p \in Pane, Others(p), pc(p)' = "network", starts' = starts + 1 PROVE FALSE
    <3>1. q # p /\ pc(q)' = pc(q)
      BY <1>s, <2>1 DEF Others, pc
    <3>2. starts = 0
      BY <1>s, <2>1 DEF TypeOK
    <3>3. QED
      BY <1>s, <3>1, <3>2 DEF Alone
  <2>2. QED
    BY <1>s, <2>1, StartsKept
<1>2. \A p \in Pane : pc(p) # "shell" => p = q
  BY <1>1 DEF Alone
<1>3. ASSUME UNCHANGED <<launcher, containers, network>> PROVE Emptied(q)'
  BY <1>1, <1>3, EmptiedKept DEF Stays, SameTask, pc, containers, Running
<1>4. ASSUME NEW p \in Pane, Move(p) PROVE Emptied(q)'
  <2>1. pc(p) # "shell" /\ ~Launch(p)
    <3>1. ~Launch(p)
      BY <1>1 DEF Launch, TypeOK
    <3>2. QED
      BY <1>4, <3>1, MoveWhere DEF ReadHash, Install, StoreHash, StartProxyFails, RemoveNetwork
  <2>2. p = q
    BY <1>2, <2>1
  <2>3. CASE StartProxyFails(p) /\ pc(p)' = "cleanup" /\ launcher'[p].k = 1
    <3>1. \A j \in 1..(1 - 1) : FALSE
      OBVIOUS
    <3>2. QED
      BY <2>2, <2>3, <3>1 DEF Emptied
  <2>4. CASE RemoveNetwork(p) /\ pc(p)' = "failed" /\ launcher'[p].isolated = launcher[p].isolated
    <3>1. \A x \in Kind : ~Running(x)
      BY <1>1, <2>2, <2>4 DEF Emptied, RemoveNetwork
    <3>2. \A x \in Kind : ~sidecar[x].isolated
      BY <3>1 DEF Running, NoSidecar
    <3>3. network' = (network /\ (launcher[p].isolated => \E x \in Kind : sidecar[x].isolated))
      BY <2>4 DEF RemoveNetwork
    <3>4. launcher'[p].isolated => ~network'
      BY <2>4, <3>2, <3>3
    <3>5. \A x \in Kind : ~Running(x)'
      BY <2>4, <3>1 DEF RemoveNetwork, containers, Running
    <3>6. QED
      BY <2>2, <2>4, <3>4, <3>5 DEF Emptied
  <2>5. QED
    BY <1>4, <1>s, <2>1, <2>2, <2>3, <2>4, MoveWhere
<1>5. ASSUME NEW p \in Pane, Create(p) PROVE FALSE
  <2>1. p = q
    BY <1>2, <1>5 DEF Create
  <2>2. QED
    BY <1>0, <1>5, <1>s, <2>1, CreateEffect, AfterwardsIs
<1>6. ASSUME NEW p \in Pane, ToSocket(p) PROVE FALSE
  <2>1. p = q
    BY <1>0, <1>2, <1>6, ToSocketEffect
  <2>2. QED
    BY <1>0, <1>6, <1>s, <2>1, ToSocketEffect
<1>7. ASSUME NEW p \in Pane, EndAgent(p) PROVE FALSE
  <2>1. p = q
    BY <1>2, <1>7 DEF EndAgent
  <2>2. QED
    BY <1>0, <1>7, <1>s, <2>1, EndAgentEffect, IdlePlaced
<1>8. ASSUME NEW p \in Pane, RunMake(p) PROVE FALSE
  <2>1. p = q /\ pc(p) = "agent"
    BY <1>2, <1>8 DEF RunMake
  <2>2. QED
    BY <1>0, <1>8, <1>s, <2>1, RunMakeEffect DEF Stays
<1>9. ASSUME NEW x \in Kind, NEW then, Stopping(x, then) PROVE Emptied(q)'
  <2>0. /\ ~Running(x)' /\ \A y \in Kind : Running(y)' => Running(y)
        /\ network' = network
    BY <1>9, StoppedContainers DEF Running, Stopping
  <2>1. CASE launcher'[q] = launcher[q]
    BY <1>1, <2>0, <2>1, EmptiedKept DEF Stays, SameTask, pc
  <2>2. CASE /\ x = At(q) /\ pc(q) = "cleanup"
             /\ \/ /\ launcher[q].k < Len(Kinds)
                   /\ launcher'[q].k = launcher[q].k + 1 /\ pc(q)' = "cleanup"
                \/ ~(launcher[q].k < Len(Kinds)) /\ pc(q)' = "removal"
    <3>0. launcher[q].k \in 1..Len(Kinds) /\ Len(Kinds) \in Nat
      BY <1>0, KindsType DEF Launchers, LauncherRecord
    <3>1. \A j \in 1..(launcher[q].k - 1) : ~Running(Kinds[j]) /\ Kinds[j] \in Kind
      BY <1>0, <1>1, <2>2, EarlierKinds DEF Emptied
    <3>2. \A j \in 1..launcher[q].k : ~Running(Kinds[j])'
      <4>1. ASSUME NEW j \in 1..launcher[q].k PROVE j = launcher[q].k \/ j \in 1..(launcher[q].k - 1)
        BY <3>0
      <4>2. ASSUME NEW j \in 1..(launcher[q].k - 1) PROVE ~Running(Kinds[j])'
        BY <2>0, <3>1
      <4>3. x = Kinds[launcher[q].k] /\ ~Running(x)'
        BY <2>0, <2>2 DEF At
      <4>4. ASSUME NEW j \in 1..launcher[q].k PROVE ~Running(Kinds[j])'
        <5>1. CASE j = launcher[q].k
          <6>1. Kinds[j] = x
            BY <4>3, <5>1
          <6>2. QED
            BY <4>3, <6>1
        <5>2. CASE j \in 1..(launcher[q].k - 1)
          BY <4>2, <5>2
        <5>3. QED
          BY <4>1, <4>4, <5>1, <5>2
      <4>5. QED
        BY <4>4
    <3>3. CASE launcher'[q].k = launcher[q].k + 1 /\ pc(q)' = "cleanup"
      <4>1. launcher'[q].k - 1 = launcher[q].k
        BY <3>0, <3>3
      <4>2. QED
        BY <3>2, <3>3, <4>1 DEF Emptied
    <3>4. CASE ~(launcher[q].k < Len(Kinds)) /\ pc(q)' = "removal"
      <4>1. launcher[q].k = Len(Kinds)
        BY <3>0, <3>4
      <4>2. \A y \in Kind : ~Running(y)'
        BY <3>2, <4>1, KindsType
      <4>3. QED
        BY <3>4, <4>2 DEF Emptied
    <3>5. QED
      BY <2>2, <3>3, <3>4
  <2>3. QED
    BY <1>9, <1>s, <2>1, <2>2, StoppingCases, IdlePlaced
<1>10. QED
  BY <1>3, <1>4, <1>5, <1>6, <1>7, <1>8, <1>9, NextKinds DEF EditLockfile, CleanBegins, vars

-----------------------------------------------------------------------------
(* The hash of the volume.                                                  *)

(* A step that touches neither the volume nor an installer.                 *)
LEMMA HashKept ==
  ASSUME ~excuse, Installing, OverlayIsCurrent,
         \A q \in Pane : pc(q)' \in {"install", "store"} =>
           pc(q)' = pc(q) /\ launcher'[q].newHash = launcher[q].newHash
             /\ lockfile'[Workspace'] = lockfile[Workspace],
         modules'.lock = modules.lock, modules'.hash = modules.hash,
         \A q \in Pane : pc(q) = "store" => pc(q)' = "store"
  PROVE  Installing' /\ OverlayIsCurrent'
<1>1. Installing'
  BY DEF Installing, Installers
<1>2. OverlayIsCurrent'
  BY DEF OverlayIsCurrent
<1>3. QED
  BY <1>1, <1>2

(* An installer that has no excuse stores the hash of what it installed.    *)
LEMMA HashStep ==
  ASSUME TypeOK, \A p \in Pane : Placed(p), Installing, OverlayIsCurrent, [Next]_vars
  PROVE  Installing' /\ OverlayIsCurrent'
<1>0. Launchers
  BY TypeParts
<1>m. modules \in [stamp : BOOLEAN, owned : BOOLEAN, lock : 0..MaxLock, hash : 0..MaxLock]
  BY DEF TypeOK
<1>s. SUFFICES ASSUME ~excuse' PROVE Installing' /\ OverlayIsCurrent'
  BY DEF Installing, OverlayIsCurrent
<1>a. ASSUME UNCHANGED <<sidecar, lockfile, excuse>>,
             modules'.lock = modules.lock, modules'.hash = modules.hash,
             \A q \in Pane : /\ pc(q)' \in {"install", "store"} =>
                                  pc(q)' = pc(q) /\ launcher'[q].newHash = launcher[q].newHash
                             /\ pc(q) = "store" => pc(q)' = "store"
      PROVE  Installing' /\ OverlayIsCurrent'
  <2>1. lockfile'[Workspace'] = lockfile[Workspace]
    BY <1>a DEF Workspace
  <2>2. QED
    BY <1>a, <1>s, <2>1, HashKept
<1>1. CASE UNCHANGED vars
  BY <1>1, <1>a DEF vars, containers, volume, pc
<1>2. ASSUME NEW p \in Pane, Move(p) PROVE Installing' /\ OverlayIsCurrent'
  <2>0. /\ UNCHANGED sidecar
        /\ \A q \in Pane \ {p} : launcher'[q] = launcher[q] /\ pc(q)' = pc(q)
    BY <1>2, MoveEffect DEF containers, Others, pc
  <2>1. ASSUME /\ pc(p) # "store" /\ pc(p)' \notin {"install", "store"}
               /\ UNCHANGED <<lockfile, excuse>>
               /\ modules'.lock = modules.lock /\ modules'.hash = modules.hash
        PROVE  Installing' /\ OverlayIsCurrent'
    BY <1>a, <2>0, <2>1
  <2>2. CASE Launch(p) /\ pc(p)' = "network"
    BY <2>1, <2>2 DEF Launch, volume
  <2>3. CASE ReadHash(p) /\ pc(p)' = "next"
    <3>1. UNCHANGED <<lockfile, modules>> /\ pc(p) = "hash"
      BY <2>3 DEF ReadHash
    <3>2. UNCHANGED excuse
      BY <1>s, <2>3 DEF ReadHash, TypeOK
    <3>3. QED
      BY <2>1, <2>3, <3>1, <3>2
  <2>4. CASE ReadHash(p) /\ pc(p)' = "install"
    <3>1. modules.hash # lockfile[Workspace]
      <4>1. ASSUME modules.hash = lockfile[Workspace] PROVE FALSE
        <5>1. Goto(p, "next") /\ "next" \in Starting
          BY <2>4, <4>1 DEF ReadHash, Starting
        <5>2. pc(p)' = "next"
          BY <1>0, <5>1, GotoEffect
        <5>3. QED
          BY <2>4, <5>2
      <4>2. QED
        BY <4>1
    <3>2. lockfile[Workspace] \in 0..MaxLock
      BY <2>4, WorkspaceTyped DEF ReadHash, Scripts
    <3>3. /\ launcher' = [launcher EXCEPT ![p].pc = "install", ![p].newHash = lockfile[Workspace]]
          /\ excuse' = (excuse \/ Installers # {})
      BY <2>4, <3>1 DEF ReadHash
    <3>4. launcher'[p].newHash = lockfile[Workspace]
      BY <1>0, <3>2, <3>3, InstallEffect
    <3>5. /\ UNCHANGED <<lockfile, modules>>
          /\ ~excuse /\ \A q \in Pane : pc(q) \notin {"install", "store"}
      BY <1>s, <2>4, <3>3 DEF ReadHash, Installers
    <3>6. \A q \in Pane : pc(q)' \in {"install", "store"} => q = p
      BY <2>0, <3>5
    <3>7. Workspace' = Workspace
      BY <2>0 DEF Workspace
    <3>8. Installing'
      BY <2>4, <3>4, <3>5, <3>6, <3>7 DEF Installing, Installers
    <3>9. OverlayIsCurrent'
      BY <3>5 DEF OverlayIsCurrent
    <3>10. QED
      BY <3>8, <3>9
  <2>5. CASE Install(p) /\ pc(p)' = "store"
    <3>1. /\ pc(p) = "install" /\ UNCHANGED <<lockfile, excuse>>
          /\ modules' = [modules EXCEPT !.lock = lockfile[Workspace]]
      BY <1>s, <2>5 DEF Install
    <3>2. launcher'[p].newHash = launcher[p].newHash
      BY <1>0, <2>5, GotoEffect DEF Install, Starting, OnlyMoves
    <3>3. ~excuse /\ launcher[p].newHash = lockfile[Workspace]
      BY <1>s, <3>1 DEF Installing
    <3>4. modules'.lock = launcher'[p].newHash
      BY <1>m, <3>1, <3>2, <3>3
    <3>5. \A q \in Pane : pc(q)' \in {"install", "store"} => q = p
      <4>1. ASSUME NEW q \in Pane, pc(q)' \in {"install", "store"}, q # p PROVE FALSE
        <5>1. q \in Installers /\ p \in Installers
          BY <2>0, <3>1, <4>1 DEF Installers
        <5>2. QED
          BY <3>3, <4>1, <5>1 DEF Installing
      <4>2. QED
        BY <4>1
    <3>6. Installing'
      BY <2>5, <3>4, <3>5 DEF Installing, Installers
    <3>7. OverlayIsCurrent'
      BY <2>5 DEF OverlayIsCurrent
    <3>8. QED
      BY <3>6, <3>7
  <2>6. CASE StoreHash(p) /\ pc(p)' = "next"
    <3>1. /\ pc(p) = "store" /\ modules' = [modules EXCEPT !.hash = launcher[p].newHash]
          /\ excuse' = ((excuse /\ modules.lock # launcher[p].newHash) \/ Installers # {p})
      BY <2>6 DEF StoreHash
    <3>2. Installers = {p}
      BY <1>s, <3>1
    <3>3. modules.lock = launcher[p].newHash
      BY <1>s, <3>1 DEF Installing
    <3>4. modules'.lock = modules'.hash
      BY <1>m, <3>1, <3>3
    <3>5. \A q \in Pane : pc(q)' \notin {"install", "store"}
      BY <2>0, <2>6, <3>2 DEF Installers
    <3>6. QED
      BY <3>4, <3>5 DEF Installing, Installers, OverlayIsCurrent
  <2>7. CASE StartProxyFails(p) /\ pc(p)' = "cleanup"
    BY <2>1, <2>7 DEF StartProxyFails, volume
  <2>8. CASE RemoveNetwork(p) /\ pc(p)' = "failed"
    BY <2>1, <2>8 DEF RemoveNetwork, volume
  <2>9. QED
    BY <1>2, <2>1, <2>2, <2>3, <2>4, <2>5, <2>6, <2>7, <2>8, MoveWhere
<1>3. ASSUME NEW p \in Pane, Create(p) PROVE Installing' /\ OverlayIsCurrent'
  <2>0. /\ UNCHANGED <<lockfile, modules, excuse>> /\ pc(p) = "create"
        /\ pc(p)' \notin {"install", "store"}
        /\ \A q \in Pane \ {p} : pc(q)' = pc(q) /\ launcher'[q].newHash = launcher[q].newHash
    BY <1>0, <1>3, CreateEffect, AfterwardsIs DEF Create, volume, Stays
  <2>1. ASSUME NEW q \in Pane, pc(q)' \in {"install", "store"}
        PROVE  pc(q)' = pc(q) /\ launcher'[q].newHash = launcher[q].newHash
                 /\ lockfile'[Workspace'] = lockfile[Workspace]
    <3>1. q # p /\ pc(q)' = pc(q) /\ launcher'[q].newHash = launcher[q].newHash
      BY <2>0, <2>1
    <3>2. Node \in Kind /\ Running(Node)
      BY <2>1, <3>1, WorkspaceTyped DEF Scripts
    <3>3. sidecar'[Node] = sidecar[Node]
      BY <1>3, <3>2, CreatedContainers
    <3>4. QED
      BY <2>0, <3>1, <3>3 DEF Workspace
  <2>2. \A q \in Pane : pc(q) = "store" => pc(q)' = "store"
    BY <2>0
  <2>3. QED
    BY <1>s, <2>0, <2>1, <2>2, HashKept
<1>4. ASSUME NEW p \in Pane, ToSocket(p) PROVE Installing' /\ OverlayIsCurrent'
  <2>1. pc(p) \in {"proxy", "bind"} /\ UNCHANGED <<sidecar, lockfile, modules, excuse>>
    BY <1>0, <1>4, ToSocketEffect DEF containers, volume
  <2>2. pc(p)' \in {"bind", "agent"} /\ \A q \in Pane \ {p} : Stays(q)
    BY <1>0, <1>4, ToSocketEffect
  <2>3. QED
    BY <1>a, <2>1, <2>2 DEF Stays
<1>5. ASSUME NEW p \in Pane, EndAgent(p) PROVE Installing' /\ OverlayIsCurrent'
  <2>1. pc(p) = "agent" /\ UNCHANGED <<sidecar, lockfile, modules, excuse>>
    BY <1>5 DEF EndAgent, containers, volume
  <2>2. pc(p)' = "shell" /\ \A q \in Pane \ {p} : Stays(q)
    BY <1>0, <1>5, EndAgentEffect, IdlePlaced
  <2>3. QED
    BY <1>a, <2>1, <2>2 DEF Stays
<1>6. ASSUME NEW p \in Pane, RunMake(p) PROVE Installing' /\ OverlayIsCurrent'
  <2>1. UNCHANGED <<sidecar, lockfile, modules, excuse>>
    BY <1>6 DEF RunMake, containers, volume
  <2>2. \A q \in Pane : Stays(q)
    BY <1>0, <1>6, RunMakeEffect, OthersStay
  <2>3. QED
    BY <1>a, <2>1, <2>2 DEF Stays
<1>7. ASSUME NEW p \in Pane, EditLockfile(p) PROVE Installing' /\ OverlayIsCurrent'
  <2>1. PICK v : /\ lockfile' = [lockfile EXCEPT ![p] = v]
                 /\ excuse' = (excuse \/ (Installers # {} /\ Workspace = p)) /\ UNCHANGED modules
    BY <1>7, <1>s DEF EditLockfile
  <2>2. UNCHANGED <<launcher, sidecar>> /\ ~excuse
    BY <1>7, <1>s, <2>1 DEF EditLockfile, containers
  <2>3. ASSUME NEW q \in Pane, pc(q)' \in {"install", "store"}
        PROVE  pc(q)' = pc(q) /\ launcher'[q].newHash = launcher[q].newHash
                 /\ lockfile'[Workspace'] = lockfile[Workspace]
    <3>1. pc(q)' = pc(q) /\ launcher'[q].newHash = launcher[q].newHash /\ Workspace' = Workspace
      BY <2>2 DEF pc, Workspace
    <3>2. q \in Installers
      BY <2>3, <3>1 DEF Installers
    <3>3. Workspace # p
      BY <1>s, <2>1, <3>2
    <3>4. Workspace \in Pane
      BY <2>3, <3>1, WorkspaceTyped DEF Scripts
    <3>5. lockfile'[Workspace] = lockfile[Workspace]
      BY <2>1, <3>3, <3>4 DEF TypeOK
    <3>6. QED
      BY <3>1, <3>5
  <2>4. \A q \in Pane : pc(q) = "store" => pc(q)' = "store"
    BY <2>2 DEF pc
  <2>5. QED
    BY <2>1, <2>2, <2>3, <2>4, HashKept
<1>8. CASE CleanBegins
  BY <1>8, <1>a DEF CleanBegins, containers, volume, pc
<1>9. ASSUME NEW x \in Kind, NEW then, Stopping(x, then) PROVE Installing' /\ OverlayIsCurrent'
  <2>0. /\ excuse' = (excuse \/ (x = Node /\ \E q \in Pane : pc(q) = "store"))
        /\ UNCHANGED <<lockfile, modules>>
    BY <1>9 DEF Stopping, Stop
  <2>1. ASSUME NEW q \in Pane, pc(q)' \in {"install", "store"}
        PROVE  pc(q)' = pc(q) /\ launcher'[q].newHash = launcher[q].newHash
                 /\ lockfile'[Workspace'] = lockfile[Workspace]
    <3>1. launcher'[q] = launcher[q] /\ ~(x = Node /\ pc(q) \in Scripts)
      BY <1>9, <2>1, StoppingCases, IdlePlaced
    <3>2. pc(q)' = pc(q) /\ launcher'[q].newHash = launcher[q].newHash /\ pc(q) \in Scripts
      BY <2>1, <3>1 DEF pc, Scripts
    <3>3. Node \in Kind /\ x # Node
      BY <3>1, <3>2, WorkspaceTyped
    <3>4. sidecar'[Node] = sidecar[Node]
      BY <1>9, <3>3, StoppedContainers
    <3>5. QED
      BY <2>0, <3>2, <3>4 DEF Workspace
  <2>2. ASSUME NEW q \in Pane, pc(q) = "store" PROVE pc(q)' = "store"
    <3>1. x # Node
      BY <1>s, <2>0, <2>2
    <3>2. launcher'[q] = launcher[q]
      BY <1>9, <2>2, <3>1, StoppingCases
    <3>3. QED
      BY <2>2, <3>2 DEF pc
  <2>3. QED
    BY <1>s, <2>0, <2>1, <2>2, HashKept
<1>10. QED
  BY <1>1, <1>2, <1>3, <1>4, <1>5, <1>6, <1>7, <1>8, <1>9, NextKinds

-----------------------------------------------------------------------------
(* The invariant.                                                           *)

(* The invariant holds at first.                                            *)
LEMMA InvariantInit == Init => IInv
<1> SUFFICES ASSUME Init PROVE IInv
  OBVIOUS
<1>1. \A p \in Pane : launcher[p] = Idle
  BY DEF Init
<1>2. \A p \in Pane : pc(p) = "shell" /\ launcher[p].k = 1 /\ launcher[p].cache = Unknown
                        /\ launcher[p].ran = None /\ ~launcher[p].last
                        /\ \A x \in Kind : launcher[p].cache[x] = "unknown"
  BY <1>1 DEF Idle, pc, Unknown
<1>3. TypeOK
  <2>1. Idle \in LauncherRecord
    BY KindsType, SessionAssumption DEF Idle, LauncherRecord, Unknown, None
  <2>2. Launchers
    BY <2>1 DEF Init, Launchers
  <2>3. RestTyped
    <3>1. /\ MaxStarts \in Nat /\ MaxEvents \in Nat /\ MaxLock \in Nat \ {0}
          /\ Len(Kinds) \in Nat
      BY KindsType, SessionAssumption
    <3>2. /\ 0 \in 0..MaxStarts /\ 0 \in 0..MaxEvents /\ 0 \in 0..(Len(Kinds) + 1)
          /\ 1 \in 1..MaxLock /\ 0 \in 0..MaxLock
      BY <3>1
    <3>3. modules \in [stamp : BOOLEAN, owned : BOOLEAN, lock : 0..MaxLock, hash : 0..MaxLock]
      BY <3>2 DEF Init
    <3>4. /\ sidecar \in [Kind -> [at : Pane, isolated : BOOLEAN] \cup {NoSidecar}]
          /\ lockfile \in [Pane -> 1..MaxLock]
      BY <3>2 DEF Init
    <3>5. QED
      BY <3>2, <3>3, <3>4 DEF Init, RestTyped
  <2>4. ScriptsRun
    BY <1>2 DEF ScriptsRun, Scripts
  <2>5. QED
    BY <2>2, <2>3, <2>4, TypeParts
<1>4. Alone
  BY <1>2 DEF Alone
<1>5. Installing /\ OverlayIsCurrent
  BY <1>2 DEF Init, Installing, Installers, OverlayIsCurrent
<1>6. SocketIsOwn
  BY <1>2 DEF SocketIsOwn
<1>7. ASSUME NEW p \in Pane PROVE Placed(p) /\ Provided(p) /\ Informed(p) /\ Emptied(p)
  <2>1. None # "missed"
    BY DEF None
  <2>2. QED
    BY <1>2, <2>1 DEF Placed, Provided, Informed, Emptied, Scripts
<1>8. QED
  BY <1>3, <1>4, <1>5, <1>6, <1>7 DEF IInv

(* Every step keeps it.                                                     *)
LEMMA InvariantStep == IInv /\ [Next]_vars => IInv'
<1> SUFFICES ASSUME IInv, [Next]_vars PROVE IInv'
  OBVIOUS
<1>1. /\ TypeOK /\ Alone /\ Installing /\ OverlayIsCurrent /\ SocketIsOwn
      /\ \A p \in Pane : Placed(p)
      /\ \A p \in Pane : Provided(p)
      /\ \A p \in Pane : Informed(p)
      /\ \A p \in Pane : Emptied(p)
  BY DEF IInv
<1>2. TypeOK' /\ Alone'
  BY <1>1, TypeStep, AloneStep
<1>3. Installing' /\ OverlayIsCurrent'
  BY <1>1, HashStep
<1>4. SocketIsOwn'
  BY <1>1, SocketStep
<1>5. (\A p \in Pane : Placed(p))'
  BY <1>1, PlacedStep
<1>6. (\A p \in Pane : Provided(p))'
  BY <1>1, ProvidedStep
<1>7. (\A p \in Pane : Informed(p))'
  BY <1>1, InformedStep
<1>8. (\A p \in Pane : Emptied(p))'
  BY <1>1, EmptiedStep
<1>9. QED
  BY <1>2, <1>3, <1>4, <1>5, <1>6, <1>7, <1>8 DEF IInv

(* The inductive invariant holds in every state of every session.           *)
THEOREM Invariance == Spec => []IInv
  BY InvariantInit, InvariantStep, PTL DEF Spec

(* Every variable keeps its type, and a script in node's sidecar has a      *)
(* sidecar to run in.                                                       *)
THEOREM TypeCorrect == Spec => []TypeOK
<1>1. IInv => TypeOK
  BY DEF IInv
<1>2. QED
  BY <1>1, Invariance, PTL

(* The end of a sibling's agent takes no sidecar from an agent at work: one *)
(* that is missing was stopped by someone the property names.               *)
THEOREM SidecarsKept == Spec => []SidecarsOutliveSiblings
<1>1. IInv => SidecarsOutliveSiblings
  BY DEF IInv, Provided, Given, SidecarsOutliveSiblings
<1>2. QED
  BY <1>1, Invariance, PTL

(* cleanup_session() after a proxy that did not start leaves nothing.       *)
THEOREM CleanupComplete == Spec => []FailureLeavesNothing
<1>1. IInv => FailureLeavesNothing
  BY DEF IInv, Emptied, FailureLeavesNothing
<1>2. QED
  BY <1>1, Invariance, PTL

(* The stored hash is that of what pnpm installed, unless it is excused.    *)
THEOREM OverlayCorrect == Spec => []OverlayIsCurrent
<1>1. IInv => OverlayIsCurrent
  BY DEF IInv
<1>2. QED
  BY <1>1, Invariance, PTL

(* The proxy's choice of a sidecar misses no tool it could have known of.   *)
THEOREM SelectionFinds == Spec => []FoundWhereItIs
<1>1. IInv => FoundWhereItIs
  BY DEF IInv, Informed, FoundWhereItIs
<1>2. QED
  BY <1>1, Invariance, PTL

(* The session's socket belongs to the proxy that started last, until a     *)
(* sibling's proxy removes it, to bind it or in vain, or on its way out.    *)
THEOREM SocketKept == Spec => []SocketIsOwn
<1>1. IInv => SocketIsOwn
  BY DEF IInv
<1>2. QED
  BY <1>1, Invariance, PTL
=============================================================================
