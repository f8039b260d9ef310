--------------------------- MODULE SidecarSession ---------------------------
(***************************************************************************)
(* The sidecars of one session (src/src/toolchain/sidecar.rs), their       *)
(* network and node's volume, as the launchers of the session's panes      *)
(* (toolchain_session.rs, main.rs) use them at the same time.  Containers, *)
(* network and socket are named after the session, which is all that the   *)
(* panes have in common: each has a clone of the workspace of its own.     *)
(*                                                                         *)
(* main.rs sets AIFO_CODER_FORK_SESSION in every run before the session    *)
(* starts, so that a run outside a fork is a pane, too: one without        *)
(* siblings.  Sidecars run with --rm: stopping one removes it.             *)
(***************************************************************************)
EXTENDS Naturals, Sequences, SequencesExt, FiniteSetsExt

CONSTANTS
  Pane,       (* the panes, each with its clone                              *)
  Kinds,      (* the toolchains asked for, in the order of preference        *)
  Node,       (* the one with node_modules in a volume                       *)
  HasTool,    (* HasTool[p][x]: the image p asks for, for x, has "make"      *)
  MaxStarts,  (* bound: launches in the session                              *)
  MaxEvents,  (* bound: dying containers, killed launchers, edited lockfiles *)
  MaxLock     (* bound: versions of pnpm-lock.yaml                           *)

Kind == ToSet(Kinds)
None == "none"

ASSUME SessionAssumption ==
  /\ Kinds \in Seq(Kind) /\ IsInjective(Kinds) /\ Kinds # <<>>
  /\ HasTool \in [Pane -> [Kind -> BOOLEAN]]
  /\ None \notin Pane
  /\ MaxStarts \in Nat /\ MaxEvents \in Nat /\ MaxLock \in Nat \ {0}

NoSidecar == [at |-> None, isolated |-> FALSE]

VARIABLES
  launcher,   (* what runs in each pane: a record, Idle where nothing does   *)
  starts,     (* the launches so far                                         *)
  events,     (* those of them so far                                        *)
  clean,      (* "fork clean": the kind it is at; 0 when there is none       *)
  sidecar,    (* the running containers: whose clone, on which network       *)
  taken,      (* the kinds whose last container was taken away, and not by   *)
              (* the normal end of an agent                                  *)
  network,    (* whether the isolated network exists                         *)
  socket,     (* the pane whose proxy the socket's path leads to             *)
  lockfile,   (* the version of pnpm-lock.yaml in each clone                 *)
  modules,    (* the volume at /workspace/node_modules                       *)
  excuse      (* whether the volume need not agree with its hash             *)

containers == <<sidecar, taken>>
volume == <<lockfile, modules, excuse>>
vars == <<launcher, starts, events, clean, containers, network, socket, volume>>

(* The fields of a launcher: where it is; what it is for, an agent or       *)
(* toolchain_run; the index of the toolchain it is at; whether its network  *)
(* is the isolated one; new_hash of a node start; tool_cache of its proxy,  *)
(* for "make"; whether that cache was told the wrong thing or overtaken;    *)
(* how the last "make" went; and whether no sibling's proxy has set out to  *)
(* start, or stopped, since its own started.                                *)
Unknown == [x \in Kind |-> "unknown"]

Idle == [pc |-> "shell", mode |-> "agent", k |-> 1, isolated |-> FALSE,
         newHash |-> 0, cache |-> Unknown, spoilt |-> FALSE, ran |-> None,
         last |-> FALSE]

(* The volume aifo-node-modules is one for all projects: what other         *)
(* sessions leave in it is not looked at here, and it is empty at first.    *)
Init ==
  /\ launcher = [p \in Pane |-> Idle]
  /\ starts = 0
  /\ events = 0
  /\ clean = 0
  /\ sidecar = [x \in Kind |-> NoSidecar]
  /\ taken = {}
  /\ network = FALSE
  /\ socket = None
  /\ lockfile = [p \in Pane |-> 1]
  /\ modules = [stamp |-> FALSE, owned |-> FALSE, lock |-> 0, hash |-> 0]
  /\ excuse = FALSE

pc(p) == launcher[p].pc
At(p) == Kinds[launcher[p].k]
Running(x) == sidecar[x] # NoSidecar
Goto(p, there) == launcher' = [launcher EXCEPT ![p].pc = there]
Exit(p) == launcher' = [launcher EXCEPT ![p] = Idle]

-----------------------------------------------------------------------------
(* Starting.                                                               *)

(* "aifo-coder toolchain <kind>" in a pane's shell has the session's name,  *)
(* too, and knows no flags for the network.  A network of the user's own is *)
(* as good as "bridge" here: it is neither made nor removed.                *)
Launch(p) ==
  /\ pc(p) = "shell"
  /\ starts < MaxStarts
  /\ starts' = starts + 1
  /\ \/ \E isolated \in BOOLEAN :
          launcher' = [launcher EXCEPT ![p].pc = "network", ![p].isolated = isolated]
     \/ \E i \in DOMAIN Kinds :
          launcher' = [launcher EXCEPT ![p].pc = "network", ![p].mode = "tool", ![p].k = i]
  /\ UNCHANGED <<events, clean, containers, network, socket, volume>>

(* A network that cannot be made is replaced by "bridge".                   *)
ChooseNetwork(p) ==
  /\ pc(p) = "network"
  /\ \E made \in {isolated \in BOOLEAN : isolated => launcher[p].isolated} :
       /\ network => made = launcher[p].isolated
       /\ network' = (network \/ made)
       /\ launcher' = [launcher EXCEPT ![p].pc = "volumes", ![p].isolated = made]
  /\ UNCHANGED <<starts, events, clean, containers, socket, volume>>

(* After a sidecar is there: node's overlay is checked at every start of a  *)
(* session, and in toolchain_run when it has just been created.             *)
Afterwards(p, created) ==
  IF At(p) = Node /\ (launcher[p].mode = "agent" \/ created) THEN "overlay" ELSE "next"

(* The stamp says that the volume was seen to, not that chown worked; the   *)
(* helper container may also not run at all.                                *)
InitVolumes(p) ==
  /\ pc(p) = "volumes"
  /\ \/ UNCHANGED modules
     \/ /\ At(p) = Node /\ ~modules.stamp
        /\ \E ok \in BOOLEAN : modules' = [modules EXCEPT !.stamp = TRUE, !.owned = ok]
  /\ Goto(p, "inspect")
  /\ UNCHANGED <<starts, events, clean, containers, network, socket, lockfile, excuse>>

Inspect(p) ==
  /\ pc(p) = "inspect"
  /\ Goto(p, IF Running(At(p)) THEN Afterwards(p, FALSE) ELSE "create")
  /\ UNCHANGED <<starts, events, clean, containers, network, socket, volume>>

(* The container mounts the clone of the pane that creates it.  A proxy     *)
(* that knows the tools of an earlier one of this name is overtaken.        *)
Create(p) ==
  /\ pc(p) = "create"
  /\ ~Running(At(p))
  /\ sidecar' = [sidecar EXCEPT ![At(p)] = [at |-> p, isolated |-> launcher[p].isolated]]
  /\ taken' = taken \ {At(p)}
  /\ launcher' = [q \in Pane |->
       IF q = p THEN [launcher[p] EXCEPT !.pc = Afterwards(p, TRUE)]
       ELSE [launcher[q] EXCEPT !.spoilt = @ \/ launcher[q].cache[At(p)] # "unknown"]]
  /\ UNCHANGED <<starts, events, clean, network, socket, volume>>

(* docker run fails when the name is taken, and for reasons of its own.     *)
CreateFails(p) ==
  /\ pc(p) = "create"
  /\ Goto(p, "again")
  /\ UNCHANGED <<starts, events, clean, containers, network, socket, volume>>

(* The last of five looks for a container that a peer has started.  Without *)
(* one the launcher gives up, and rolls nothing back.                       *)
LookAgain(p) ==
  /\ pc(p) = "again"
  /\ IF Running(At(p)) THEN Goto(p, Afterwards(p, TRUE)) ELSE Exit(p)
  /\ UNCHANGED <<starts, events, clean, containers, network, socket, volume>>

(* The guard refuses a node_modules that is no volume, and the start fails. *)
(* When the container has gone it notices nothing.                          *)
Guard(p) ==
  /\ pc(p) = "overlay"
  /\ \/ Goto(p, IF Running(Node) THEN "hash" ELSE "next")
     \/ Running(Node) /\ Exit(p)
  /\ UNCHANGED <<starts, events, clean, containers, network, socket, volume>>

Installers == {q \in Pane : pc(q) \in {"install", "store"}}
Workspace == sidecar[Node].at

(* The hash is that of the clone the container was created with.            *)
ReadHash(p) ==
  /\ pc(p) = "hash"
  /\ IF modules.hash = lockfile[Workspace]
       THEN Goto(p, "next") /\ UNCHANGED excuse
       ELSE /\ launcher' = [launcher EXCEPT ![p].pc = "install",
                                            ![p].newHash = lockfile[Workspace]]
            /\ excuse' = (excuse \/ Installers # {})
  /\ UNCHANGED <<starts, events, clean, containers, network, socket, lockfile, modules>>

(* Mutant: the hash is stored before pnpm has run.                          *)
InstallAfterStore(p) ==
  /\ pc(p) = "install"
  /\ modules' = [modules EXCEPT !.hash = launcher[p].newHash]
  /\ Goto(p, "store")
  /\ UNCHANGED <<starts, events, clean, containers, network, socket, lockfile, excuse>>

Install(p) ==
  /\ pc(p) = "install"
  /\ \/ /\ modules.owned
        /\ modules' = [modules EXCEPT !.lock = lockfile[Workspace]]
        /\ UNCHANGED excuse
     \/ excuse' = TRUE /\ UNCHANGED modules
  /\ Goto(p, "store")
  /\ UNCHANGED <<starts, events, clean, containers, network, socket, lockfile>>

(* The hash is stored whether or not pnpm succeeded.                        *)
StoreHash(p) ==
  /\ pc(p) = "store"
  /\ modules' = [modules EXCEPT !.hash = launcher[p].newHash]
  /\ excuse' = ((excuse /\ modules.lock # launcher[p].newHash) \/ Installers # {p})
  /\ launcher' = [launcher EXCEPT ![p].pc = "next", ![p].newHash = 0]
  /\ UNCHANGED <<starts, events, clean, containers, network, socket, lockfile>>

NextKind(p) ==
  /\ pc(p) = "next"
  /\ IF launcher[p].mode = "tool" THEN Goto(p, "exec")
     ELSE IF launcher[p].k < Len(Kinds)
     THEN launcher' = [launcher EXCEPT ![p].pc = "volumes", ![p].k = @ + 1]
     ELSE Goto(p, "proxy")
  /\ UNCHANGED <<starts, events, clean, containers, network, socket, volume>>

(* The socket has the session's name, and its path is made free before the  *)
(* proxy binds it: whoever listened there is no longer found.               *)
RemoveSocket(p) ==
  /\ pc(p) = "proxy"
  /\ launcher' = [q \in Pane |->
       IF q = p THEN [launcher[p] EXCEPT !.pc = "bind"]
       ELSE [launcher[q] EXCEPT !.last = FALSE]]
  /\ socket' = None
  /\ UNCHANGED <<starts, events, clean, containers, network, volume>>

(* Binding takes a free path.                                               *)
StartProxy(p) ==
  /\ pc(p) = "bind"
  /\ socket = None
  /\ launcher' = [launcher EXCEPT ![p].pc = "agent", ![p].k = 1, ![p].last = TRUE]
  /\ socket' = p
  /\ UNCHANGED <<starts, events, clean, containers, network, volume>>

(* Mutant: only the network is removed.                                     *)
StartProxyFailsKeeping(p) ==
  /\ pc(p) \in {"proxy", "bind"}
  /\ Goto(p, "removal")
  /\ UNCHANGED <<starts, events, clean, containers, network, socket, volume>>

(* Mutant: the path is made free again, whoever has bound it meanwhile.     *)
StartProxyFailsRemoving(p) ==
  /\ pc(p) \in {"proxy", "bind"}
  /\ launcher' = [launcher EXCEPT ![p].pc = "cleanup", ![p].k = 1]
  /\ socket' = IF pc(p) = "bind" THEN None ELSE socket
  /\ UNCHANGED <<starts, events, clean, containers, network, volume>>

(* A proxy that does not start has the whole session cleaned up: it got no  *)
(* directory for its socket, or could not bind it, be it that a sibling was *)
(* faster.                                                                  *)
StartProxyFails(p) ==
  /\ pc(p) \in {"proxy", "bind"}
  /\ launcher' = [launcher EXCEPT ![p].pc = "cleanup", ![p].k = 1]
  /\ UNCHANGED <<starts, events, clean, containers, network, socket, volume>>

-----------------------------------------------------------------------------
(* Ending.                                                                 *)

(* Mutant: what runs in the container goes on.                              *)
StopUnderScripts(x, then) ==
  /\ sidecar' = [sidecar EXCEPT ![x] = NoSidecar]
  /\ taken' = IF Running(x) THEN taken \cup {x} ELSE taken
  /\ launcher' = then
  /\ UNCHANGED volume

(* A stopped container takes the scripts that run in it along.              *)
Stop(x, then) ==
  /\ sidecar' = [sidecar EXCEPT ![x] = NoSidecar]
  /\ taken' = IF Running(x) THEN taken \cup {x} ELSE taken
  /\ launcher' = [q \in Pane |->
       IF x = Node /\ pc(q) \in {"hash", "install", "store"}
         THEN [then[q] EXCEPT !.pc = "next", !.newHash = 0] ELSE then[q]]
  /\ excuse' = (excuse \/ (x = Node /\ \E q \in Pane : pc(q) = "store"))
  /\ UNCHANGED <<lockfile, modules>>

(* toolchain_run stops its sidecar, whoever else uses it.                   *)
EndTool(p) ==
  /\ pc(p) = "exec"
  /\ Stop(At(p), [launcher EXCEPT ![p] = Idle])
  /\ UNCHANGED <<starts, events, clean, network, socket>>

CleanupSidecar(p) ==
  /\ pc(p) = "cleanup"
  /\ Stop(At(p), IF launcher[p].k < Len(Kinds)
                  THEN [launcher EXCEPT ![p].k = @ + 1]
                  ELSE [launcher EXCEPT ![p].pc = "removal"])
  /\ UNCHANGED <<starts, events, clean, network, socket>>

(* docker network rm refuses a network that is in use.                      *)
RemoveNetwork(p) ==
  /\ pc(p) = "removal"
  /\ network' = (network /\ (launcher[p].isolated => \E x \in Kind : sidecar[x].isolated))
  /\ Goto(p, "failed")
  /\ UNCHANGED <<starts, events, clean, containers, socket, volume>>

(* The launcher returns its error.                                          *)
Failed(p) ==
  /\ pc(p) = "failed"
  /\ Exit(p)
  /\ UNCHANGED <<starts, events, clean, containers, network, socket, volume>>

(* "fork clean", by hand or after the merge.  It knows only the network     *)
(* "aifo-net-<id>", which no run makes any more.                            *)
CleanBegins ==
  /\ clean = 0
  /\ clean' = 1
  /\ UNCHANGED <<launcher, starts, events, containers, network, socket, volume>>

CleanStops ==
  /\ clean \in DOMAIN Kinds
  /\ clean' = clean + 1
  /\ Stop(Kinds[clean], launcher)
  /\ UNCHANGED <<starts, events, network, socket>>

(* Mutant: the pane that ends takes a sidecar with it.                      *)
EndAgentCleaning(p) ==
  /\ pc(p) = "agent"
  /\ Exit(p)
  /\ sidecar' = [sidecar EXCEPT ![Kinds[1]] = NoSidecar]
  /\ socket' = None
  /\ UNCHANGED <<starts, events, clean, taken, network, volume>>

(* Drop stops the proxy and leaves the sidecars: in_fork_pane always holds. *)
EndAgent(p) ==
  /\ pc(p) = "agent"
  /\ launcher' = [q \in Pane |-> IF q = p THEN Idle ELSE [launcher[q] EXCEPT !.last = FALSE]]
  /\ socket' = None
  /\ UNCHANGED <<starts, events, clean, containers, network, volume>>

(* A killed launcher drops nothing; a script it started goes on without it, *)
(* which ends in one of the states its steps lead to.                       *)
Killed(p) ==
  /\ pc(p) \notin {"shell", "hash", "install", "store"}
  /\ events < MaxEvents
  /\ events' = events + 1
  /\ Exit(p)
  /\ UNCHANGED <<starts, clean, containers, network, socket, volume>>

SidecarDies(x) ==
  /\ Running(x)
  /\ events < MaxEvents
  /\ events' = events + 1
  /\ Stop(x, launcher)
  /\ UNCHANGED <<starts, clean, network, socket>>

-----------------------------------------------------------------------------
(* The agent at work.                                                      *)

Has(x) == Running(x) /\ HasTool[sidecar[x].at][x]

(* What the proxy of p takes a running sidecar for, with timely probes.     *)
Known(p, x, timely) == IF launcher[p].cache[x] # "unknown" THEN launcher[p].cache[x] = "yes"
                       ELSE Has(x) /\ x \in timely

(* Mutant: a sidecar that runs is taken to have the tool.                   *)
SelectRunning(p, timely) ==
  LET ok == {i \in DOMAIN Kinds : Running(Kinds[i])}
  IN IF ok = {} THEN Len(Kinds) + 1 ELSE Min(ok)

(* The first running sidecar that has "make", as far as the cache or a      *)
(* probe knows: the index, or one past the last.                            *)
Select(p, timely) ==
  LET ok == {i \in DOMAIN Kinds : Running(Kinds[i]) /\ Known(p, Kinds[i], timely)}
  IN IF ok = {} THEN Len(Kinds) + 1 ELSE Min(ok)

(* The agent runs "make".  Probes may time out; answers are cached for the  *)
(* life of the proxy, by container name.  Where nothing is found the first  *)
(* kind is taken, and refused or tried.                                     *)
RunMake(p) ==
  /\ pc(p) = "agent"
  /\ \E timely \in SUBSET Kind :
       LET i == Select(p, timely)
           asked == {Kinds[j] : j \in 1..Min({i, Len(Kinds)})}
           probed == {x \in asked : Running(x) /\ launcher[p].cache[x] = "unknown"}
           chosen == IF i > Len(Kinds) THEN Kinds[1] ELSE Kinds[i]
       IN launcher' = [launcher EXCEPT
            ![p].cache = [x \in Kind |-> IF x \notin probed THEN @[x]
                                         ELSE IF Known(p, x, timely) THEN "yes" ELSE "no"],
            ![p].spoilt = @ \/ \E x \in probed : Has(x) /\ x \notin timely,
            ![p].ran = IF ~Has(chosen) /\ \E x \in Kind : Has(x) THEN "missed" ELSE None]
  /\ UNCHANGED <<starts, events, clean, containers, network, socket, volume>>

(* The agent edits pnpm-lock.yaml, and may have pnpm install it at once,    *)
(* which knows nothing of the hash.                                         *)
EditLockfile(p) ==
  /\ pc(p) = "agent"
  /\ events < MaxEvents
  /\ events' = events + 1
  /\ \E v \in 1..MaxLock \ {lockfile[p]} :
       /\ lockfile' = [lockfile EXCEPT ![p] = v]
       /\ \/ excuse' = (excuse \/ (Installers # {} /\ Workspace = p)) /\ UNCHANGED modules
          \/ /\ Running(Node) /\ Workspace = p /\ modules.owned
             /\ modules' = [modules EXCEPT !.lock = v]
             /\ excuse' = TRUE
  /\ UNCHANGED <<launcher, starts, clean, containers, network, socket>>

-----------------------------------------------------------------------------
Step(p) == ChooseNetwork(p) \/ InitVolumes(p) \/ Inspect(p) \/ Create(p)
             \/ CreateFails(p) \/ LookAgain(p) \/ Guard(p) \/ ReadHash(p)
             \/ Install(p) \/ StoreHash(p) \/ NextKind(p) \/ RemoveSocket(p)
             \/ StartProxy(p) \/ StartProxyFails(p) \/ EndTool(p)
             \/ CleanupSidecar(p) \/ RemoveNetwork(p) \/ Failed(p)

Next ==
  \/ \E p \in Pane : Launch(p) \/ Step(p) \/ EndAgent(p) \/ Killed(p) \/ RunMake(p)
                       \/ EditLockfile(p)
  \/ CleanBegins \/ CleanStops
  \/ \E x \in Kind : SidecarDies(x)

Spec == Init /\ [][Next]_vars

-----------------------------------------------------------------------------
(* Properties.                                                             *)

Starting == {"network", "volumes", "inspect", "create", "again", "overlay", "hash",
             "install", "store", "next", "proxy", "bind", "exec", "cleanup", "removal",
             "failed"}

TypeOK ==
  /\ launcher \in [Pane ->
       [pc : Starting \cup {"shell", "agent"}, mode : {"agent", "tool"},
        k : DOMAIN Kinds, isolated : BOOLEAN, newHash : 0..MaxLock,
        cache : [Kind -> {"unknown", "yes", "no"}], spoilt : BOOLEAN,
        ran : {None, "missed"}, last : BOOLEAN]]
  /\ starts \in 0..MaxStarts
  /\ events \in 0..MaxEvents
  /\ clean \in 0..(Len(Kinds) + 1)
  /\ sidecar \in [Kind -> [at : Pane, isolated : BOOLEAN] \cup {NoSidecar}]
  /\ taken \subseteq Kind
  /\ network \in BOOLEAN
  /\ socket \in Pane \cup {None}
  /\ lockfile \in [Pane -> 1..MaxLock]
  /\ modules \in [stamp : BOOLEAN, owned : BOOLEAN, lock : 0..MaxLock, hash : 0..MaxLock]
  /\ excuse \in BOOLEAN
  (* A script in node's sidecar has a sidecar to run in. *)
  /\ \A p \in Pane : pc(p) \in {"hash", "install", "store"} => Running(Node)

(* An agent has the sidecars it was started with, whoever started them and  *)
(* whichever sibling ends.  Only "fork clean", a sibling's proxy that does  *)
(* not start, a toolchain run in the session's shell and a container's own  *)
(* end take them away.                                                      *)
SidecarsOutliveSiblings ==
  \A p \in Pane, x \in Kind : pc(p) = "agent" => Running(x) \/ x \in taken

(* A start whose proxy failed leaves neither a sidecar nor the network it   *)
(* made, unless a sibling is starting at the same time.                     *)
FailureLeavesNothing ==
  \A p \in Pane :
    /\ pc(p) = "failed"
    /\ starts = 1
    => /\ \A x \in Kind : ~Running(x)
       /\ launcher[p].isolated => ~network

(* A hash in the volume stands for what is installed there, so that a start *)
(* that installs nothing has nothing to install; except after a failed,     *)
(* stopped or overlapping install and where the agent installs by itself.   *)
OverlayIsCurrent ==
  modules.hash # 0 /\ modules.lock # modules.hash =>
    excuse \/ \E p \in Pane : pc(p) = "store"

(* A tool that a running sidecar has is found there, for as long as no      *)
(* probe of this proxy timed out and no probed sidecar was replaced.        *)
FoundWhereItIs == \A p \in Pane : launcher[p].ran = "missed" => launcher[p].spoilt

(* The socket that an agent was given leads to its own launcher's proxy     *)
(* until a sibling's proxy sets out to start, whatever comes of it, or one  *)
(* stops.                                                                   *)
SocketIsOwn == \A p \in Pane : pc(p) = "agent" /\ launcher[p].last => socket = p
=============================================================================
