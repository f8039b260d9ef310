--------------------------- MODULE PnpmMigration ----------------------------
(***************************************************************************)
(* The offer to turn an npm or yarn project into a pnpm project, made by   *)
(* every launcher that starts a node toolchain in it.  The launcher looks  *)
(* for the project's files once, at the start, and then goes by what it    *)
(* saw, although another launcher may do the same in the same directory    *)
(* and any of them may be killed between two steps.                        *)
(***************************************************************************)
CONSTANTS
  Launcher,
  Projects    (* the sets of files that a project may begin with             *)

PnpmLock == "pnpm-lock.yaml"
Legacy == {"package-lock.json", "yarn.lock"}
Files == Legacy \cup {PnpmLock, "package.json", "node_modules", ".pnpm-store"}

ASSUME ProjectsAssumption == Projects \subseteq SUBSET Files

VARIABLES
  files,      (* what the project directory holds                            *)
  mig,        (* where each launcher is with the offer                       *)
  seen        (* the files that it saw                                       *)

migrationVars == <<files, mig, seen>>

MigrationTypeOK ==
  /\ files \subseteq Files
  /\ mig \in [Launcher -> {"off", "look", "lookOn", "ask", "store", "import",
                           "modules", "npmLock", "yarnLock", "install", "done"}]
  /\ seen \in [Launcher -> SUBSET Files]

MigrationInit ==
  /\ files \in Projects
  /\ mig = [l \in Launcher |-> "off"]
  /\ seen = [l \in Launcher |-> {}]

Goes(l, from, to) == mig[l] = from /\ mig' = [mig EXCEPT ![l] = to]

(* Nothing is offered without a node toolchain, in CI or when interaction   *)
(* is turned off, and where there is no pnpm.                               *)
BeginMigration(l, may) ==
  /\ mig' = [mig EXCEPT ![l] = IF may THEN "look" ELSE "done"]
  /\ UNCHANGED <<files, seen>>

(* pnpm-lock.yaml is looked for before the others.                          *)
Look(l) ==
  /\ Goes(l, "look", "lookOn")
  /\ seen' = [seen EXCEPT ![l] = files \cap {PnpmLock}]
  /\ UNCHANGED files

(* Mode A: a pnpm project with lockfiles left over; mode B: a package whose *)
(* only lockfiles are npm's or yarn's.                                      *)
Offered(s) == s \cap Legacy # {} /\ (PnpmLock \in s \/ "package.json" \in s)

LookOn(l) ==
  LET s == seen[l] \cup (files \ {PnpmLock})
  IN /\ Goes(l, "lookOn", IF Offered(s) THEN "ask" ELSE "done")
     /\ seen' = [seen EXCEPT ![l] = s]
     /\ UNCHANGED files

(* AIFO_CODER_PNPM_MIGRATE_AUTO_YES answers yes, an unreadable stdin no.    *)
Ask(l) ==
  /\ \E to \in {"store", "done"} : Goes(l, "ask", to)
  /\ UNCHANGED <<files, seen>>

Store(l) ==
  /\ \/ /\ Goes(l, "store", IF PnpmLock \in seen[l] THEN "modules" ELSE "import")
        /\ files' = files \cup {".pnpm-store"}
     \/ /\ ".pnpm-store" \notin files
        /\ Goes(l, "store", "done")
        /\ UNCHANGED files
  /\ UNCHANGED seen

ImportTarget(s) ==
  IF "package-lock.json" \in s THEN "package-lock.json" ELSE "yarn.lock"

(* pnpm import, which needs the file that it is given.                      *)
Import(l) ==
  /\ ImportTarget(seen[l]) \in files
  /\ Goes(l, "import", "modules")
  /\ files' = files \cup {PnpmLock}
  /\ UNCHANGED seen

(* Mutant: a failed import is told and nothing else, as a failed install.   *)
ImportFailsGoingOn(l) ==
  Goes(l, "import", "modules") /\ UNCHANGED <<files, seen>>

ImportFails(l) == Goes(l, "import", "done") /\ UNCHANGED <<files, seen>>

(* An error of a removal is ignored.                                        *)
Remove(l, f, from, to) ==
  /\ Goes(l, from, to)
  /\ files' \in IF f \in seen[l] THEN {files, files \ {f}} ELSE {files}
  /\ UNCHANGED seen

RemoveArtifacts(l) == \/ Remove(l, "node_modules", "modules", "npmLock")
                      \/ Remove(l, "package-lock.json", "npmLock", "yarnLock")
                      \/ Remove(l, "yarn.lock", "yarnLock", "install")

(* pnpm install --frozen-lockfile.  Its failure is told and nothing else:   *)
(* what was removed stays removed.                                          *)
Install(l) ==
  /\ Goes(l, "install", "done")
  /\ \/ /\ {PnpmLock, "package.json"} \subseteq files
        /\ files' = files \cup {"node_modules"}
     \/ UNCHANGED files
  /\ UNCHANGED seen

Migrate(l) == \/ Look(l) \/ LookOn(l) \/ Ask(l) \/ Store(l)
              \/ Import(l) \/ ImportFails(l)
              \/ RemoveArtifacts(l) \/ Install(l)

(***************************************************************************)
(* Whatever launchers see, do and leave undone in one directory: the       *)
(* versions that a project was pinned to, and the modules that it had, are *)
(* only ever removed while a pnpm-lock.yaml is there to bring them back.   *)
(***************************************************************************)
LockKept ==
  [][\A f \in Legacy \cup {"node_modules"} :
       f \in files /\ f \notin files' => PnpmLock \in files]_files
=============================================================================
