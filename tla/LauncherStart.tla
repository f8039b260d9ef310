--------------------------- MODULE LauncherStart ----------------------------
(***************************************************************************)
(* Launchers that start in one project, on one machine: each offers the    *)
(* migration to pnpm first, then finds its image (AgentImage), and may be  *)
(* killed anywhere.  What comes between the two, the toolchain session,    *)
(* is SidecarSession; the lock before the run is RepoLock.                 *)
(***************************************************************************)
EXTENDS AgentImage

startVars == <<migrationVars, imageVars>>

StartInit == MigrationInit /\ ImageInit

Starts(l) == \E a \in Settings : Begin(l, a) /\ BeginMigration(l, a.node)

Offers(l) == Migrate(l) /\ UNCHANGED imageVars

FindsImage(l) == mig[l] = "done" /\ Choose(l) /\ UNCHANGED migrationVars

(* pnpm and docker go with the launcher.                                    *)
Killed(l) ==
  /\ at[l] # "off"
  /\ Leave(l)
  /\ mig' = [mig EXCEPT ![l] = "off"]
  /\ seen' = [seen EXCEPT ![l] = {}]
  /\ UNCHANGED <<files, local, cache, starts, prunes>>

Environment == (\E i \in local : Prune(i)) /\ UNCHANGED migrationVars

StartNext ==
  \/ \E l \in Launcher : Starts(l) \/ Offers(l) \/ FindsImage(l) \/ Killed(l)
  \/ Environment

StartSpec == StartInit /\ [][StartNext]_startVars

StartTypeOK == MigrationTypeOK /\ ImageTypeOK
=============================================================================
