------------------------ MODULE LauncherStartProof -------------------------
(***************************************************************************)
(* Theorems of LauncherStart, for any launchers, projects, settings,       *)
(* images and bounds.                                                      *)
(*                                                                         *)
(* LocksKept: a launcher removes files by what it saw, so the argument is  *)
(* that a pnpm-lock.yaml, once seen or written, is there to stay           *)
(* (LockThere).                                                            *)
(*                                                                         *)
(* InvalidationCorrect: the file with the mirror's prefix is emptied and   *)
(* written in two steps, so the argument must speak of whoever is between  *)
(* them as of the file itself (Told): where either knows of the mirror,    *)
(* nobody has invalidated the file since somebody learned of it.           *)
(*                                                                         *)
(* LocalImageCorrect: an image that was local all the time is among those  *)
(* that are still to be looked for (SearchOf), since what was looked for   *)
(* and passed over was not local at that time.  Hence the search ends      *)
(* without one only where there is none.                                   *)
(***************************************************************************)
EXTENDS LauncherStart, TLAPS

-----------------------------------------------------------------------------
(* The project's files.                                                    *)

(* Who removes something, and who saw the lockfile, has it there.          *)
LockThere ==
  \A l \in Launcher :
    /\ mig[l] \in {"modules", "npmLock", "yarnLock", "install"} => PnpmLock \in files
    /\ PnpmLock \in seen[l] => PnpmLock \in files

MigrationInv == MigrationTypeOK /\ LockThere

(* No step of the migration removes the lockfile or goes on without it.     *)
LEMMA MigrateInv ==
  ASSUME MigrationInv, NEW l \in Launcher, Migrate(l)
  PROVE  MigrationInv'
<1>1. CASE Look(l)
  BY <1>1 DEF MigrationInv, MigrationTypeOK, LockThere, Look, Goes, PnpmLock, Files
<1>2. CASE LookOn(l)
  BY <1>2 DEF MigrationInv, MigrationTypeOK, LockThere, LookOn, Goes, PnpmLock, Files
<1>3. CASE Ask(l)
  BY <1>3 DEF MigrationInv, MigrationTypeOK, LockThere, Ask, Goes, PnpmLock, Files
<1>4. CASE Store(l)
  BY <1>4 DEF MigrationInv, MigrationTypeOK, LockThere, Store, Goes, PnpmLock, Files
<1>5. CASE Import(l)
  BY <1>5 DEF MigrationInv, MigrationTypeOK, LockThere, Import, Goes, PnpmLock, Files
<1>6. CASE ImportFails(l)
  BY <1>6 DEF MigrationInv, MigrationTypeOK, LockThere, ImportFails, Goes
<1>7. CASE RemoveArtifacts(l)
  BY <1>7 DEF MigrationInv, MigrationTypeOK, LockThere, RemoveArtifacts, Remove, Goes,
              PnpmLock, Files
<1>8. CASE Install(l)
  BY <1>8 DEF MigrationInv, MigrationTypeOK, LockThere, Install, Goes, PnpmLock, Files
<1>9. QED
  BY <1>1, <1>2, <1>3, <1>4, <1>5, <1>6, <1>7, <1>8 DEF Migrate

LEMMA StartMigrationInv == StartInit => MigrationInv
  BY ProjectsAssumption
  DEF StartInit, MigrationInit, MigrationInv, MigrationTypeOK, LockThere

LEMMA NextMigrationInv == MigrationInv /\ [StartNext]_startVars => MigrationInv'
<1> SUFFICES ASSUME MigrationInv, [StartNext]_startVars
             PROVE  MigrationInv'
  OBVIOUS
<1> USE DEF MigrationInv, MigrationTypeOK, LockThere
<1>1. ASSUME NEW l \in Launcher, Starts(l)
      PROVE  MigrationInv'
  BY <1>1 DEF Starts, BeginMigration
<1>2. ASSUME NEW l \in Launcher, Offers(l)
      PROVE  MigrationInv'
  BY <1>2, MigrateInv DEF Offers
<1>3. ASSUME NEW l \in Launcher, FindsImage(l)
      PROVE  MigrationInv'
  BY <1>3 DEF FindsImage, migrationVars
<1>4. ASSUME NEW l \in Launcher, Killed(l)
      PROVE  MigrationInv'
  BY <1>4 DEF Killed
<1>5. CASE Environment
  BY <1>5 DEF Environment, migrationVars
<1>6. CASE UNCHANGED startVars
  BY <1>6 DEF startVars, migrationVars
<1>7. QED
  BY <1>1, <1>2, <1>3, <1>4, <1>5, <1>6 DEF StartNext

(* Lockfiles of npm and yarn and the modules are only removed while there   *)
(* is a pnpm-lock.yaml, for any number of launchers in one directory.       *)
THEOREM LocksKept == StartSpec => LockKept
<1> DEFINE Kept == \A f \in Legacy \cup {"node_modules"} :
                     f \in files /\ f \notin files' => PnpmLock \in files
<1>1. ASSUME MigrationInv, NEW l \in Launcher, Migrate(l)
      PROVE  Kept
  BY <1>1 DEF MigrationInv, LockThere, Migrate, Look, LookOn, Ask, Store, Import,
              ImportFails, RemoveArtifacts, Remove, Install, Goes
<1>2. ASSUME MigrationInv, [StartNext]_startVars
      PROVE  [Kept]_files
  BY <1>1, <1>2 DEF StartNext, Starts, BeginMigration, Offers, FindsImage, Killed,
                    Environment, migrationVars, startVars
<1>3. QED
  BY StartMigrationInv, NextMigrationInv, <1>2, PTL DEF StartSpec, LockKept

-----------------------------------------------------------------------------
(* Types.                                                                  *)

(* Another tag or registry makes an image of an image.                      *)
LEMMA TurnedImage ==
  ASSUME NEW i \in Image
  PROVE  /\ \A t \in {"latest", "asked"} : Retag(i, t) \in Image
         /\ \A reg \in {"none", "internal", "mirror"} : From(reg, i) \in Image
<1>1. ASSUME NEW t \in {"latest", "asked"}
      PROVE  Retag(i, t) \in Image
  <2>1. Retag(i, t) = [reg |-> i.reg, repo |-> i.repo, tag |-> t]
    BY DEF Retag, Image
  <2>2. QED
    BY <2>1 DEF Image
<1>2. ASSUME NEW reg \in {"none", "internal", "mirror"}
      PROVE  From(reg, i) \in Image
  <2>1. From(reg, i) = [reg |-> reg, repo |-> i.repo, tag |-> i.tag]
    BY DEF From, Image
  <2>2. QED
    BY <2>1 DEF Image
<1>3. QED
  BY <1>1, <1>2

(* What a launcher may be asked for.                                        *)
LEMMA AskedFor ==
  ASSUME NEW a \in Settings
  PROVE  /\ a.cli \in Option /\ a.full \in Option /\ a.over \in Option
         /\ Composed(a) \in Image
         /\ a.tag \in BOOLEAN /\ a.overTag \in BOOLEAN /\ a.ignore \in BOOLEAN
         /\ a.invalidate \in BOOLEAN
  BY ImageAssumption DEF Setting, Composed, Image

(* The names that are looked for are images.                                *)
LEMMA CandidatesAreImages ==
  ASSUME NEW a \in Settings, NEW i \in Image
  PROVE  Candidates(a, i) \in Seq(Image)
<1> DEFINE of(reg) == <<[reg |-> reg, repo |-> i.repo, tag |-> "latest"],
                        [reg |-> reg, repo |-> i.repo, tag |-> "release"]>>
<1>1. of("none") \in Seq(Image) /\ of("internal") \in Seq(Image)
  BY DEF Image
<1>2. Candidates(a, i) = of("none") \o (IF a.internal = "given" THEN of("internal") ELSE <<>>)
  BY DEF Candidates
<1>3. QED
  BY <1>1, <1>2

(* Who only moves on, with its image or another one.                       *)
Midway == Stages \ {"off", "truncate", "write", "prefix"}

LEMMA MovesOnTypeOK ==
  ASSUME ImageTypeOK, NEW l \in Launcher, NEW to \in Midway, NEW i \in Image,
         at[l] # "off", at' = [at EXCEPT ![l] = to],
         opened[l] = FALSE,
         \/ img' = [img EXCEPT ![l] = i]
         \/ at[l] # "name" /\ img' = img,
         UNCHANGED <<shared, asks, known, opened, left, settled>>
  PROVE  ImageTypeOK'
<1>1. at' \in [Launcher -> Stages] /\ img' \in [Launcher -> Option]
  BY DEF ImageTypeOK, Midway, Option
<1>2. \A j \in Launcher \ {l} : at'[j] = at[j] /\ img'[j] = img[j]
  BY DEF ImageTypeOK
<1>3. at'[l] = to /\ img'[l] \in Image /\ asks[l] \in Settings
  BY DEF ImageTypeOK
<1>4. QED
  BY <1>1, <1>2, <1>3 DEF ImageTypeOK, Midway, shared

(* One docker pull.                                                         *)
LEMMA PullsFromTypeOK ==
  ASSUME ImageTypeOK, NEW l \in Launcher, NEW i \in Image,
         NEW from \in Midway \ {"name"}, NEW done \in Midway, NEW failed \in Midway,
         PullsFrom(l, from, i, done, failed)
  PROVE  ImageTypeOK'
<1>1. at[l] = from /\ \E to \in {done, failed} : at' = [at EXCEPT ![l] = to]
  BY DEF PullsFrom, Goto
<1>2. PICK to \in Midway : at' = [at EXCEPT ![l] = to]
  BY <1>1
<1>3. at' \in [Launcher -> Stages] /\ at'[l] = to
      /\ \A j \in Launcher \ {l} : at'[j] = at[j]
  BY <1>2 DEF ImageTypeOK, Midway
<1>4. local' \subseteq Image
  BY DEF PullsFrom, ImageTypeOK
<1>5. at[l] \notin {"off", "name", "write"}
  BY <1>1 DEF Midway
<1>6. QED
  BY <1>3, <1>4, <1>5 DEF ImageTypeOK, PullsFrom, Midway

(* A step of a launcher on its way to the image.                            *)
LEMMA ChooseTypeOK ==
  ASSUME ImageTypeOK, NEW l \in Launcher, Choose(l)
  PROVE  ImageTypeOK'
<1>1. CASE Name(l)
  <2>1. at[l] = "name" /\ opened[l] = FALSE /\ asks[l] \in Settings
    BY <1>1 DEF Name, ImageTypeOK
  <2>2. \E to \in Midway, i \in Image :
          at' = [at EXCEPT ![l] = to] /\ img' = [img EXCEPT ![l] = i]
    BY <1>1, <2>1, AskedFor DEF Name, Goto, Becomes, Option, Midway, Stages
  <2>3. UNCHANGED <<shared, asks, known, opened, left, settled>>
    BY <1>1 DEF Name
  <2>4. QED
    BY <2>1, <2>2, <2>3, MovesOnTypeOK
<1>2. CASE LookAsNamed(l) \/ LookAsLatest(l) \/ Qualify(l) \/ RetagForRun(l)
           \/ Resolve(l) \/ Build(l) \/ PullFailed(l) \/ Login(l)
  <2> DEFINE Here == {"asNamed", "asLatest", "qualify", "retag", "resolve", "build",
                      "failed", "login"}
  <2>1. at[l] \in Here
    BY <1>2 DEF LookAsNamed, LookAsLatest, Qualify, RetagForRun, Resolve, Build,
                PullFailed, Login, Goto
  <2>2. opened[l] = FALSE /\ img[l] \in Image
    BY <2>1 DEF ImageTypeOK
  <2>3. \E to \in Midway, i \in Image :
          /\ at' = [at EXCEPT ![l] = to]
          /\ img' = [img EXCEPT ![l] = i] \/ img' = img
    <3>1. CASE Qualify(l) \/ Resolve(l)
      BY <3>1, <2>2, TurnedImage
      DEF Qualify, Resolve, Resolved, Goto, Becomes, Midway, Stages
    <3>2. CASE LookAsLatest(l) \/ RetagForRun(l)
      BY <3>2, <2>2, TurnedImage
      DEF LookAsLatest, RetagForRun, Goto, Becomes, Midway, Stages
    <3>3. CASE LookAsNamed(l) \/ Build(l) \/ PullFailed(l) \/ Login(l)
      BY <3>3, <2>2 DEF LookAsNamed, Build, PullFailed, Login, Goto, Midway, Stages
    <3>4. QED
      BY <1>2, <3>1, <3>2, <3>3
  <2>4. UNCHANGED <<shared, asks, known, opened, left, settled>>
    BY <1>2 DEF LookAsNamed, LookAsLatest, Qualify, RetagForRun, Resolve, Build,
                PullFailed, Login
  <2>5. QED
    BY <2>1, <2>2, <2>3, <2>4, MovesOnTypeOK
<1>3. CASE MirrorPrefix(l) \/ Probe(l)
  <2>1. at[l] \in {"mirror", "probe"} /\ opened[l] = FALSE
    BY <1>3 DEF MirrorPrefix, Probe, Goto, ImageTypeOK
  <2>2. \E to \in {"truncate", "prefix", "probe"} : at' = [at EXCEPT ![l] = to]
    BY <1>3 DEF MirrorPrefix, Probe, Goto
  <2>3. /\ at' \in [Launcher -> Stages] /\ at'[l] \in {"truncate", "prefix", "probe"}
        /\ \A j \in Launcher \ {l} : at'[j] = at[j]
    BY <2>2 DEF ImageTypeOK, Stages
  <2>4. /\ known' \in [Launcher -> {"unset", "none", "mirror"}]
        /\ at'[l] \in {"truncate", "prefix"} => known'[l] # "unset"
        /\ \A j \in Launcher \ {l} : known'[j] = known[j]
    <3>1. CASE Probe(l)
      BY <3>1 DEF Probe, Knows, ImageTypeOK
    <3>2. CASE MirrorPrefix(l) /\ asks[l].mirror # "unset"
      BY <3>2 DEF MirrorPrefix, Knows, ImageTypeOK
    <3>3. CASE MirrorPrefix(l) /\ asks[l].mirror = "unset"
      BY <3>3 DEF MirrorPrefix, Knows, Goto, ImageTypeOK
    <3>4. QED
      BY <1>3, <3>1, <3>2, <3>3
  <2>5. fresh' \in [Launcher -> BOOLEAN]
    BY <1>3 DEF MirrorPrefix, Probe, Tells, ImageTypeOK
  <2>6. UNCHANGED <<local, cache, lasting, starts, prunes, asks, img, opened, left, settled>>
    BY <1>3 DEF MirrorPrefix, Probe
  <2>7. QED
    BY <2>1, <2>3, <2>4, <2>5, <2>6 DEF ImageTypeOK
<1>4. CASE OpenCache(l) \/ WriteCache(l)
  BY <1>4 DEF OpenCache, WriteCache, Goto, ImageTypeOK, Stages
<1>5. CASE Prefix(l)
  <2>1. at[l] = "prefix" /\ opened[l] = FALSE /\ img[l] \in Image
    BY <1>5 DEF Prefix, Goto, ImageTypeOK
  <2>2. \E to \in Midway, i \in Image :
          at' = [at EXCEPT ![l] = to] /\ img' = [img EXCEPT ![l] = i]
    <3>1. at' = [at EXCEPT ![l] = Resolved(l)] /\ Resolved(l) \in Midway
      BY <1>5 DEF Prefix, Resolved, Goto, Midway, Stages
    <3>2. \E i \in Image : img' = [img EXCEPT ![l] = i]
      BY <1>5, <2>1, TurnedImage DEF Prefix, Becomes
    <3>3. QED
      BY <3>1, <3>2
  <2>3. UNCHANGED <<shared, asks, known, opened, left, settled>>
    BY <1>5 DEF Prefix
  <2>4. QED
    BY <2>1, <2>2, <2>3, MovesOnTypeOK
<1>6. CASE Override(l)
  <2>1. at[l] = "override" /\ asks[l] \in Settings /\ img[l] \in Image
    BY <1>6 DEF Override, Goto, ImageTypeOK
  <2>2. Overridden(asks[l], img[l]) \in Image
    BY <2>1, AskedFor, TurnedImage DEF Overridden, Option
  <2>3. left' \in [Launcher -> Seq(Image)]
    BY <1>6, <2>1, <2>2, CandidatesAreImages DEF Override, ImageTypeOK
  <2>4. QED
    BY <1>6, <2>2, <2>3 DEF Override, Goto, Becomes, ImageTypeOK, Stages, Option, shared
<1>7. CASE LookForCandidate(l)
  <2>1. left[l] # <<>> => Head(left[l]) \in Image /\ Tail(left[l]) \in Seq(Image)
    BY DEF ImageTypeOK
  <2>2. left' \in [Launcher -> Seq(Image)]
    BY <1>7, <2>1 DEF LookForCandidate, ImageTypeOK
  <2>3. /\ img' \in [Launcher -> Option] /\ img'[l] \in Image
        /\ \A j \in Launcher \ {l} : img'[j] = img[j]
    BY <1>7, <2>1 DEF LookForCandidate, ImageTypeOK, Goto, Becomes, Option
  <2>4. /\ at[l] = "candidate" /\ at' \in [Launcher -> Stages]
        /\ at'[l] \in {"resolve", "build", "candidate"}
        /\ \A j \in Launcher \ {l} : at'[j] = at[j]
    BY <1>7 DEF LookForCandidate, Goto, ImageTypeOK, Stages
  <2>5. settled' \in [Launcher -> BOOLEAN]
    BY <1>7 DEF LookForCandidate, ImageTypeOK
  <2>6. QED
    BY <1>7, <2>2, <2>3, <2>4, <2>5 DEF LookForCandidate, ImageTypeOK, shared
<1>8. CASE Pull(l) \/ PullOtherwise(l)
  <2>1. at[l] \in {"pull", "pullAgain", "retry", "pullTail"}
    BY <1>8 DEF Pull, PullOtherwise, PullsFrom, Goto
  <2>2. img[l] \in Image
    BY <2>1 DEF ImageTypeOK
  <2>3. {"pull", "pullAgain", "retry", "pullTail", "failed", "run"} \subseteq Midway
    BY DEF Midway, Stages
  <2>4. QED
    BY <1>8, <2>2, <2>3, TurnedImage, PullsFromTypeOK DEF Pull, PullOtherwise
<1>9. CASE Run(l)
  <2>1. img[l] \in Image
    BY <1>9 DEF Run, ImageTypeOK
  <2>2. /\ at' \in [Launcher -> Stages] /\ at'[l] = "off"
        /\ \A j \in Launcher \ {l} : at'[j] = at[j]
    BY <1>9 DEF Run, Leave, ImageTypeOK, Stages
  <2>3. local' \subseteq Image
    BY <1>9, <2>1 DEF Run, ImageTypeOK
  <2>4. QED
    BY <1>9, <2>2, <2>3 DEF Run, Leave, ImageTypeOK, Option
<1>10. QED
  BY <1>1, <1>2, <1>3, <1>4, <1>5, <1>6, <1>7, <1>8, <1>9 DEF Choose

LEMMA StartImageTypeOK == StartInit => ImageTypeOK
  BY ImageAssumption DEF StartInit, ImageInit, ImageTypeOK, Stages, Option

LEMMA NextImageTypeOK == ImageTypeOK /\ [StartNext]_startVars => ImageTypeOK'
<1> SUFFICES ASSUME ImageTypeOK, [StartNext]_startVars
             PROVE  ImageTypeOK'
  OBVIOUS
<1>1. ASSUME NEW l \in Launcher, NEW a \in Settings, Begin(l, a)
      PROVE  ImageTypeOK'
  <2>1. starts' \in 0..MaxStarts
    BY <1>1, ImageAssumption DEF Begin, ImageTypeOK
  <2>2. opened' \in [Launcher -> BOOLEAN] /\ \A j \in Launcher : opened'[j] => opened[j]
    BY <1>1, AskedFor DEF Begin, ImageTypeOK
  <2>3. fresh' \in [Launcher -> BOOLEAN]
    BY <1>1, AskedFor DEF Begin, ImageTypeOK
  <2>4. at[l] = "off" /\ at' = [at EXCEPT ![l] = "name"]
    BY <1>1 DEF Begin, Goto
  <2>5. QED
    BY <1>1, <2>1, <2>2, <2>3, <2>4 DEF Begin, ImageTypeOK, Stages
<1>2. ASSUME NEW l \in Launcher, Killed(l)
      PROVE  ImageTypeOK'
  BY <1>2 DEF Killed, Leave, ImageTypeOK, Stages, Option
<1>3. ASSUME NEW i \in local, Prune(i)
      PROVE  ImageTypeOK'
  BY <1>3, ImageAssumption DEF Prune, ImageTypeOK
<1>4. CASE UNCHANGED imageVars
  BY <1>4 DEF imageVars, shared, ImageTypeOK
<1>5. QED
  BY <1>1, <1>2, <1>3, <1>4, ChooseTypeOK
  DEF StartNext, Starts, Offers, FindsImage, Environment, startVars

(* The types, for any launchers, settings, images and bounds.              *)
THEOREM TypeCorrect == StartSpec => []StartTypeOK
<1>1. StartInit => StartTypeOK /\ MigrationInv
  BY StartImageTypeOK, StartMigrationInv DEF StartTypeOK, MigrationInv
<1>2. StartTypeOK /\ MigrationInv /\ [StartNext]_startVars => StartTypeOK' /\ MigrationInv'
  BY NextImageTypeOK, NextMigrationInv DEF StartTypeOK, MigrationInv
<1>3. QED
  BY <1>1, <1>2, PTL DEF StartSpec

-----------------------------------------------------------------------------
(* The cached prefix.                                                      *)

(* The file says where the mirror is, or somebody is about to write it.    *)
Told == \/ cache = "mirror"
        \/ \E j \in Launcher : known[j] = "mirror" /\ (at[j] = "truncate" \/ opened[j])

KnownIsFresh ==
  \A l \in Launcher : /\ known[l] = "mirror" => fresh[l]
                      /\ at[l] = "off" => known[l] = "unset"

ToldIsFresh == Told => \A l \in Launcher : fresh[l]

MirrorInv == KnownIsFresh /\ ToldIsFresh

(* An invalidation leaves nothing in the file that could be read.           *)
LEMMA BeginMirrorInv ==
  ASSUME ImageTypeOK, MirrorInv, NEW l \in Launcher, NEW a \in Settings, Begin(l, a)
  PROVE  MirrorInv'
<1>1. /\ at[l] = "off" /\ known' = known /\ at'[l] = "name"
      /\ \A j \in Launcher \ {l} : at'[j] = at[j] /\ fresh'[j] = fresh[j]
  BY DEF Begin, Goto, ImageTypeOK
<1>2. CASE a.invalidate
  <2>1. /\ cache' = "absent" /\ \A j \in Launcher : ~opened'[j]
        /\ fresh'[l] = \E j \in Launcher : at[j] = "truncate" /\ known[j] = "mirror"
    BY <1>2 DEF Begin, ImageTypeOK
  <2>2. QED
    BY <1>1, <2>1 DEF MirrorInv, KnownIsFresh, ToldIsFresh, Told
<1>3. CASE ~a.invalidate
  <2>1. cache' = cache /\ \A j \in Launcher : opened'[j] <=> opened[j]
    BY <1>3 DEF Begin, ImageTypeOK
  <2>2. fresh'[l]
    BY <1>3 DEF Begin, ImageTypeOK
  <2>3. QED
    BY <1>1, <2>1, <2>2 DEF MirrorInv, KnownIsFresh, ToldIsFresh, Told
<1>4. QED
  BY <1>2, <1>3

(* Whoever goes on without the file and without learning of the mirror.    *)
LEMMA OtherwiseMirrorInv ==
  ASSUME ImageTypeOK, MirrorInv, NEW l \in Launcher,
         UNCHANGED <<cache, known, opened, fresh>>, at[l] # "off",
         \E to \in Stages \ {"off", "truncate"} : at' = [at EXCEPT ![l] = to]
  PROVE  MirrorInv'
<1>1. /\ at'[l] \notin {"off", "truncate"}
      /\ \A j \in Launcher \ {l} : at'[j] = at[j]
  BY DEF ImageTypeOK
<1>2. QED
  BY <1>1 DEF MirrorInv, KnownIsFresh, ToldIsFresh, Told

(* Whoever ends or is killed leaves the file as it is.                      *)
LEMMA LeaveMirrorInv ==
  ASSUME ImageTypeOK, MirrorInv, NEW l \in Launcher, Leave(l), UNCHANGED cache
  PROVE  MirrorInv'
<1>1. /\ at'[l] = "off" /\ known'[l] = "unset" /\ ~opened'[l] /\ fresh'[l]
      /\ \A j \in Launcher \ {l} : /\ at'[j] = at[j] /\ known'[j] = known[j]
                                   /\ opened'[j] = opened[j] /\ fresh'[j] = fresh[j]
  BY DEF Leave, ImageTypeOK
<1>2. QED
  BY <1>1 DEF MirrorInv, KnownIsFresh, ToldIsFresh, Told

(* A step of a launcher on its way to the image.                            *)
LEMMA ChooseMirrorInv ==
  ASSUME ImageTypeOK, MirrorInv, NEW l \in Launcher, Choose(l)
  PROVE  MirrorInv'
<1>1. CASE MirrorPrefix(l) \/ Probe(l)
  <2>1. at[l] \in {"mirror", "probe"} /\ ~opened[l] /\ cache' = cache /\ opened' = opened
    BY <1>1 DEF MirrorPrefix, Probe, Goto, ImageTypeOK
  <2>2. /\ at'[l] # "off"
        /\ \A j \in Launcher \ {l} : at'[j] = at[j] /\ known'[j] = known[j]
    BY <1>1 DEF MirrorPrefix, Probe, Goto, Knows, ImageTypeOK
  <2>3. CASE \E p \in {"mirror", "none"} : Knows(l, p) /\ Tells(p)
    <3>1. PICK p \in {"mirror", "none"} : Knows(l, p) /\ Tells(p)
      BY <2>3
    <3>2. known'[l] = p
      BY <3>1 DEF Knows, ImageTypeOK
    <3>3. CASE p = "mirror"
      <4>1. \A j \in Launcher : fresh'[j]
        BY <3>1, <3>3 DEF Tells
      <4>2. QED
        BY <2>2, <4>1 DEF MirrorInv, KnownIsFresh, ToldIsFresh
    <3>4. CASE p = "none"
      <4>1. fresh' = fresh
        BY <3>1, <3>4 DEF Tells
      <4>2. QED
        BY <2>1, <2>2, <3>2, <3>4, <4>1 DEF MirrorInv, KnownIsFresh, ToldIsFresh, Told
    <3>5. QED
      BY <3>3, <3>4
  <2>4. CASE fresh' = fresh /\ at'[l] # "truncate" /\ (known' = known \/ Knows(l, cache))
    <3>1. known'[l] = known[l] \/ known'[l] = cache
      BY <2>4 DEF Knows, ImageTypeOK
    <3>2. QED
      BY <2>1, <2>2, <2>4, <3>1 DEF MirrorInv, KnownIsFresh, ToldIsFresh, Told
  <2>5. CASE Probe(l)
    BY <2>3, <2>5 DEF Probe
  <2>6. CASE MirrorPrefix(l) /\ asks[l].mirror # "unset"
    BY <2>3, <2>6 DEF MirrorPrefix
  <2>7. CASE MirrorPrefix(l) /\ asks[l].mirror = "unset"
    BY <2>4, <2>7 DEF MirrorPrefix, Goto, ImageTypeOK
  <2>8. QED
    BY <1>1, <2>5, <2>6, <2>7
<1>2. CASE OpenCache(l) \/ WriteCache(l)
  <2>1. /\ at[l] \in {"truncate", "write"} /\ at'[l] \in {"write", "prefix"}
        /\ \A j \in Launcher \ {l} : at'[j] = at[j] /\ opened'[j] = opened[j]
    BY <1>2 DEF OpenCache, WriteCache, Goto, ImageTypeOK
  <2>2. known' = known /\ fresh' = fresh
    BY <1>2 DEF OpenCache, WriteCache
  <2>3. CASE OpenCache(l)
    <3>1. at[l] = "truncate" /\ (cache' = "none" \/ cache' = cache)
      BY <2>3 DEF OpenCache, Goto
    <3>2. QED
      BY <2>1, <2>2, <3>1 DEF MirrorInv, KnownIsFresh, ToldIsFresh, Told
  <2>4. CASE WriteCache(l)
    <3>1. ~opened'[l] /\ (cache' = cache \/ (opened[l] /\ known[l] = "mirror"))
      BY <2>4 DEF WriteCache, ImageTypeOK
    <3>2. QED
      BY <2>1, <2>2, <3>1 DEF MirrorInv, KnownIsFresh, ToldIsFresh, Told
  <2>5. QED
    BY <1>2, <2>3, <2>4
<1>3. CASE \/ Name(l) \/ LookAsNamed(l) \/ LookAsLatest(l) \/ Qualify(l)
           \/ RetagForRun(l) \/ Resolve(l) \/ Prefix(l)
           \/ Override(l) \/ LookForCandidate(l) \/ Build(l) \/ PullFailed(l) \/ Login(l)
  <2>1. UNCHANGED <<cache, known, opened, fresh>>
    BY <1>3 DEF Name, LookAsNamed, LookAsLatest, Qualify, RetagForRun, Resolve, Prefix,
                Override, LookForCandidate, Build, PullFailed, Login, shared
  <2>2. at[l] # "off" /\ \E to \in Stages \ {"off", "truncate"} : at' = [at EXCEPT ![l] = to]
    BY <1>3 DEF Name, LookAsNamed, LookAsLatest, Qualify, RetagForRun, Resolve, Resolved,
                Prefix, Override, LookForCandidate, Build, PullFailed, Login, Goto, Stages
  <2>3. QED
    BY <2>1, <2>2, OtherwiseMirrorInv
<1>4. CASE Pull(l) \/ PullOtherwise(l)
  <2>1. UNCHANGED <<cache, known, opened, fresh>>
    BY <1>4 DEF Pull, PullOtherwise, PullsFrom
  <2>2. at[l] # "off" /\ \E to \in Stages \ {"off", "truncate"} : at' = [at EXCEPT ![l] = to]
    BY <1>4 DEF Pull, PullOtherwise, PullsFrom, Goto, Stages
  <2>3. QED
    BY <2>1, <2>2, OtherwiseMirrorInv
<1>5. CASE Run(l)
  BY <1>5, LeaveMirrorInv DEF Run
<1>6. QED
  BY <1>1, <1>2, <1>3, <1>4, <1>5 DEF Choose

(* What a launcher knows of the mirror was told after its invalidation,    *)
(* for any number of launchers that share the file.                        *)
THEOREM InvalidationCorrect == StartSpec => []InvalidationHolds
<1> DEFINE Inv == ImageTypeOK /\ MirrorInv
<1>1. StartInit => Inv
  <2>1. StartInit => MirrorInv
    BY DEF StartInit, ImageInit, MirrorInv, KnownIsFresh, ToldIsFresh
  <2>2. QED
    BY <2>1, StartImageTypeOK
<1>2. Inv /\ [StartNext]_startVars => Inv'
  <2> SUFFICES ASSUME Inv, [StartNext]_startVars
               PROVE  MirrorInv'
    BY NextImageTypeOK
  <2>1. ASSUME NEW l \in Launcher, Killed(l)
        PROVE  MirrorInv'
    BY <2>1, LeaveMirrorInv DEF Killed
  <2>2. ASSUME NEW i \in local, Prune(i)
        PROVE  MirrorInv'
    BY <2>2 DEF Prune, MirrorInv, KnownIsFresh, ToldIsFresh, Told
  <2>3. CASE UNCHANGED imageVars
    BY <2>3 DEF imageVars, shared, MirrorInv, KnownIsFresh, ToldIsFresh, Told
  <2>4. QED
    BY <2>1, <2>2, <2>3, BeginMirrorInv, ChooseMirrorInv
    DEF StartNext, Starts, Offers, FindsImage, Environment, startVars
<1>3. Inv => InvalidationHolds
  BY DEF MirrorInv, KnownIsFresh, InvalidationHolds
<1>4. QED
  BY <1>1, <1>2, <1>3, PTL DEF StartSpec

-----------------------------------------------------------------------------
(* Local images.                                                           *)

Untagged(l) == asks[l].cli = NoImage /\ ~asks[l].tag /\ ~asks[l].ignore

Pulls == {"pull", "pullAgain", "failed", "login", "retry", "pullTail"}

Early == {"asNamed", "asLatest", "qualify", "retag", "resolve", "mirror", "probe",
          "truncate", "write", "prefix", "override"}

(* The repository of the image before anything overrides it.               *)
FirstRepo(a) == IF a.full # NoImage THEN a.full.repo ELSE a.repo

LeftOf(l) == {left[l][n] : n \in DOMAIN left[l]}

(* The images that would do and that have been there all the time.         *)
Waiting(l) == Accepted(l) \cap lasting[l]

SearchOf(l) ==
  /\ at[l] \in Early /\ ~settled[l] => img[l].repo = FirstRepo(asks[l])
  /\ at[l] = "candidate" => Waiting(l) \subseteq LeftOf(l) /\ LeftOf(l) \subseteq Accepted(l)
  /\ settled[l] => Waiting(l) = {}
  /\ at[l] \in Pulls \cup {"build", "run"} => settled[l] \/ img[l] \in Accepted(l)
  /\ at[l] \in Pulls => img[l] \notin lasting[l]

Settling(l) == at[l] \in {"off", "name", "override"} => ~settled[l]

SearchInv ==
  \A l \in Launcher :
    /\ lasting[l] \subseteq local
    /\ Settling(l)
    /\ at[l] \notin {"off", "name"} /\ Untagged(l) => SearchOf(l)

SearchIInv == ImageTypeOK /\ SearchInv

(* Another launcher's step, or the removal of an image.                    *)
LEMMA OthersSearchInv ==
  ASSUME SearchInv, NEW j \in Launcher,
         at'[j] = at[j], asks'[j] = asks[j], img'[j] = img[j],
         left'[j] = left[j], settled'[j] = settled[j],
         lasting'[j] \subseteq lasting[j], lasting'[j] \subseteq local'
  PROVE  /\ lasting'[j] \subseteq local'
         /\ Settling(j)'
         /\ at'[j] \notin {"off", "name"} /\ Untagged(j)' => SearchOf(j)'
<1>1. Accepted(j)' = Accepted(j)
  BY DEF Accepted, Composed
<1>2. Waiting(j)' \subseteq Waiting(j) /\ LeftOf(j)' = LeftOf(j)
  BY <1>1 DEF Waiting, LeftOf
<1>3. QED
  BY <1>1, <1>2 DEF SearchInv, Settling, Untagged, SearchOf

(* Whoever is under way changes nothing of the others and only adds images. *)
LEMMA OwnSearchInv ==
  ASSUME ImageTypeOK, SearchInv, NEW l \in Launcher, at[l] # "off",
         \E to \in Stages : at' = [at EXCEPT ![l] = to],
         UNCHANGED <<asks, lasting>>, local \subseteq local',
         img' = img \/ \E i \in Image : img' = [img EXCEPT ![l] = i],
         left' = left \/ \E s \in Seq(Image) : left' = [left EXCEPT ![l] = s],
         settled' = settled \/ settled' = [settled EXCEPT ![l] = TRUE],
         Settling(l)',
         Untagged(l) => SearchOf(l)'
  PROVE  SearchInv'
<1>1. \A j \in Launcher \ {l} :
        /\ at'[j] = at[j] /\ asks'[j] = asks[j] /\ img'[j] = img[j]
        /\ left'[j] = left[j] /\ settled'[j] = settled[j]
        /\ lasting'[j] \subseteq lasting[j] /\ lasting'[j] \subseteq local'
  BY DEF ImageTypeOK, SearchInv
<1>2. \A j \in Launcher \ {l} :
        /\ lasting'[j] \subseteq local'
        /\ Settling(j)'
        /\ at'[j] \notin {"off", "name"} /\ Untagged(j)' => SearchOf(j)'
  BY <1>1, OthersSearchInv
<1>3. lasting'[l] \subseteq local'
  BY DEF SearchInv
<1>4. Untagged(l)' => Untagged(l)
  BY DEF Untagged
<1>5. QED
  BY <1>2, <1>3, <1>4 DEF SearchInv

(* Whoever ends or is killed.                                               *)
LEMMA LeaveSearchInv ==
  ASSUME ImageTypeOK, SearchInv, NEW l \in Launcher, Leave(l), local \subseteq local'
  PROVE  SearchInv'
<1>1. \A j \in Launcher \ {l} :
        /\ at'[j] = at[j] /\ asks'[j] = asks[j] /\ img'[j] = img[j]
        /\ left'[j] = left[j] /\ settled'[j] = settled[j]
        /\ lasting'[j] \subseteq lasting[j] /\ lasting'[j] \subseteq local'
  BY DEF Leave, ImageTypeOK, SearchInv
<1>2. \A j \in Launcher \ {l} :
        /\ lasting'[j] \subseteq local'
        /\ Settling(j)'
        /\ at'[j] \notin {"off", "name"} /\ Untagged(j)' => SearchOf(j)'
  BY <1>1, OthersSearchInv
<1>3. at'[l] = "off" /\ ~settled'[l] /\ lasting'[l] = {}
  BY DEF Leave, ImageTypeOK
<1>4. QED
  BY <1>2, <1>3 DEF SearchInv, Settling

(* Whoever begins: all that is local counts as there all the time.          *)
LEMMA BeginSearchInv ==
  ASSUME ImageTypeOK, SearchInv, NEW l \in Launcher, NEW a \in Settings, Begin(l, a)
  PROVE  SearchInv'
<1>1. \A j \in Launcher \ {l} :
        /\ at'[j] = at[j] /\ asks'[j] = asks[j] /\ img'[j] = img[j]
        /\ left'[j] = left[j] /\ settled'[j] = settled[j]
        /\ lasting'[j] \subseteq lasting[j] /\ lasting'[j] \subseteq local'
  BY DEF Begin, Goto, ImageTypeOK, SearchInv
<1>2. \A j \in Launcher \ {l} :
        /\ lasting'[j] \subseteq local'
        /\ Settling(j)'
        /\ at'[j] \notin {"off", "name"} /\ Untagged(j)' => SearchOf(j)'
  BY <1>1, OthersSearchInv
<1>3. at[l] = "off" /\ at'[l] = "name" /\ settled' = settled /\ lasting'[l] = local'
  BY DEF Begin, Goto, ImageTypeOK
<1>4. QED
  BY <1>2, <1>3 DEF SearchInv, Settling

(* An image that is removed is no longer one that was there all the time.   *)
LEMMA PruneSearchInv ==
  ASSUME ImageTypeOK, SearchInv, NEW i \in local, Prune(i)
  PROVE  SearchInv'
<1>1. \A j \in Launcher :
        lasting'[j] \subseteq lasting[j] /\ lasting'[j] \subseteq local'
  BY DEF Prune, ImageTypeOK, SearchInv
<1>2. \A j \in Launcher :
        /\ lasting'[j] \subseteq local'
        /\ Settling(j)'
        /\ at'[j] \notin {"off", "name"} /\ Untagged(j)' => SearchOf(j)'
  BY <1>1, OthersSearchInv DEF Prune
<1>3. QED
  BY <1>2 DEF SearchInv

(* Another tag or registry is of the same repository.                       *)
LEMMA TurnedRepo ==
  ASSUME NEW i \in Image, NEW x
  PROVE  Retag(i, x).repo = i.repo /\ From(x, i).repo = i.repo
<1>1. Retag(i, x) = [reg |-> i.reg, repo |-> i.repo, tag |-> x]
  BY DEF Retag, Image
<1>2. From(x, i) = [reg |-> x, repo |-> i.repo, tag |-> i.tag]
  BY DEF From, Image
<1>3. QED
  BY <1>1, <1>2

(* Looking for the image and its registry keeps the repository.            *)
LEMMA EarlySearchInv ==
  ASSUME ImageTypeOK, SearchInv, NEW l \in Launcher,
         at[l] \in Early \ {"override"},
         NEW to \in Early \cup {"build"}, at' = [at EXCEPT ![l] = to],
         to = "override" => ~settled[l],
         to = "build" /\ Untagged(l) => settled[l],
         \/ img' = img
         \/ \E i \in Image : i.repo = img[l].repo /\ img' = [img EXCEPT ![l] = i],
         UNCHANGED <<local, asks, lasting, left, settled>>
  PROVE  SearchInv'
<1>1. at[l] \notin {"off", "name", "candidate"} /\ to \in Stages \ {"off", "name", "candidate"}
  BY DEF Early, Stages
<1>2. at'[l] = to /\ img'[l].repo = img[l].repo
  BY DEF ImageTypeOK
<1>3. Accepted(l)' = Accepted(l)
  BY DEF Accepted, Composed
<1>4. Settling(l)'
  BY <1>1, <1>2 DEF Settling
<1>5. Untagged(l) => SearchOf(l)'
  <2> SUFFICES ASSUME Untagged(l)
               PROVE  SearchOf(l)'
    OBVIOUS
  <2>1. SearchOf(l)
    BY <1>1 DEF SearchInv
  <2>2. to \notin Pulls \cup {"candidate", "run"}
    BY DEF Early, Pulls
  <2>3. to = "build" => settled'[l]
    OBVIOUS
  <2>4. settled'[l] => Waiting(l)' = {}
    BY <1>3, <2>1 DEF SearchOf, Waiting
  <2>5. to \in Early /\ ~settled'[l] => img'[l].repo = FirstRepo(asks'[l])
    BY <1>2, <2>1 DEF SearchOf
  <2>6. QED
    BY <1>2, <2>2, <2>3, <2>4, <2>5 DEF SearchOf
<1>6. img' = img \/ \E i \in Image : img' = [img EXCEPT ![l] = i]
  OBVIOUS
<1>7. QED
  BY <1>1, <1>4, <1>5, <1>6, OwnSearchInv

(* Pulling keeps to the image.                                             *)
LEMMA PullsSearchInv ==
  ASSUME ImageTypeOK, SearchInv, NEW l \in Launcher, at[l] \in Pulls,
         NEW to \in Pulls \cup {"run"}, at' = [at EXCEPT ![l] = to],
         UNCHANGED <<img, asks, lasting, left, settled>>, local \subseteq local'
  PROVE  SearchInv'
<1>1. at[l] \notin {"off", "name"} /\ to \in Stages \ {"off", "name", "override", "candidate"}
      /\ to \notin Early
  BY DEF Pulls, Stages, Early
<1>2. at'[l] = to
  BY DEF ImageTypeOK
<1>3. Accepted(l)' = Accepted(l)
  BY DEF Accepted, Composed
<1>4. Settling(l)'
  BY <1>1, <1>2 DEF Settling
<1>5. Untagged(l) => SearchOf(l)'
  BY <1>1, <1>2, <1>3 DEF SearchInv, SearchOf, Waiting
<1>6. QED
  BY <1>1, <1>4, <1>5, OwnSearchInv

(* What is looked for is all that would do.                                *)
LEMMA CandidatesAreAccepted ==
  ASSUME ImageTypeOK, NEW l \in Launcher, asks[l] \in Settings, NEW i \in Image,
         i.repo = IF asks[l].over # NoImage THEN asks[l].over.repo
                  ELSE FirstRepo(asks[l]),
         NEW s, s = Candidates(asks[l], i)
  PROVE  {s[n] : n \in DOMAIN s} = Accepted(l)
<1> DEFINE of(reg, t) == [reg |-> reg, repo |-> i.repo, tag |-> t]
           a == asks[l]
<1>1. Composed(a).repo = a.repo
  BY DEF Composed
<1>2. Accepted(l) = {k \in Image : /\ k.repo = i.repo
                                   /\ k.tag \in {"latest", "release"}
                                   /\ \/ k.reg = "none"
                                      \/ k.reg = "internal" /\ a.internal = "given"}
  BY <1>1 DEF Accepted, FirstRepo
<1>3. CASE a.internal = "given"
  <2> DEFINE p == <<of("none", "latest"), of("none", "release")>>
             q == <<of("internal", "latest"), of("internal", "release")>>
  <2>1. s = p \o q
    BY <1>3 DEF Candidates
  <2>2. {s[n] : n \in DOMAIN s} = {of("none", "latest"), of("none", "release"),
                                   of("internal", "latest"), of("internal", "release")}
    <3>1. p \in Seq(Image) /\ q \in Seq(Image)
      BY DEF Image
    <3>2. Len(s) = 4 /\ DOMAIN s = 1..4
      BY <2>1, <3>1
    <3>3. s[1] = p[1] /\ s[2] = p[2] /\ s[3] = q[1] /\ s[4] = q[2]
      BY <2>1, <3>1
    <3>4. {s[n] : n \in DOMAIN s} = {s[1], s[2], s[3], s[4]}
      BY <3>2
    <3>5. QED
      BY <3>3, <3>4
  <2>3. Accepted(l) = {of("none", "latest"), of("none", "release"),
                       of("internal", "latest"), of("internal", "release")}
    BY <1>2, <1>3 DEF Image
  <2>4. QED
    BY <2>2, <2>3
<1>4. CASE a.internal # "given"
  <2>1. s = <<of("none", "latest"), of("none", "release")>>
    BY <1>4 DEF Candidates
  <2>2. {s[n] : n \in DOMAIN s} = {of("none", "latest"), of("none", "release")}
    BY <2>1
  <2>3. Accepted(l) = {of("none", "latest"), of("none", "release")}
    BY <1>2, <1>4 DEF Image
  <2>4. QED
    BY <2>2, <2>3
<1>5. QED
  BY <1>3, <1>4

(* The search begins with all that would do.                                *)
LEMMA OverrideSearchInv ==
  ASSUME ImageTypeOK, SearchInv, NEW l \in Launcher, Override(l)
  PROVE  SearchInv'
<1> DEFINE i == Overridden(asks[l], img[l])
<1>1. at[l] = "override" /\ at' = [at EXCEPT ![l] = "candidate"] /\ at'[l] = "candidate"
  BY DEF Override, Goto, ImageTypeOK
<1>2. asks[l] \in Settings /\ img[l] \in Image /\ ~settled[l]
  BY <1>1 DEF ImageTypeOK, SearchInv, Settling
<1>3. i \in Image /\ img' = [img EXCEPT ![l] = i]
  BY <1>2, AskedFor, TurnedImage DEF Override, Becomes, Overridden, Option
<1> DEFINE s == IF asks[l].ignore THEN <<>> ELSE Candidates(asks[l], i)
<1>4. s \in Seq(Image) /\ left' = [left EXCEPT ![l] = s]
  BY <1>2, <1>3, CandidatesAreImages DEF Override
<1>5. UNCHANGED <<local, asks, lasting, settled>>
  BY DEF Override, shared
<1>6. Untagged(l) => SearchOf(l)'
  <2> SUFFICES ASSUME Untagged(l)
               PROVE  SearchOf(l)'
    OBVIOUS
  <2>1. img[l].repo = FirstRepo(asks[l])
    BY <1>1, <1>2 DEF SearchInv, SearchOf, Early
  <2>2. i.repo = IF asks[l].over # NoImage THEN asks[l].over.repo ELSE FirstRepo(asks[l])
    BY <1>2, <2>1, TurnedRepo DEF Overridden
  <2>3. left'[l] = Candidates(asks[l], i)
    BY DEF Untagged, Override, ImageTypeOK
  <2>4. LeftOf(l)' = Accepted(l)
    BY <1>2, <1>3, <2>2, <2>3, CandidatesAreAccepted DEF LeftOf
  <2>5. Accepted(l)' = Accepted(l)
    BY <1>5 DEF Accepted, Composed
  <2>6. QED
    BY <1>1, <1>2, <1>5, <2>4, <2>5 DEF SearchOf, Waiting, Early, Pulls
<1>7. Settling(l)'
  BY <1>1 DEF Settling
<1>8. QED
  BY <1>1, <1>3, <1>4, <1>5, <1>6, <1>7, OwnSearchInv DEF Stages

(* What the sequence holds is its head and what its tail holds.            *)
LEMMA HeadAndTail ==
  ASSUME NEW S, NEW s \in Seq(S), s # <<>>
  PROVE  /\ Tail(s) \in Seq(S)
         /\ {s[n] : n \in DOMAIN s}
              = {Head(s)} \cup {Tail(s)[n] : n \in DOMAIN Tail(s)}
<1>1. Len(s) \in Nat \ {0} /\ DOMAIN s = 1..Len(s)
  OBVIOUS
<1>2. Tail(s) \in Seq(S) /\ Len(Tail(s)) = Len(s) - 1 /\ DOMAIN Tail(s) = 1..(Len(s) - 1)
  BY <1>1
<1>3. \A n \in 1..(Len(s) - 1) : Tail(s)[n] = s[n + 1]
  BY <1>1, <1>2
<1>4. ASSUME NEW n \in DOMAIN s
      PROVE  s[n] \in {Head(s)} \cup {Tail(s)[m] : m \in DOMAIN Tail(s)}
  <2>1. CASE n = 1
    BY <2>1
  <2>2. CASE n # 1
    <3>1. n - 1 \in DOMAIN Tail(s) /\ Tail(s)[n - 1] = s[n]
      BY <1>1, <1>2, <1>3, <2>2
    <3>2. QED
      BY <3>1
  <2>3. QED
    BY <2>1, <2>2
<1>5. ASSUME NEW n \in DOMAIN Tail(s)
      PROVE  Tail(s)[n] \in {s[m] : m \in DOMAIN s}
  <2>1. n + 1 \in DOMAIN s /\ Tail(s)[n] = s[n + 1]
    BY <1>1, <1>2, <1>3
  <2>2. QED
    BY <2>1
<1>6. Head(s) \in {s[m] : m \in DOMAIN s}
  <2>1. 1 \in DOMAIN s /\ Head(s) = s[1]
    BY <1>1
  <2>2. QED
    BY <2>1
<1>7. QED
  BY <1>2, <1>4, <1>5, <1>6

(* What is passed over is not local; what is found would do.                *)
LEMMA CandidateSearchInv ==
  ASSUME ImageTypeOK, SearchInv, NEW l \in Launcher, LookForCandidate(l)
  PROVE  SearchInv'
<1>1. at[l] = "candidate" /\ left[l] \in Seq(Image)
  BY DEF LookForCandidate, Goto, ImageTypeOK
<1>2. UNCHANGED <<local, asks, lasting>> /\ Accepted(l)' = Accepted(l)
  BY DEF LookForCandidate, shared, Accepted, Composed
<1>3. Untagged(l) => Waiting(l) \subseteq LeftOf(l) /\ LeftOf(l) \subseteq Accepted(l)
                     /\ lasting[l] \subseteq local /\ SearchOf(l)
  BY <1>1 DEF SearchInv, SearchOf
<1>4. CASE left[l] = <<>>
  <2>1. /\ at' = [at EXCEPT ![l] = "resolve"] /\ at'[l] = "resolve"
        /\ settled' = [settled EXCEPT ![l] = TRUE] /\ settled'[l]
        /\ UNCHANGED <<img, left>>
    BY <1>4 DEF LookForCandidate, Goto, ImageTypeOK
  <2>2. LeftOf(l) = {}
    BY <1>4 DEF LeftOf
  <2>3. Untagged(l) => SearchOf(l)'
    BY <1>2, <1>3, <2>1, <2>2 DEF SearchOf, Waiting, Pulls
  <2>4. Settling(l)'
    BY <2>1 DEF Settling
  <2>5. QED
    BY <1>1, <1>2, <2>1, <2>3, <2>4, OwnSearchInv DEF Stages
<1>5. CASE left[l] # <<>> /\ Exists(l, Head(left[l]))
  <2>1. /\ at' = [at EXCEPT ![l] = "build"] /\ at'[l] = "build"
        /\ img' = [img EXCEPT ![l] = Head(left[l])] /\ img'[l] = Head(left[l])
        /\ UNCHANGED <<left, settled>>
    BY <1>1, <1>5 DEF LookForCandidate, Goto, Becomes, ImageTypeOK
  <2>2. Head(left[l]) \in Image /\ Head(left[l]) \in LeftOf(l)
    BY <1>1, <1>5, HeadAndTail DEF LeftOf
  <2>3. Untagged(l) => SearchOf(l)'
    BY <1>2, <1>3, <2>1, <2>2 DEF SearchOf, Waiting, Pulls, Early
  <2>4. Settling(l)'
    BY <2>1 DEF Settling
  <2>5. QED
    BY <1>1, <1>2, <2>1, <2>2, <2>3, <2>4, OwnSearchInv DEF Stages
<1>6. CASE left[l] # <<>> /\ ~Exists(l, Head(left[l]))
  <2>1. /\ at' = [at EXCEPT ![l] = "candidate"] /\ at'[l] = "candidate"
        /\ left' = [left EXCEPT ![l] = Tail(left[l])] /\ left'[l] = Tail(left[l])
        /\ UNCHANGED <<img, settled>>
    <3>1. /\ Goto(l, "candidate", "candidate")
          /\ left' = [left EXCEPT ![l] = Tail(left[l])]
          /\ UNCHANGED <<img, settled>>
      BY <1>6 DEF LookForCandidate
    <3>2. QED
      BY <3>1 DEF Goto, ImageTypeOK
  <2>2. Tail(left[l]) \in Seq(Image) /\ LeftOf(l) = {Head(left[l])} \cup LeftOf(l)'
    <3>1. LeftOf(l)' = {Tail(left[l])[n] : n \in DOMAIN Tail(left[l])}
      BY <2>1 DEF LeftOf
    <3>2. /\ Tail(left[l]) \in Seq(Image)
          /\ LeftOf(l) = {Head(left[l])} \cup {Tail(left[l])[n] : n \in DOMAIN Tail(left[l])}
      BY <1>1, <1>6, HeadAndTail DEF LeftOf
    <3>3. QED
      BY <3>1, <3>2
  <2>3. Untagged(l) => Head(left[l]) \notin lasting[l]
    BY <1>3, <1>6 DEF Exists, Untagged
  <2>4. Untagged(l) => SearchOf(l)'
    BY <1>2, <1>3, <2>1, <2>2, <2>3 DEF SearchOf, Waiting, Pulls, Early
  <2>5. Settling(l)'
    BY <2>1 DEF Settling
  <2>6. QED
    BY <1>1, <1>2, <2>1, <2>2, <2>4, <2>5, OwnSearchInv DEF Stages
<1>7. QED
  BY <1>4, <1>5, <1>6

(* An image that is pulled was not local when it was looked for.            *)
LEMMA BuildSearchInv ==
  ASSUME ImageTypeOK, SearchInv, NEW l \in Launcher, Build(l)
  PROVE  SearchInv'
<1> DEFINE to == IF Exists(l, img[l]) THEN "run" ELSE "pull"
<1>1. at[l] = "build" /\ at' = [at EXCEPT ![l] = to] /\ at'[l] = to
  BY DEF Build, Goto, ImageTypeOK
<1>2. UNCHANGED <<local, img, asks, lasting, left, settled>>
  BY DEF Build, shared
<1>3. Untagged(l) => SearchOf(l)'
  <2> SUFFICES ASSUME Untagged(l)
               PROVE  SearchOf(l)'
    OBVIOUS
  <2>1. SearchOf(l) /\ lasting[l] \subseteq local
    BY <1>1 DEF SearchInv
  <2>2. Accepted(l)' = Accepted(l)
    BY <1>2 DEF Accepted, Composed
  <2>3. settled[l] \/ img[l] \in Accepted(l)
    BY <1>1, <2>1 DEF SearchOf
  <2>4. to = "pull" => img[l] \notin lasting[l]
    BY <2>1 DEF Exists, Untagged
  <2>5. QED
    BY <1>1, <1>2, <2>1, <2>2, <2>3, <2>4 DEF SearchOf, Waiting, Early, Pulls
<1>4. Settling(l)'
  BY <1>1 DEF Settling
<1>5. QED
  BY <1>1, <1>2, <1>3, <1>4, OwnSearchInv DEF Stages

(* The first name is of the repository that was asked for.                  *)
LEMMA NameSearchInv ==
  ASSUME ImageTypeOK, SearchInv, NEW l \in Launcher, Name(l)
  PROVE  SearchInv'
<1>1. at[l] = "name" /\ asks[l] \in Settings /\ ~settled[l]
  BY DEF Name, ImageTypeOK, SearchInv, Settling
<1>2. PICK to \in (Early \ {"override"}) \cup {"build"}, i \in Image :
        /\ at' = [at EXCEPT ![l] = to] /\ img' = [img EXCEPT ![l] = i]
        /\ Untagged(l) => to # "build" /\ i.repo = FirstRepo(asks[l])
  <2>1. Composed(asks[l]).repo = asks[l].repo
    BY DEF Composed
  <2>2. CASE asks[l].cli # NoImage
    BY <1>1, <2>2, AskedFor DEF Name, Goto, Becomes, Option, Untagged
  <2>3. CASE asks[l].cli = NoImage /\ asks[l].full # NoImage
    BY <1>1, <2>3, AskedFor DEF Name, Goto, Becomes, Option, Early, FirstRepo
  <2>4. CASE asks[l].cli = NoImage /\ asks[l].full = NoImage
    BY <1>1, <2>1, <2>4, AskedFor DEF Name, Goto, Becomes, Early, FirstRepo
  <2>5. QED
    BY <2>2, <2>3, <2>4
<1>3. UNCHANGED <<local, asks, lasting, left, settled>>
  BY DEF Name, shared
<1>4. at'[l] = to /\ img'[l] = i
  BY <1>2 DEF ImageTypeOK
<1>5. Untagged(l) => SearchOf(l)'
  BY <1>1, <1>2, <1>3, <1>4 DEF SearchOf, Early, Pulls
<1>6. Settling(l)'
  BY <1>1, <1>3 DEF Settling
<1>7. QED
  BY <1>1, <1>2, <1>3, <1>5, <1>6, OwnSearchInv DEF Early, Stages

(* A step of a launcher on its way to the image.                            *)
LEMMA ChooseSearchInv ==
  ASSUME ImageTypeOK, SearchInv, NEW l \in Launcher, Choose(l)
  PROVE  SearchInv'
<1>1. CASE \/ LookAsNamed(l) \/ LookAsLatest(l) \/ Qualify(l) \/ MirrorPrefix(l)
           \/ Probe(l) \/ OpenCache(l) \/ WriteCache(l)
  <2>1. at[l] \in Early \ {"override"}
        /\ \E to \in Early \ {"override"} : at' = [at EXCEPT ![l] = to]
    BY <1>1 DEF LookAsNamed, LookAsLatest, Qualify, MirrorPrefix, Probe, OpenCache,
                WriteCache, Goto, Early
  <2>2. img[l] \in Image
    BY <2>1 DEF ImageTypeOK, Early
  <2>3. \/ img' = img
        \/ \E i \in Image : i.repo = img[l].repo /\ img' = [img EXCEPT ![l] = i]
    <3>1. CASE LookAsLatest(l)
      BY <2>2, <3>1, TurnedImage, TurnedRepo DEF LookAsLatest, Becomes
    <3>2. CASE Qualify(l)
      BY <2>2, <3>2, TurnedImage, TurnedRepo DEF Qualify, Becomes
    <3>3. CASE ~LookAsLatest(l) /\ ~Qualify(l)
      BY <1>1, <3>3 DEF LookAsNamed, MirrorPrefix, Probe, OpenCache, WriteCache
    <3>4. QED
      BY <3>1, <3>2, <3>3
  <2>4. UNCHANGED <<local, asks, lasting, left, settled>>
    BY <1>1 DEF LookAsNamed, LookAsLatest, Qualify, MirrorPrefix, Probe, OpenCache,
                WriteCache, shared
  <2>5. "build" \notin Early
    BY DEF Early
  <2>6. QED
    BY <2>1, <2>3, <2>4, <2>5, EarlySearchInv
<1>2. CASE RetagForRun(l) \/ Resolve(l) \/ Prefix(l)
  <2>1. at[l] \in Early \ {"override"} /\ img[l] \in Image
    BY <1>2 DEF RetagForRun, Resolve, Prefix, Goto, Early, ImageTypeOK
  <2>2. \/ img' = img
        \/ \E i \in Image : i.repo = img[l].repo /\ img' = [img EXCEPT ![l] = i]
    <3>1. CASE RetagForRun(l)
      BY <2>1, <3>1, TurnedImage, TurnedRepo DEF RetagForRun, Becomes
    <3>2. CASE Resolve(l)
      BY <2>1, <3>2, TurnedImage, TurnedRepo DEF Resolve, Becomes
    <3>3. CASE Prefix(l)
      BY <2>1, <3>3, TurnedImage, TurnedRepo DEF Prefix, Becomes
    <3>4. QED
      BY <1>2, <3>1, <3>2, <3>3
  <2>3. \E to \in {"resolve", "mirror", Resolved(l)} : at' = [at EXCEPT ![l] = to]
    BY <1>2 DEF RetagForRun, Resolve, Prefix, Goto
  <2>4. /\ Resolved(l) \in Early \cup {"build"}
        /\ Resolved(l) = "override" => ~settled[l]
        /\ Resolved(l) = "build" /\ Untagged(l) => settled[l]
    BY DEF Resolved, Early, Untagged
  <2>5. UNCHANGED <<local, asks, lasting, left, settled>>
    BY <1>2 DEF RetagForRun, Resolve, Prefix, shared
  <2>6. {"resolve", "mirror"} \subseteq Early \ {"override", "build"}
    BY DEF Early
  <2>7. QED
    BY <2>1, <2>2, <2>3, <2>4, <2>5, <2>6, EarlySearchInv
<1>3. CASE PullFailed(l) \/ Login(l)
  <2>1. at[l] \in Pulls /\ \E to \in Pulls \cup {"run"} : at' = [at EXCEPT ![l] = to]
    BY <1>3 DEF PullFailed, Login, Goto, Pulls
  <2>2. UNCHANGED <<img, local, asks, lasting, left, settled>>
    BY <1>3 DEF PullFailed, Login, shared
  <2>3. QED
    BY <2>1, <2>2, PullsSearchInv
<1>4. CASE Pull(l) \/ PullOtherwise(l)
  <2>1. at[l] \in Pulls /\ \E to \in Pulls \cup {"run"} : at' = [at EXCEPT ![l] = to]
    BY <1>4 DEF Pull, PullOtherwise, PullsFrom, Goto, Pulls
  <2>2. UNCHANGED <<img, asks, lasting, left, settled>> /\ local \subseteq local'
    BY <1>4 DEF Pull, PullOtherwise, PullsFrom
  <2>3. QED
    BY <2>1, <2>2, PullsSearchInv
<1>5. CASE Run(l)
  BY <1>5, LeaveSearchInv DEF Run
<1>6. QED
  BY <1>1, <1>2, <1>3, <1>4, <1>5, NameSearchInv, OverrideSearchInv, CandidateSearchInv,
     BuildSearchInv DEF Choose

(* No untagged start needs a registry while one of the agent's images has  *)
(* been local all the time, whatever others pull and remove.               *)
THEOREM LocalImageCorrect == StartSpec => []LocalImageIsRun
<1>1. StartInit => SearchIInv
  <2>1. StartInit => SearchInv
    BY DEF StartInit, ImageInit, SearchInv, Settling
  <2>2. QED
    BY <2>1, StartImageTypeOK DEF SearchIInv
<1>2. SearchIInv /\ [StartNext]_startVars => SearchIInv'
  <2> SUFFICES ASSUME SearchIInv, [StartNext]_startVars
               PROVE  SearchInv'
    BY NextImageTypeOK DEF SearchIInv
  <2> USE DEF SearchIInv
  <2>1. ASSUME NEW l \in Launcher, Killed(l)
        PROVE  SearchInv'
    BY <2>1, LeaveSearchInv DEF Killed
  <2>2. CASE UNCHANGED imageVars
    <3>1. \A j \in Launcher :
            /\ lasting'[j] \subseteq local'
            /\ Settling(j)'
            /\ at'[j] \notin {"off", "name"} /\ Untagged(j)' => SearchOf(j)'
      BY <2>2, OthersSearchInv DEF imageVars, shared, SearchInv
    <3>2. QED
      BY <3>1 DEF SearchInv
  <2>3. QED
    BY <2>1, <2>2, BeginSearchInv, ChooseSearchInv, PruneSearchInv
    DEF StartNext, Starts, Offers, FindsImage, Environment, startVars
<1>3. SearchIInv => LocalImageIsRun
  <2> SUFFICES ASSUME SearchIInv, NEW l \in Launcher,
                      at[l] \in Pulls \cup {"run"}, Untagged(l),
                      Waiting(l) # {}
               PROVE  img[l] \in Accepted(l) /\ (at[l] # "run" => img[l] \notin lasting[l])
    BY DEF LocalImageIsRun, Pulls, Untagged, Waiting
  <2>1. SearchOf(l)
    BY DEF SearchIInv, SearchInv, Pulls
  <2>2. QED
    BY <2>1 DEF SearchOf
<1>4. QED
  BY <1>1, <1>2, <1>3, PTL DEF StartSpec
=============================================================================
