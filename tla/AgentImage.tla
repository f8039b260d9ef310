----------------------------- MODULE AgentImage -----------------------------
(***************************************************************************)
(* How launchers come to the image that they run an agent from: it is      *)
(* named, looked for among the runtime's images, qualified by a registry   *)
(* whose prefix a probe found (one of them kept in a file that launchers   *)
(* share), looked for again under other names, pulled if it is missing,    *)
(* and run.  Launchers start at the same time and are killed anywhere,     *)
(* images are removed from the runtime, and the network answers or not.    *)
(* The launchers are those of PnpmMigration.                               *)
(***************************************************************************)
EXTENDS PnpmMigration, Naturals, Sequences

CONSTANTS
  Settings,       (* the options and environments a launcher may start with  *)
  LocalAtFirst,   (* images that the runtime may have at first               *)
  NoImage,
  MaxStarts,
  MaxPrunes

Image == [reg : {"none", "named", "internal", "mirror"},
          repo : {"agent", "third"},
          tag : {"latest", "release", "asked", "pinned"}]

Option == Image \cup {NoImage}

Setting == [cli : Option, full : Option, reg : {"none", "named"},
            repo : {"agent", "third"}, tag : BOOLEAN,
            over : Option, overTag : BOOLEAN,
            internal : {"unset", "empty", "given"},
            mirror : {"unset", "empty", "given"},
            ignore : BOOLEAN, invalidate : BOOLEAN, toolchain : BOOLEAN,
            node : BOOLEAN]

ASSUME ImageAssumption == /\ Settings \subseteq Setting
                          /\ LocalAtFirst \subseteq Image
                          /\ NoImage \notin Image
                          /\ MaxStarts \in Nat /\ MaxPrunes \in Nat

VARIABLES
  local,      (* the images that the runtime has                             *)
  cache,      (* what the file with the mirror's prefix says                 *)
  at,         (* where each launcher is                                      *)
  asks,       (* its options and environment                                 *)
  img,        (* the image it has come to                                    *)
  known,      (* the mirror's prefix, once it knows it                       *)
  opened,     (* it has the cache file open                                  *)
  left,       (* the local images it has not looked for yet                  *)
  settled,    (* it has looked for them                                      *)
  lasting,    (* history: the images that were local ever since it began     *)
  fresh,      (* history: someone could tell it of the mirror since then     *)
  starts, prunes

shared == <<local, cache, lasting, fresh, starts, prunes>>
imageVars == <<shared, at, asks, img, known, opened, left, settled>>

Stages == {"off", "name", "asNamed", "asLatest", "qualify", "retag", "resolve",
           "mirror", "probe", "truncate", "write", "prefix", "override",
           "candidate", "build", "pull", "pullAgain", "failed", "login", "retry",
           "pullTail", "run"}

ImageTypeOK ==
  /\ local \subseteq Image
  /\ cache \in {"absent", "none", "mirror"}
  /\ at \in [Launcher -> Stages]
  /\ asks \in [Launcher -> Settings \cup {NoImage}]
  /\ img \in [Launcher -> Option]
  /\ known \in [Launcher -> {"unset", "none", "mirror"}]
  /\ opened \in [Launcher -> BOOLEAN]
  /\ left \in [Launcher -> Seq(Image)]
  /\ settled \in [Launcher -> BOOLEAN]
  /\ lasting \in [Launcher -> SUBSET Image]
  /\ fresh \in [Launcher -> BOOLEAN]
  /\ starts \in 0..MaxStarts /\ prunes \in 0..MaxPrunes
  /\ \A l \in Launcher :
       /\ at[l] # "off" => asks[l] \in Settings
       /\ at[l] \notin {"off", "name"} => img[l] \in Image
       /\ at[l] \in {"truncate", "write", "prefix"} => known[l] # "unset"
       /\ opened[l] => at[l] = "write"

ImageInit ==
  /\ local \in SUBSET LocalAtFirst
  /\ cache \in {"absent", "none", "mirror"}
  /\ at = [l \in Launcher |-> "off"]
  /\ asks = [l \in Launcher |-> NoImage]
  /\ img = [l \in Launcher |-> NoImage]
  /\ known = [l \in Launcher |-> "unset"]
  /\ opened = [l \in Launcher |-> FALSE]
  /\ left = [l \in Launcher |-> <<>>]
  /\ settled = [l \in Launcher |-> FALSE]
  /\ lasting = [l \in Launcher |-> {}]
  /\ fresh = [l \in Launcher |-> TRUE]
  /\ starts = 0
  /\ prunes = 0

Goto(l, from, to) == at[l] = from /\ at' = [at EXCEPT ![l] = to]
Becomes(l, i) == img' = [img EXCEPT ![l] = i]

Retag(i, t) == [i EXCEPT !.tag = t]
From(reg, i) == [i EXCEPT !.reg = reg]
Explicit(i) == i.reg # "none"

(* --ignore-local-images hides every image from the launcher.               *)
Exists(l, i) == i \in local /\ ~asks[l].ignore

(***************************************************************************)
(* Naming the image                                                        *)
(***************************************************************************)

(* An invalidation removes the cache file, also under those who have it     *)
(* open: what they write is lost.                                           *)
Begin(l, a) ==
  /\ starts < MaxStarts
  /\ Goto(l, "off", "name")
  /\ starts' = starts + 1
  /\ asks' = [asks EXCEPT ![l] = a]
  /\ cache' = IF a.invalidate THEN "absent" ELSE cache
  /\ opened' = [j \in Launcher |-> opened[j] /\ ~a.invalidate]
  /\ lasting' = [lasting EXCEPT ![l] = local]
  /\ fresh' = [fresh EXCEPT ![l] =
       a.invalidate => \E j \in Launcher : at[j] = "truncate" /\ known[j] = "mirror"]
  /\ UNCHANGED <<local, img, known, left, settled, prunes>>

Composed(a) == [reg |-> a.reg, repo |-> a.repo,
                tag |-> IF a.tag THEN "asked" ELSE "release"]

(* The internal registry counts as given only after the process has looked  *)
(* it up for a toolchain's image.                                           *)
InternalIsGiven(a) == a.toolchain /\ a.internal = "given"

Name(l) ==
  LET a == asks[l]
  IN /\ at[l] = "name"
     /\ \/ /\ a.cli # NoImage
           /\ Becomes(l, a.cli) /\ Goto(l, "name", "build")
        \/ /\ a.cli = NoImage /\ a.full # NoImage
           /\ Becomes(l, a.full) /\ Goto(l, "name", "retag")
        \/ /\ a.cli = NoImage /\ a.full = NoImage
           /\ Becomes(l, Composed(a))
           /\ Goto(l, "name",
                IF Explicit(Composed(a)) THEN "retag"
                ELSE IF InternalIsGiven(a) \/ a.ignore THEN "qualify" ELSE "asNamed")
     /\ UNCHANGED <<shared, asks, known, opened, left, settled>>

LookAsNamed(l) ==
  /\ at[l] = "asNamed"
  /\ Goto(l, "asNamed", IF Exists(l, img[l]) THEN "retag" ELSE "asLatest")
  /\ UNCHANGED <<shared, asks, img, known, opened, left, settled>>

LookAsLatest(l) ==
  LET latest == Retag(img[l], "latest")
  IN /\ at[l] = "asLatest"
     /\ IF Exists(l, latest)
        THEN Goto(l, "asLatest", "retag") /\ Becomes(l, latest)
        ELSE Goto(l, "asLatest", "qualify") /\ UNCHANGED img
     /\ UNCHANGED <<shared, asks, known, opened, left, settled>>

(* Either curl or a connection says whether the internal registry answers   *)
(* in time; where its prefix is set nobody asks.                            *)
InternalUsed(a) == CASE a.internal = "given" -> {TRUE}
                     [] a.internal = "empty" -> {FALSE}
                     [] OTHER -> BOOLEAN

Qualify(l) ==
  /\ Goto(l, "qualify", "retag")
  /\ \E used \in InternalUsed(asks[l]) :
       Becomes(l, IF used THEN From("internal", img[l]) ELSE img[l])
  /\ UNCHANGED <<shared, asks, known, opened, left, settled>>

(* A tag that is asked for replaces that of a full override, too.           *)
RetagForRun(l) ==
  /\ Goto(l, "retag", "resolve")
  /\ Becomes(l, IF asks[l].tag THEN Retag(img[l], "asked") ELSE img[l])
  /\ UNCHANGED <<shared, asks, known, opened, left, settled>>

(***************************************************************************)
(* Registries                                                              *)
(***************************************************************************)

Resolved(l) == IF settled[l] \/ asks[l].tag THEN "build" ELSE "override"

Resolve(l) ==
  /\ at[l] = "resolve"
  /\ \/ /\ Explicit(img[l])
        /\ Goto(l, "resolve", Resolved(l))
        /\ UNCHANGED img
     \/ /\ ~Explicit(img[l]) /\ img[l].repo = "agent"
        /\ Goto(l, "resolve", Resolved(l))
        /\ \E used \in InternalUsed(asks[l]) :
             Becomes(l, IF used THEN From("internal", img[l]) ELSE img[l])
     \/ /\ ~Explicit(img[l]) /\ img[l].repo = "third"
        /\ Goto(l, "resolve", "mirror")
        /\ UNCHANGED img
  /\ UNCHANGED <<shared, asks, known, opened, left, settled>>

Knows(l, p) == known' = [known EXCEPT ![l] = p]

(* Whoever begins or is under way can learn of the mirror from now on.      *)
Tells(p) == fresh' = IF p = "mirror" THEN [j \in Launcher |-> TRUE] ELSE fresh

(* What is set is written to the file; else the process goes by what it     *)
(* knows, then by the file, whatever that says, and asks the network last.  *)
MirrorPrefix(l) ==
  /\ at[l] = "mirror"
  /\ LET set == asks[l].mirror # "unset"
         p == IF asks[l].mirror = "given" THEN "mirror" ELSE "none"
     IN \/ set /\ Goto(l, "mirror", "truncate") /\ Knows(l, p) /\ Tells(p)
        \/ /\ ~set /\ known[l] # "unset"
           /\ Goto(l, "mirror", "prefix") /\ UNCHANGED <<known, fresh>>
        \/ /\ ~set /\ known[l] = "unset" /\ cache # "absent"
           /\ Goto(l, "mirror", "prefix") /\ Knows(l, cache) /\ UNCHANGED fresh
        \/ /\ ~set /\ known[l] = "unset" /\ cache = "absent"
           /\ Goto(l, "mirror", "probe") /\ UNCHANGED <<known, fresh>>
  /\ UNCHANGED <<local, cache, lasting, starts, prunes>>
  /\ UNCHANGED <<asks, img, opened, left, settled>>

Probe(l) ==
  /\ Goto(l, "probe", "truncate")
  /\ \E p \in {"mirror", "none"} : Knows(l, p) /\ Tells(p)
  /\ UNCHANGED <<local, cache, lasting, starts, prunes>>
  /\ UNCHANGED <<asks, img, opened, left, settled>>

(* fs::write empties the file and then writes; it may fail.                 *)
OpenCache(l) ==
  /\ \/ /\ Goto(l, "truncate", "write")
        /\ cache' = "none"
        /\ opened' = [opened EXCEPT ![l] = TRUE]
     \/ Goto(l, "truncate", "prefix") /\ UNCHANGED <<cache, opened>>
  /\ UNCHANGED <<local, lasting, fresh, starts, prunes>>
  /\ UNCHANGED <<asks, img, known, left, settled>>

(* Mutant: the file is written by its name, even where it was removed.      *)
WriteCacheByName(l) ==
  /\ Goto(l, "write", "prefix")
  /\ cache' = IF known[l] = "mirror" THEN "mirror" ELSE cache
  /\ opened' = [opened EXCEPT ![l] = FALSE]
  /\ UNCHANGED <<local, lasting, fresh, starts, prunes>>
  /\ UNCHANGED <<asks, img, known, left, settled>>

(* An empty prefix is nothing to write over what another one wrote.         *)
WriteCache(l) ==
  /\ Goto(l, "write", "prefix")
  /\ cache' = IF opened[l] /\ known[l] = "mirror" THEN "mirror" ELSE cache
  /\ opened' = [opened EXCEPT ![l] = FALSE]
  /\ UNCHANGED <<local, lasting, fresh, starts, prunes>>
  /\ UNCHANGED <<asks, img, known, left, settled>>

Prefix(l) ==
  /\ Goto(l, "prefix", Resolved(l))
  /\ Becomes(l, IF known[l] = "mirror" THEN From("mirror", img[l]) ELSE img[l])
  /\ UNCHANGED <<shared, asks, known, opened, left, settled>>

(***************************************************************************)
(* Local images                                                            *)
(***************************************************************************)

(* An empty variable overrides nothing.                                     *)
Overridden(a, i) == IF a.over # NoImage THEN a.over
                    ELSE IF a.overTag THEN Retag(i, "asked") ELSE i

(* Mutant: with an internal registry, only its names are looked for.        *)
CandidatesOfRegistry(a, i) ==
  LET of(reg) == <<[reg |-> reg, repo |-> i.repo, tag |-> "latest"],
                   [reg |-> reg, repo |-> i.repo, tag |-> "release"]>>
  IN IF a.internal = "given" THEN of("internal") ELSE of("none")

(* Mutant: without an internal registry, an empty name is looked for.       *)
CandidatesWithEmpty(a, i) ==
  LET of(reg) == <<[reg |-> reg, repo |-> i.repo, tag |-> "latest"],
                   [reg |-> reg, repo |-> i.repo, tag |-> "release"]>>
  IN of("none") \o IF a.internal = "given" THEN of("internal") ELSE <<NoImage>>

(* The registry and the tag that were asked for do not count here.          *)
Candidates(a, i) ==
  LET of(reg) == <<[reg |-> reg, repo |-> i.repo, tag |-> "latest"],
                   [reg |-> reg, repo |-> i.repo, tag |-> "release"]>>
  IN of("none") \o IF a.internal = "given" THEN of("internal") ELSE <<>>

Override(l) ==
  LET i == Overridden(asks[l], img[l])
  IN /\ Goto(l, "override", "candidate")
     /\ Becomes(l, i)
     /\ left' = [left EXCEPT ![l] =
                   IF asks[l].ignore THEN <<>> ELSE Candidates(asks[l], i)]
     /\ UNCHANGED <<shared, asks, known, opened, settled>>

LookForCandidate(l) ==
  /\ \/ /\ left[l] = <<>>
        /\ Goto(l, "candidate", "resolve")
        /\ settled' = [settled EXCEPT ![l] = TRUE]
        /\ UNCHANGED <<img, left>>
     \/ /\ left[l] # <<>> /\ Exists(l, Head(left[l]))
        /\ Goto(l, "candidate", "build")
        /\ Becomes(l, Head(left[l]))
        /\ UNCHANGED <<left, settled>>
     \/ /\ left[l] # <<>> /\ ~Exists(l, Head(left[l]))
        /\ Goto(l, "candidate", "candidate")
        /\ left' = [left EXCEPT ![l] = Tail(@)]
        /\ UNCHANGED <<img, settled>>
  /\ UNCHANGED <<shared, asks, known, opened>>

(***************************************************************************)
(* Pulling and running it                                                  *)
(***************************************************************************)

Build(l) ==
  /\ at[l] = "build"
  /\ Goto(l, "build", IF Exists(l, img[l]) THEN "run" ELSE "pull")
  /\ UNCHANGED <<shared, asks, img, known, opened, left, settled>>

(* One docker pull of image i.                                              *)
PullsFrom(l, from, i, done, failed) ==
  /\ \/ Goto(l, from, done) /\ local' = local \cup {i}
     \/ Goto(l, from, failed) /\ UNCHANGED local
  /\ UNCHANGED <<cache, lasting, fresh, starts, prunes>>
  /\ UNCHANGED <<asks, img, known, opened, left, settled>>

(* A pull that does not end in time is not followed by another.  A verbose  *)
(* launcher pulls once more to read what the error is, and does not look    *)
(* whether it worked this time.                                             *)
Pull(l) == \/ \E to \in {"failed", "pullAgain", "run"} :
                PullsFrom(l, "pull", img[l], "run", to)
           \/ \E to \in {"failed", "run"} :
                PullsFrom(l, "pullAgain", img[l], "failed", to)

(* An error that looks like missing rights makes a user log in; any other   *)
(* is answered by a pull of the unqualified name.                           *)
PullFailed(l) ==
  /\ at[l] = "failed"
  /\ \/ Goto(l, "failed", "login")
     \/ Goto(l, "failed", IF Explicit(img[l]) THEN "pullTail" ELSE "run")
  /\ UNCHANGED <<shared, asks, img, known, opened, left, settled>>

Login(l) ==
  /\ \/ Goto(l, "login", "retry")
     \/ Goto(l, "login", "run")
  /\ UNCHANGED <<shared, asks, img, known, opened, left, settled>>

PullOtherwise(l) ==
  \/ PullsFrom(l, "retry", img[l], "run", "run")
  \/ PullsFrom(l, "pullTail", From("none", img[l]), "run", "run")

Leave(l) ==
  /\ at' = [at EXCEPT ![l] = "off"]
  /\ asks' = [asks EXCEPT ![l] = NoImage]
  /\ img' = [img EXCEPT ![l] = NoImage]
  /\ known' = [known EXCEPT ![l] = "unset"]
  /\ opened' = [opened EXCEPT ![l] = FALSE]
  /\ left' = [left EXCEPT ![l] = <<>>]
  /\ settled' = [settled EXCEPT ![l] = FALSE]
  /\ lasting' = [lasting EXCEPT ![l] = {}]
  /\ fresh' = [fresh EXCEPT ![l] = TRUE]

(* docker run pulls what is missing by itself.                              *)
Run(l) ==
  /\ at[l] = "run"
  /\ Leave(l)
  /\ local' \in {local, local \cup {img[l]}}
  /\ UNCHANGED <<cache, starts, prunes>>

Choose(l) == \/ Name(l) \/ LookAsNamed(l) \/ LookAsLatest(l) \/ Qualify(l)
             \/ RetagForRun(l) \/ Resolve(l) \/ MirrorPrefix(l) \/ Probe(l)
             \/ OpenCache(l) \/ WriteCache(l) \/ Prefix(l)
             \/ Override(l) \/ LookForCandidate(l)
             \/ Build(l) \/ Pull(l) \/ PullFailed(l) \/ Login(l)
             \/ PullOtherwise(l) \/ Run(l)

(* docker image rm, by anyone.                                              *)
Prune(i) ==
  /\ i \in local
  /\ prunes < MaxPrunes
  /\ prunes' = prunes + 1
  /\ local' = local \ {i}
  /\ lasting' = [l \in Launcher |-> lasting[l] \ {i}]
  /\ UNCHANGED <<cache, fresh, starts, at, asks, img, known, opened, left, settled>>

(***************************************************************************)
(* The images that an untagged start of launcher l may be given: the tail  *)
(* of what it would have run.                                              *)
(***************************************************************************)
Accepted(l) ==
  LET a == asks[l]
      named == IF a.over # NoImage THEN a.over
               ELSE IF a.full # NoImage THEN a.full ELSE Composed(a)
  IN {i \in Image : /\ i.repo = named.repo
                    /\ i.tag \in {"latest", "release"}
                    /\ \/ i.reg = "none"
                       \/ i.reg = "internal" /\ a.internal = "given"}

(***************************************************************************)
(* A start that no tag was asked for needs no registry while one of the    *)
(* agent's images is local: what it runs is such an image, and it pulls    *)
(* only one that was removed after it was found, whatever the probes said  *)
(* and other launchers pulled in the meantime.                             *)
(***************************************************************************)
LocalImageIsRun ==
  \A l \in Launcher :
    (/\ at[l] \in {"pull", "pullAgain", "failed", "login", "retry", "pullTail", "run"}
     /\ asks[l].cli = NoImage /\ ~asks[l].tag /\ ~asks[l].ignore
     /\ Accepted(l) \cap lasting[l] # {})
    => /\ img[l] \in Accepted(l)
       /\ at[l] # "run" => img[l] \notin lasting[l]

(***************************************************************************)
(* A launcher that was told to forget the cached prefix takes an image     *)
(* from the mirror only when somebody probed the mirror, or was told of    *)
(* it, since then, or had done so and was about to open the file.  Nothing *)
(* that was in the file comes back, even from one that had it open.        *)
(***************************************************************************)
InvalidationHolds ==
  \A l \in Launcher :
    at[l] = "prefix" /\ known[l] = "mirror" => fresh[l]
=============================================================================
