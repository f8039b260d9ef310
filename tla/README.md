# aifo-coder: models, checks and proofs

`aifo-coder` runs coding agents in containers. A launcher takes a lock on the
workspace, starts toolchain sidecars and a proxy, and runs the agent; inside
the agent's container a shim stands in for every tool and asks the proxy to run
it in a sidecar. With `--fork N` the launcher clones the repository N times,
runs an agent in every clone and merges their branches back.

This directory holds TLA+ models of the parts where several processes,
threads or git commands interleave, the TLC configurations that check them on
small instances, and TLAPS proofs. Paths of the form `src/src/...` are relative
to the directory above; the repository is `src/`.

## 1. Inventory

| component | state it keeps | operations | talks to |
|---|---|---|---|
| Launcher lock (`lock.rs`) | lock files, `flock()` per inode | `acquire_lock`, `acquire_lock_at`, `acquire_lock_blocking_at`, `Drop` | other launchers, through the file system |
| Execution proxy (`toolchain/proxy.rs`) | `exec_registry`, `recent_signals`, `active_conns`, per exec: child, channel, watcher | accept, `/exec` v1 and v2, `/signal`, `/notify` | shims over HTTP, sidecars through `docker exec` |
| Exec wrapper (shell text in `proxy.rs`) | `~/.aifo-exec/<id>/pgid` in the sidecar | start the tool in a group of its own, record the group, clean up | `kill_in_container` |
| Shim (`bin/aifo-shim.rs`) | signal counters, marker files | POST `/exec`, forward signals, curl fallback, disconnect escalation | proxy |
| Sidecars and network (`toolchain/sidecar.rs`) | containers and network of a session, node overlay and its lockfile hash | start, run, exec, clean up | docker, other panes of the session |
| Toolchain session (`toolchain_session.rs`) | proxy thread, flag `running`, session id | start, `Drop` | proxy, sidecars |
| Routing (`toolchain/routing.rs`) | cache of tool availability | allowlists, choice of a sidecar | proxy |
| HTTP reader and gate (`toolchain/http.rs`, `toolchain/auth.rs`) | none | read one request, check token and protocol | proxy |
| Notifications (`toolchain/notifications.rs`) | none | allowlist, run with a timeout | proxy |
| Fork sessions (`fork/runner.rs`, `fork_impl/clone.rs`, `fork/meta.rs`) | `.aifo-coder/forks/<sid>`, `.meta.json` | clone, write metadata, launch | git, tmux |
| Fork merge (`fork_impl/merge.rs`, `fork/post_merge.rs`) | branches of the original repository, merge lock | fetch, octopus merge, dispose | git, launcher lock |
| Fork clean (`fork.rs`, `fork_impl/clean/`, `fork_impl/panecheck.rs`, `fork_impl/notice.rs`) | a plan between check and deletion | clean, keep-dirty, force, automatic clean | git, sidecars |
| Migration to pnpm (`toolchain_session.rs`) | lockfiles and `node_modules` of the project | look, ask, import, remove, install | pnpm, other launchers in the directory |
| Agent image (`agent_images.rs`, `main.rs`, `docker/staging.rs`) | images of the runtime | name, look for, pull with login, run | docker, registries |
| Registry (`registry.rs`) | prefix cells of a process, the file `aifo-coder.mirrorprefix` | probe, cache, invalidate, resolve a name | network, other launchers |
| the rest | | docker command lines, telemetry, reports | |

What makes each of them correct, and what is hard about it:

* **Lock.** At most one holder; no refusal without a live holder; no files left
  behind; calls that end. Hard: open, lock, unlock and unlink are four system
  calls, and the lock belongs to the inode while the unlink goes by name.
* **Proxy.** Every accepted exec ends and is answered with the right code; a
  running tool can be signalled; a tool is not left running when its client has
  gone; the limits do not leak. Hard: per exec there are a handler, a watcher, a
  reader and the tool, plus signal handlers that find it by id; timers race with
  answers; kills go by a file that may not exist yet or any more.
* **Shim.** It reports the tool's exit code, forwards every signal, and runs a
  tool once. Hard: retries over two transports, idle reads, reads that fail.
* **Reader, gate, notifications.** A request is read as it was sent, however it
  arrives; a notification's command is reaped once and answered in time with all
  that it wrote. Hard: two framings with limits over arbitrary pieces; the
  command, its timeout and two reader threads race.
* **Start of a launcher.** Nothing that pins a project's versions is lost; the
  image that is run is the one that was meant. Hard: look, then act, in a
  directory, an image store and a cache file that other launchers use.
* **Sidecars, session.** Nothing is left running after the session, nothing is
  stopped under a pane that uses it. Hard: shared between panes, partial failure.
* **Fork.** No commit of an agent is lost unless the user forces it. Hard: git
  commands of two processes and of N agents interleave; each may fail or be
  killed; decisions are made on checks that are old by the time they are used.

`PROJECT.json` lists every component with its status and, under "hazards", each
hazard at its line with the properties that would notice it.

## 2. The modules

### RepoLock

One action per system call of `acquire_lock*` and `Drop`. `linked` is the
directory (path to inode), `ino` what each process has open, `pc` where it is.
`Candidates` is `candidate_lock_paths()` of each process, `Attempts` the retry
count of `acquire_lock_blocking_at` (1 for the launcher, which does not retry).
`Unopenable`, `Unlockable` and `Unremovable` are the file system's faults. A
`WouldBlock` ends an attempt, every other error moves on to the next candidate.
`Drop` is two steps, `Unlock` and `Remove`; its ten tries to remove are one step
that works or does not. `Crash` is a kill at any point.

### ExecProxy

`Accept`/`Drop` is the accept loop, then one handler per connection: its stage
in `pc` is the place in `handle_connection`. `/exec` v2 runs through `stream`,
`recv`, `wait`, `trailer`, and after a failed write through `grace`, `discInt`,
`discTerm`, `discKill`, `reap`; v1 through `buffer` and `respond`; `/signal`
through `found` and `recorded`, because the lookup, the record and the kill are
three steps under no common lock. The watcher's check of `done` and its kill are
two steps. `pgid` is the file of an exec id: it may not have been written yet,
may have been overwritten by another exec with that id, and stays after a tool
that failed. A kill of a group that is not recorded does nothing. A tool may
survive INT, TERM and HUP, never KILL.

Left out: the tool's output beyond its number of chunks, the contents of
requests (every refusal is `Reject`; `Request` has them), `/notify`
(`Notification` has it), the sequence of warm-up commands before a Rust tool, several sidecars, time. Timers fire at
any moment they are armed, with two exceptions that the real delays ensure: a
tool prints, and its maximal runtime ends, only after the wrapper has recorded
its group.

### ToolCall

What a caller may rely on, without handlers, watchers, files or connections:
a tool is started at most once per call, ends once and for one cause, and the
call is concluded once, by a refusal (no tool was started), an exit code (the
tool is over; 124 unless the watcher did not end it) or by giving the caller up.
`ExecProxy` implements it: `CallTool`, `CallCause` and `CallReply` map a
connection's `proc`, `pc` and `code` to it, `Promise` is the instance and
`KeepsPromise` the property. The other way round `ShimClient` uses the same
`ToolCall` as its environment, so that the shim is checked against exactly what
the proxy is shown to do and not against a second model of the proxy.

### ShimClient

One run of the shim as a tool. `pc` is its place in `main` and
`try_run_native`: `head` (status line and headers), `lines` (chunks), `drain` (a
plain answer), `spawn` and `poll` (the curl fallback), `INT`, `TERM`, `KILL` (the
escalation on disconnect), `leaving`. `wire` is what the proxy wrote and the shim
has not read; a read takes any part of it, which goes to `buf`. Both transports
carry one exec id, so that `posted` with two members is a tool that may run twice.
Signals are counters the code polls (`ints`, `term`); where it does not poll
(`Idle`), neither does the model. The proxy's side writes tokens as its
handlers do and follows `ToolCall`. A signal that the shim posts may be dropped
(`proxy.rs:808`). Left out: rewriting of arguments, the smart shims beyond the
choice to run locally.

### Request, Notification, ShimProcess

`Request` is `read_http_request` and the checks in front of every endpoint. A
request is a sequence of tokens (header line, framing, size, payload unit, CR,
LF), so that a piece may end between CR and LF, inside a chunk or inside a
trailer; `Wire` is the request as the shim writes it, `Pieces` any split of it,
and its sender may stop anywhere. The reader's stages follow the loops of
`http.rs`: headers with their cap, Content-Length with the bytes that came with
the headers, chunk sizes, chunk data, trailers. `Verdict` walks the checks of
`handle_connection` in the order of the code and gives the first refusal's
status. `Notification` adds the notify client of the shim (asynchronous or
waiting), the policy of `notifications.rs`, and `run_with_timeout`: child, two
reader threads, polling, TERM, grace period, KILL, join, answer. A pipe has a
capacity, and a descendant of the command may hold it open.
`ShimProcess` composes: a process of the shim that has a proxy to post to is a tool
or a notifier, as its name decides.

### SidecarSession

Two panes of one session, each with a clone of its own, and the containers,
the network, the socket path and node's volume they share through the session's
name. A launcher goes through `toolchain_start_session` (network, volumes,
inspect, create, look again after a failure, node overlay: guard, hash, install,
store) and the start of the proxy, which frees the path of the socket
(`RemoveSocket`) before it binds it (`StartProxy`) and cleans the session up when
it fails at either (`StartProxyFails`);
`toolchain_run` in a pane's shell is the same with one kind. `CleanBegins` and
`CleanStops` are `fork clean`, which removes sidecars one by one. `RunMake` is a
tool routed through the availability cache of the proxy. The end of an agent
removes no sidecars: `main.rs:140-146` sets `AIFO_CODER_FORK_SESSION` in every
run, so that the branch of `Drop` for sessions outside a fork is never taken.
The proxies are those of `--toolchain-unix-socket`; over TCP each has a port of its
own and no step of another's concerns it.
Not in the model: other sessions' use of the volume, docker arguments.

### PnpmMigration, AgentImage, LauncherStart

`PnpmMigration` is `maybe_migrate_node_to_pnpm_interactive`: `seen` is what a
launcher saw at the start (pnpm's lockfile before the others), every later step
goes by it while `files` changes. `AgentImage` is the way to an image through
`default_image_for`, `main`, `resolve_image`,
`compute_effective_agent_image_for_run` and `pull_image_with_autologin`; an image
is a registry, a repository and a tag, options and environment are a record in
`asks`. A probe answers either way. The mirror's prefix goes through the cell
`known` and the file `cache`, which `fs::write` empties before it writes, and
which an invalidation unlinks under those who have it open (`opened`).
`lasting` and `fresh` are history. Assumed: the prefixes that are set name a host
(`resolve_image` treats one without a dot, a colon or "localhost" as a namespace).
`LauncherStart` puts the two in their order and lets launchers be killed
anywhere. A pnpm or docker child of a killed launcher goes with it, or has done
all or nothing.

### ForkSession

The launcher (`stage`), the agents' panes (`dir`, `work`, `form`, `dirty`), the
original repository (`ref`, `mergeRef`, `head`, `tree`), up to two mergers
(`mpc` and their locals), one `fork clean`. A commit is a pane and a number;
the base commit is in every branch. A merger makes one step per git command, so
that everything can happen between two of them; `Return` drops the lock's guard
and the locals, whichever `?` or `return` it stands for. `Dispose` comes after
the lock was released, as in `post_merge.rs`. `PlanClean` and `ExecuteClean` are
`fork clean` before and after its confirmation. `moved` is the set of panes that
were cloned before the base branch moved: `.meta.json` gets the commit the
branch names after the cloning (`fork/runner.rs:228`).

`cleanup_and_update_meta` keeps the panes: `--fork-keep-on-failure` is a flag
whose default is true, so its other branch is not reached from the command line.
Left out: snapshots, panes whose agents check out branches of other names,
resolution commits in `merge/<sid>`, submodules, other terminals than tmux.

## 3. The runs

| run | instance | shows |
|---|---|---|
| `lock` | two launchers with two candidates, the first unlockable and for one of them unopenable, a third that can open none; two mergers with two attempts each | `TypeOK`, `ExclusionUntilRemoval`, `NoLeftoverFile`, `RefusedOnlyByALiveHolder`, `AcquireEnds` |
| `lock_unlink_race` | three launchers, one path | **violated**: `OneHolder` |
| `exec` | one streamed exec, one INT for it, two chunks, channel of one | `TypeOK`, `NoOrphan`, `TimeoutIsReported`, `ExecEnds`, `KeepsPromise` |
| `exec_shared` | two buffered execs under one id, one signal, two places | `RunningIsSignallable`, `RegistryIsCurrent`, `DroppedOnlyWhenFull` |
| `exec_late_timeout` | as `exec` | **violated**: `PreludeFirst` |
| `shim` | a tool call with one chunk and up to three Ctrl-C, TERM, a broken stdout; or a notification or another request of up to four payload units in pieces of up to three tokens, with caps of 9, 2 and 3 | `ProcessTypeOK`, `RunTwiceOnlyOnBrokenOutput`, `LostOnlyWithoutAnswer`, `ExitIsReplied`, `MarkersCleared`, `ReadsWhatWasSent`, `AnswerIsWhole`, `ClosedCallsEnd`, `InterruptEnds`, `RequestEnds` |
| `session` | two panes, two launches, rust and node, one event (a kill, a dead container, an edited lockfile), two lockfile versions | `TypeOK`, `SidecarsOutliveSiblings`, `FailureLeavesNothing`, `OverlayIsCurrent`, `FoundWhereItIs`, `SocketIsOwn` |
| `start` | two launchers, two starts, seven sets of options, two images that may be local, one image removed, an npm project with both legacy lockfiles | `StartTypeOK`, `LocalImageIsRun`, `InvalidationHolds`, `LockKept` |
| `fork` | two panes, one commit each, launcher and `fork merge` (both strategies), one edit by the user | `TypeOK`, `LockFollowsMerge`, `MergeGoesOn`, `RefsDroppedAfterMerge` |
| `fork_clean` | two panes, at most one with uncommitted changes at a time, all clean modes, a base that may move, a `fork merge` | `CleanSparesWork`, `DisposedWorkWasMerged` |
| `fork_merge_early` | as `fork` | **violated**: `MergeAfterPanesExit` |
| `fork_merge_lost` | as `fork` | **violated**: `MergedWorkKept` |

Why the bounds are enough: the unlink race needs a holder, one that waits on
the old inode and one that makes the new one, hence three; the candidate walk
needs two paths; the retry needs two attempts. In the proxy each pair of actors
of one exec meets with one exec; what execs do to each other goes through the
registry, the limit and the group file, and needs two with one id. With a
channel of one and two chunks the channel is full, is drained, and drops. For
forks two panes are enough for a conflict, for a merge that has fetched one of
two, and for `--keep-dirty`; one commit per pane tells merged from unmerged. Merging never looks at a pane's
uncommitted changes, so only `fork_clean` has any (`MaxDirty`).
For the shim one chunk tells "before", "in" and "after" the stream, and three
interrupts are the most that it tells apart (INT, TERM, KILL). The reader's caps
are a few tokens, each smaller than some request and larger than another, and a
read never brings more than the body's cap, as 1024 bytes against 1 MiB. Two
launches are two panes at a time, or a pane and its second start. In `start`
two launchers meet in every pair of steps of the migration and of the cache, or
one is killed and the next goes on where it stopped; once one has imported the
lockfile, the project is a pnpm project with lockfiles left over for the other.
Launchers are interchangeable there and in no other run, hence the symmetry.
Deadlock is not checked in the runs of sessions, forks, starts and the shim: they
end and nothing is left to do. The other two modules end in an explicit
stuttering step.

The four violations are disagreements between the code and what the repository
says; `PROJECT.json` quotes both sides under "findings".

1. *Two holders* (`lock.rs:30`). A releases; B, which had the file open, locks the
   inode that A then unlinks; C creates the file again and locks that.
2. *A chunk before the status line* (`toolchain/proxy.rs:2035`).
3. *A merge under running agents* (`fork/runner.rs:453`).
4. *Merged commits on no branch* (`fork_impl/merge.rs:456`). The merge commit is
   left to the reflog.

`CleanSparesWork` states its own limits: a pane that was worked in between check
and deletion, a pane whose base is no ancestor of its HEAD any more, and a pane
cloned before the base branch moved are deleted with their commits.
`NoOrphan` and `ExecEnds` likewise name a suppressed escalation, a shared id and
the wrapper's fallback directory.

## 4. Fairness

* `RepoLock`: a process inside `acquire_lock*` or `Drop` goes on unless killed.
  Nothing makes a holder release its lock: a waiter's call ends anyway.
* `ExecProxy`: threads are scheduled and the sidecar starts what it was told to.
  A tool need not end and a client need not leave. A peer that does not read
  reads again or leaves one day; as the write timeout is off (`proxy.rs:825`),
  the code relies on that. A handler blocked in a write goes on once its peer has
  read, even if the peer then stops again, hence strong fairness for handlers.
* `ShimProcess`: one weak fairness for all of the shim's own steps, its curl, and
  the proxy's threads that serve a notification. It takes no more, because they
  make finitely many steps. Nothing is assumed of the proxy's tool side, of the
  user or of a notification's command: calls may stay open for ever.
* `SidecarSession` and `LauncherStart` assume none: their properties are safety.
* `ForkSession` assumes none. `MergeGoesOn` says that a merger always has a step,
  and no step leads back to an earlier stage.

## 5. The proofs

`RepoLockProof` proves, for all values of the constants that `LockAssumption`
allows (any number of processes, paths, candidate lists, retries and faults):

| theorem | property |
|---|---|
| `TypeCorrect` | `TypeOK` |
| `FileExclusion` | `ExclusionUntilRemoval` |
| `RefusalNeedsHolder` | `RefusedOnlyByALiveHolder` |
| `FilesAreRemoved` | `NoLeftoverFile` |

`ExclusionUntilRemoval` speaks of paths, but an flock() only excludes on an
inode. The invariant `IInv` supplies the link: inodes are handed out upward from
`fresh` (so a new file is never an old inode), whoever is past `open()` has an
inode open, an inode belongs to one path, a process on a path that nobody has
removed from has the very inode the path names, and an inode has at most one
holder. Two holders of an unremoved path then hold one inode and are the same.
`TriesLeft` bounds the attempts, which `TypeOK` needs. `NoLeftoverFile` follows by a
second induction over the same steps: a file is created by a process that is
then past `open()`, and each stage passes the duty on. `Invariance` is the first
induction, with a lemma per action; the other theorems use it and one step each.

`LauncherStartProof` proves, for any launchers, projects, settings, images and
bounds (`ProjectsAssumption`, `ImageAssumption`), every property of the run `start`:

| theorem | property |
|---|---|
| `TypeCorrect` | `StartTypeOK` |
| `LocksKept` | `LockKept` |
| `InvalidationCorrect` | `InvalidationHolds` |
| `LocalImageCorrect` | `LocalImageIsRun` |

Each has an invariant of its own beside the types, because each property speaks of
a step that relies on what an earlier one saw. `LockThere`: a pnpm-lock.yaml that a
launcher saw, or that it needs before it removes anything, is in the directory
(nothing ever removes it). `MirrorInv`: the cache file is emptied and written in two
steps, so `Told` treats whoever is between them like the file; if either knows of
the mirror, no launcher has invalidated the file since. `SearchInv`: the local
images that would do and were there all the time are among the names still to be
looked for, none is left once the search has ended without one, and what a
launcher pulls was not there when it looked. It needs the repository of the image
to be kept by every step before the override, and the names looked for to be
exactly `Accepted` (`CandidatesAreAccepted`).

`ExecProxyProof` proves, for any connections, exec ids (shared ones, too), limits
and bounds (`ProxyAssumption`), every safety property of `ExecProxy`:

| theorem | property |
|---|---|
| `TypeCorrect` | `TypeOK` |
| `Signallable` | `RunningIsSignallable` |
| `RegistryCurrent` | `RegistryIsCurrent` |
| `NoToolOrphaned` | `NoOrphan` |
| `TimeoutReported` | `TimeoutIsReported` |
| `LimitTurnsAwayOnly` | `DroppedOnlyWhenFull` |
| `PromiseKept` | `KeepsPromise` (the refinement of `ToolCall`) |

`Counted` ties `active_conns` to the set of handlers that serve, which is what makes a
drop mean that the proxy is full. `Life`, `Recorded` and `Flagged` say for each stage
of a handler what its tool, its watcher and its exit code may be. The rest relates
execs: the file of an exec id names a tool of that id (`Named`), so that a group kill
ends the tool it is meant for (`Reachable`) and only its own watcher ends an unshared
one (`TimedOut`); an id is registered exactly as long as somebody is going to take it
out (`RegisteredBySome`, `RegisteredWhileBegun`). The refinement is a step
simulation: what a step does to tools (`NextToolMoves`) and to conclusions decides
which step of `ToolCall`, or none, it is.

`ForkSessionProof` proves, for any number of panes and any options
(`ForkAssumption`):

| theorem | property |
|---|---|
| `TypeCorrect` | `TypeOK` |
| `LockCorrect` | `LockFollowsMerge` |
| `RefsKept` | `RefsDroppedAfterMerge` |
| `DisposalSafe` | `DisposedWorkWasMerged` |
| `CleanSafe` | `CleanSparesWork` |

The lock keeps two mergers off the same branches (`LockInv`); with it `MergeKnows`
follows one merge: what was fetched from a pane is what the pane had unless somebody
worked there since, and past the merge it is in it. Cleaning takes no lock, so
`PlanHolds` must say what stays true of a plan while agents, clones and merges go
on: whatever is about to be deleted was free of work when it was checked, was cloned
since, or is excused by name.

`SidecarSessionProof` proves every property of the run `session`, for any panes,
kinds of sidecars and bounds (`SessionAssumption`):

| theorem | property |
|---|---|
| `TypeCorrect` | `TypeOK` |
| `SidecarsKept` | `SidecarsOutliveSiblings` |
| `CleanupComplete` | `FailureLeavesNothing` |
| `OverlayCorrect` | `OverlayIsCurrent` |
| `SelectionFinds` | `FoundWhereItIs` |
| `SocketKept` | `SocketIsOwn` |

Each has a part of the invariant. `Provided`: a start has every sidecar it is past,
or it was taken away since. `Emptied` and `Alone`: what a cleanup has removed is
gone, when no other launcher has started. `Installing`: without an excuse there is
one installer, its hash is that of the lockfile, and what it installed is what it
will store the hash of. `Informed`: what a proxy remembers of a running sidecar is
so. Informed is the delicate one: the sidecar that is chosen is the first that is
remembered to have the tool, so that the proof needs the least element of a set of
numbers (`MinIsLeast`, from well-foundedness).

`ShimClientProof` proves the safety of a tool's call for any number of interrupts and
chunks (`ShimAssumption`), `RequestProof` what the proxy's reader does for headers,
caps and reads of any size up to the body's cap (`RequestAssumption`), and `ShimProcessProof` lifts both to
the process and adds notifications (`NotificationAssumption`). These are all the safety
properties of the run `shim`:

| theorem | property |
|---|---|
| `TypeCorrect` | `TypeOK`, the half of `ProcessTypeOK` that is about the shim |
| `RunsOnce` | `RunTwiceOnlyOnBrokenOutput` |
| `AnswersArrive` | `LostOnlyWithoutAnswer` |
| `ExitTrue` | `ExitIsReplied` |
| `NoMarkerStays` | `MarkersCleared` |
| `ToolCallsCorrect` | the last four, of `ProcessSpec` |
| `NotificationsWhole` | `AnswerIsWhole` |
| `RequestsReadAsSent` | `ReadsWhatWasSent` |
| `ProcessTypes` | `ProcessTypeOK` |

The hard part is that an answer is read in pieces. `Truthful`: whatever an exit code,
a refusal or a timeout chunk on the wire, in the buffer or in curl's header file says
is what the proxy has concluded. `Awaited`: a code that was answered is still in front
of its reader; while the headers are read, it is the last token, behind a prelude, so
that the cut behind the headers cannot swallow it. `Transport`: the second connection
follows the first only behind a broken output. Texts are looked at only as sets of
tokens and by their last one (`Joined`, `SplitAt`, `TakenOff`). For notifications
`Collected` says that a reader thread finishes only when the command has ended and
its pipe is empty; `NotifyTyped` adds that a write begins only below the bound and
that TERM comes once and before KILL.

`RequestProof` has two halves. A request on the wire is put together by the library's
folds, which are recursive functions or choices, so its first half gives their values:
a least counterexample takes the place of an induction over data (`LeastOf`, `Steps`),
the sum of at most four chunk sizes is written out (`Sum4`), and from there on a text
is known by the tokens at its indices (`Joins`). That gives the two facts about the
format that the reader relies on: `EndFound` (of a beginning of a request the end of
the headers is found where they end, as soon as it is there and not before, whichever
of CRLFCRLF and LFLF ends them) and `LineTaken` (a line of the chunked framing is
taken as it was sent, up to its CRLF or LF). Of the lines of the headers only their
number and what they contain matter. A request's payload is at most the four units of
`Units`, as in the runs; the number of header lines is any, and so is the place where a
read ends.

The second half is the invariant `RequestInv`. `Buffers` has the types. `Placed` says
for each place of the reader which part of the payload has been kept, up to the cap,
and that the buffer and what is to come are together what was sent from this place on
(`Delivered`). With it a read is one lemma (`DeliverMore`) and taking a line, a chunk
or the headers another (`DeliverPast`). A sender that stops is the case that made the
invariant: the reader may then have taken a chunk that was cut, or be past a line end
that never came, so `Broken` says what is left, a beginning of the payload and nothing
to come but a CR. `ReadsWhatWasSent` is about regular requests, so that `Placed` is
claimed of these only, and the types of all.

Only model-checked:

* `AcquireEnds`, `ExecEnds`, `ClosedCallsEnd`, `InterruptEnds`, `RequestEnds`:
  liveness under fairness, which the prover does not reach.
* `MergeGoesOn`: it uses ENABLED.

The inductive invariants were also evaluated by TLC on the instances of section 3; no
run is kept for that.

## 6. Where the code and its documentation part

Four disagreements have a run that shows them (section 3). These were met while
modelling; the models follow the code, and no run is spent on them.

* *Sidecars across clones.* A sidecar is named after the session and reused when
  it runs (`toolchain/sidecar.rs:33-36`, 1366-1378), but mounts the clone of the
  pane that created it (232): tools of the other panes work on that clone, while
  `src/docs/README-toolchains.md:48-49` has them work in the agent's workspace.
* *The end of a session.* `toolchain_session.rs:7` says that `Drop` stops the
  sidecars; it never does (see SidecarSession). Networks of
  `--docker-network-isolate` are removed only after a proxy failed to start. A
  proxy that fails to start cleans the session up although siblings use it
  (`toolchain_session.rs:580`), and `aifo-coder toolchain` in a pane stops the
  sidecar of the session.
* *A start that fails.* A sidecar that does not start ends the launcher at once
  (`toolchain_session.rs:520-535`): the sidecars and the network it had got stay
  (`LookAgain`, `Guard`), while a proxy that fails has them removed;
  `src/ARCHITECTURE.md:52` says so, too. `FailureLeavesNothing` is about the proxy
  only.
* *The socket.* A second pane's proxy removes and replaces the first one's socket
  (`toolchain/proxy.rs:634`); whichever ends removes it (734). As it is removed
  before the bind, the first pane loses its socket to a sibling that fails to
  start, too: no proxy need have started or stopped. Two that start at the same
  time may both have removed it, and then one binds and the other fails, which
  removes the sidecars of both. `SocketIsOwn` says what is left: from its start
  until the next sibling sets out to start, or one stops, an agent is heard by its
  own proxy, also while a sibling that set out earlier fails.
* *Ctrl-C while a stream is idle* is not forwarded (`bin/aifo-shim.rs:798`); a late
  timeout chunk in front of the headers costs curl the 124; a shim whose output
  is closed in the middle of a chunk asks for the tool a second time.
* *Cut requests.* A body that breaks off is taken as far as it came and its tool
  is run with fewer arguments. Legal arguments, percent-encoded, can exceed the
  body's cap, with the same effect.
* *Notifications.* A command whose descendants keep its pipes open is never
  answered, even after the timeout's KILL (`toolchain/notifications.rs:285`).
* *Migration.* A launcher killed between the removals and `pnpm install` leaves a
  project without `node_modules`, and the next start finds nothing to migrate;
  a failed install is told and not undone.
* *Images.* `AIFO_CODER_IMAGE` "overrides the full image reference"
  (`src/README.md:963`), but a tag variable retags it and a local `:latest` of
  its last component replaces it (`docker/staging.rs:366`), as it replaces what
  `AIFO_CODER_AGENT_TAG` asks for. A tagged local image is given a registry even
  though it is there (against the comment at `main.rs:770`). Whether an internal
  registry counts as given (`agent_images.rs:58`) depends on whether a toolchain
  was started before. The pull that falls back to Docker Hub fetches a name that
  is then not run. The second pull of a verbose launcher may succeed unnoticed.
* *A retried merge.* After a conflict the user is told to "Resolve manually and
  retry" (`fork_impl/merge.rs:322`); the retry's `checkout -B` discards what was
  committed on `merge/<sid>`.
* *Probes.* A probe that fails once is cached as an empty prefix until somebody
  invalidates it.

## 7. Not modelled

`src/docker/run.rs` beyond its pull, `docker/env.rs`, `docker/mounts.rs`: one
docker command line from the environment. `doctor.rs`, `support.rs`,
`warnings.rs`, `banner.rs`: reports. `telemetry*`: counters. Other terminals than
tmux: command lines; the merge they start is the one modelled. `fork list` and its
notices: they read and format. Argument parsing. These keep no state that
outlives a call, or none that the program reads. `fork_impl/snapshot.rs` is three
git commands on a private index. The network tuning and warm-up commands of
sidecars are idempotent docker commands.

## 8. Plan

Done: `RepoLock`, `ExecProxy` with `ToolCall`, `ShimClient`, `Request`,
`Notification`, `ShimProcess`, `SidecarSession`, `PnpmMigration`, `AgentImage`,
`LauncherStart` and `ForkSession`, and the proofs of section 5.

Left: `fork_impl/snapshot.rs` as a source of what a clone starts from. Every safety
property of the runs that pass is proved, but for `MergeGoesOn`.
