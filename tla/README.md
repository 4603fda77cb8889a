# Lazurio Platform: formal models

TLA+ models of the parts of Lazurio Platform whose correctness depends on
interleavings, crashes and failing steps, the TLC runs that check them on small
instances, and the TLAPS proofs that hold for every instance.  Paths are
relative to the repository (`src/update/...` is the product's `src/` directory,
`docs/...` its documentation).

## The system

Lazurio is one executable per Environment: a CLI and a Launchpad (a local web
server, supervised by a systemd user unit where the installer set one up).  Both
work on the same files and never through each other: what keeps two processes
apart is a kernel `flock`, a directory that exists or not, and atomic renames.

| Component | State it keeps | Operations | Interacts through |
|---|---|---|---|
| Product updater (`update/`) | install base: selector link, `versions/<v>`, high-water mark, markers of v0.1.x, scratch | `update`, `install`, migration, status, background check | `update/lock`, the Launchpad unit, the Folder refresh after a switch |
| Update orchestration (`update/everything.ts`, `launchpad-activation.ts`) | transient systemd unit | update of content, builds and product | Launchpad, the three cores |
| Folder locking (`folder/lock.ts`, `retained-lock.ts`, `native-lock.ts`) | `.operation-lock`, reads counted per process | exclusive operation, bounded read, retained lock | every operation on a Folder |
| Folder change (`folder/prepare-profile-change.ts`, `apply-preparation.ts`, `retire-preparation.ts`) | generated outputs, preferences, manifest, one transaction directory, archive | change, resume, retire, read | Folder lock, Launchpad, CLI, update refresh |
| Folder initialization | receipts of the first creation | initialize, resume | Folder lock |
| Module owner operations (`modules/owner-operations.ts`) | queue per owner, retained locks | admit, run, drain, close | lifecycle, content, Folder lock |
| Application lifecycle (`modules/lifecycle.ts`, runners) | preparation, systemd units or child processes | prepare, start, stop, observe | owner operations, service manager |
| Content synchronisation (`content/`, `modules/data-mounts.ts`) | checkouts, removal journals, sync record with the first proofs that an access ended, job in progress | hourly round, one repository, installation, removal and its resumption, data mounts of a start | content lock, GitHub, the lifecycle's `retire` |
| Organization settings | last applied settings | poll, relay, apply | GitHub |
| GitHub sign-in, connections, vault, executor, integrations, tools | credentials, ledgers, external services | sign-in, pairing, requests, install | external processes and services |
| Environment browser (`browser/people/hub.ts`) | tabs, tombstones, countdowns, the holds read last, one DevTools connection | attach, sleep, wake, close for everyone, undo, reconnect | Chrome, the holder files and the bindings of agents |
| Launchpad server, Buddy | sessions, persona | HTTP routes | everything above |
| Recovery mode, doctor, Machine binding, SSH access, providers, shell, theme | mostly read-only | reports, one writer each | files |

### Where it is hard

* **Stops.** A process may be killed, and the Machine may lose power, between
  any two file operations.  The updater has no journal (every intermediate state
  must be one that the next run accepts); the Folder has one (a transaction
  directory that either can be completed or is not binding yet).
* **Ordering.** A rename is visible at once and durable only after its directory
  is synced, so what a power loss leaves is not a prefix of what was done.
* **Stale reads.** Decisions are made at the start of minutes-long operations
  and acted upon at their end.
* **Errors that are swallowed.** After a commit point failures are ignored on
  purpose; before it they must have changed nothing.
* **Several actors.** CLI, Launchpad, background checks, provider rollouts, the
  service manager and the person editing files.

PROJECT.json lists the hazards one by one, with the source line and the
properties that would catch them going wrong.

### What makes each component correct

* Updater: the selector always names whole bytes; versions only move forward;
  a candidate proves itself before it is selected; no crash leaves a state that
  later commands refuse; a command that keeps being asked succeeds.
* Folder change: readers see one revision, whole; a crash leaves the old
  revision or a transaction that can be completed; personal edits are never
  overwritten unseen; an answer "updated" is one revision further.
* Folder lock: one mutation at a time, whichever form of the lock it uses; a
  dead process never blocks a native lock for ever and a retained lock of a dead
  owner is never stolen; a process's own reads never refuse its own mutation.
* Owner operations: one holder per tree, a record released only when nothing of
  the operation can still run, drain and close end.
* Lifecycle: nothing runs beneath a preparation, a tree left unfinished stays
  closed until recovered, "stopped" means no process is left, a refused or failed
  request changes nothing; observation never reports a stale unit as running.
* Content: synchronising loses no commit and no changed file; a copy is removed
  only when its access ended twice in a row, and then it is; what may be read
  follows what is published, after any failure.
* Environment browser: a sleeping tab keeps its name and its place in every list,
  one id names one page, whoever waits is served, what nothing uses ends.

## Plan

Done, in this order:

1. **Update**: module, abstract `ActiveVersion`, runs, proofs.
2. **FolderChange**: the transaction journal, refinement of an atomic Folder,
   proofs of every safety property.
3. **Applications**: the lifecycle core with its locks, records and the
   systemd-user runner, the abstract `DependencyTrees`, runs, proofs.
4. **ContentSync**: the runs of a content root, the removal of what may no
   longer be read, the starts beside them, runs, proofs of its safety.
5. **TabHub**: the tabs of the Environment browser, safety over a dropped
   connection and liveness without one, proofs of its safety.

Next:

6. **FolderLock**: native and retained lock on one path, reads of one process;
   later composed with FolderChange.
7. **SessionApplications**: the session runner, where every mutation keeps its
   record, and `entrypoint`, which observes without a lock; the content jobs that
   coalesce requests.
8. Initialization receipts, `platform/flock`, update orchestration, pairing
   ledger, GitHub store.
9. Proofs: mutual exclusion of FolderLock; `TombstonesKept` without the
   assumption on Chrome.
10. Violation runs for the two losses of a drop told under the findings
    (`AgentsWake`, `UnusedPagesEnd`).

Conventions: constants carry named assumptions; a process's program counter
names the step it is about to take; a thrown error, a kill and a power loss are
actions of their own; histories (`proven`, `answer`, ...) are updated by the
actions and read only by properties; definitions called `Bug...` are plausible
mistakes in the definition after them, used only to show that a property can
fail.

## The updater: `Update.tla`

| Model | Code |
|---|---|
| `selector`, `mark`, `pending`, `previous`, `dir`, `scratch` | `bin/lazurio`, `update/high-water`, `update/pending.json`, `previous`, `versions/*`, `scratch` (`layout.ts`) |
| `durable` | what survives a power loss of all but `scratch`; moved by `syncDirectory` |
| `Start`, `Acquire`, `Busy`, `Finish` | `requireInstalled`, `withUpdateLock` with timeout 0 |
| `MigrateMarker` ... `MigratePrune` | `removeRollbackLeftovers` |
| `DecideUpdate`, `DecideInstall` | `updateOnce` and the branches of `install` |
| `Stage` ... `Unscratch` | `stagedMatches`, `downloadArtifact` or `copyFile`, `placeVersion`, `selfCheckStaged`, the `finally` |
| `Switch` ... `Unhealthy` | `activate`: swap, mark, prune, restart, bounded health poll |
| `Fail`, `RaiseFails`, `PruneFails`, `RestartFails`, `Kill`, `LosePower`, `LoseSelector` | thrown errors, swallowed errors, SIGKILL, power, damage from outside |

Versions are numbers in the order of `compareVersions`; the contents of a
version directory are Absent, Broken or Intact.  A first installation runs
without a self-check, as in the code.  A power loss picks for each of the four
links and files, and for each directory, the current or the last synced value,
independently; a directory may also be left half written.

Not modelled: systemd unit files and their rewriting, the Folder refresh after a
switch, PATH entries, the last-check record, the retries inside a download, and
an unreadable mark (`state-invalid` by damage from outside).  `Place` removes what a
version of that number left and renames the staged one in a step; a kill in
between leaves what `CutOff` says.  `Stage` makes the scratch directory that the
steps before it cleared.

`ActiveVersion.tla` is what the updater promises to an observer of the selector
and the mark: switches strictly forward and never below the mark, the mark only
up to what was active, and damage.  `VersionsOnlyMoveForward` is the refinement.

### Runs

| Run | Instance | Shows |
|---|---|---|
| `update_crash` | 2 processes, 2 versions, both commands, 2 faults (throw, kill, lost selector) | `UpdateInv`, the inductive invariant of the proofs (its first part is `TypeOK`), and the refinement; 2 034 185 states |
| `update_power` | 2 processes, 2 versions, `update`, 1 fault incl. power loss, fairness | under one fault, `ActiveIntact`, `NoFaultWedges`, `UpdatedIsServed`, `MarkFollowsSwitch` and `ProvenBeforeSwitch` where each unsynced change survives or not, and `CommandsEnd`, `NewestArrives`; 73 034 states |
| `update_copy_unsynced` | 1 process, 1 version, `install`, 1 power loss | finding: the copied executable is not synced |

Two processes are enough for exclusion because the lock has no queue; two
versions give "older" and "newer".  Two faults let a killed run be followed by a
failing or killed repair.  `MaxFaults` counts every
throw, kill, power loss and lost selector of a behaviour; with two faults of which one is a power loss
a base can be `Wedged` and `ActiveIntact` fails (see "Seen and not made a
finding"), which is why `NoFaultWedges` claims a single fault, and
the other properties of `update_power` hold, for any number of faults as the
proofs show.  Deadlock is not
checked in these runs: an Environment where nobody starts a command is at rest.

Fairness (`FairSpec`) is weak fairness of each process's own steps: the
operating system schedules a running process, and every external call it makes
has a deadline.  Nobody is assumed to start a command; `NewestArrives` therefore
assumes a user who asks for the newest release and gets the lock infinitely
often, while faults are bounded.

### Proofs: `Update_proofs.tla`, `UpdateAftermath_proofs.tla`

For every finite or infinite set of processes, every `Newest >= 1` and every
bound on faults.  With or without power losses:

* `TypeCorrect` and `MutualExclusion`;
* `AftermathHolds`, the inductive invariant of the second module;
* `MarkAfterSwitch`, `CandidateAlwaysProven`, and, unless someone removes the
  selector (`~SelectorLoss`), `UpdatedAlwaysServed`;
* as long as at most one fault has happened (`faults <= 1`, which bounds the
  history and not the constants): `OneFaultWedgesNothing`, and where only
  `update` runs (`Ops \subseteq {"update"}`) `OnePowerLossKeepsActive`.

On a Machine that keeps its power (`~PowerLoss`): `InvariantHolds`,
`ActiveAlwaysIntact`, `ImplementsActiveVersion` and `NeverWedged`.  With power
losses these four do not hold in full: the executable that `install` copies can be lost
(the finding above), two faults lose a version that an earlier run placed or
bring a marker back (see "Seen and not made a finding"), and a switch that is
not yet synced is taken back, which `ActiveVersion` does not allow.

The inductive invariant `UpdateInv` adds to `ActiveIntact` what the holder of
the lock has decided: its version is above the mark and the version it read
(`DecisionStands`), the selector has not moved since (`SwitchStands`), the
candidate is whole in the steps between placing and switching
(`CandidateIntact`), and only the holder is between lock and release
(`OneWriter`).  Without `DecisionStands` a step that trusts an earlier read could
move the selector backwards; without `OneWriter` none of the holder's facts
would survive another process's step.  `NextOneWriter` is proved first; then
`StandsStill` treats the steps of other actors, `NextStands` the holder's own,
one step per action, `NextActive` the executable, and `StepMovesForward` the
refinement.  All but `ActiveIntact` survives a power loss, which ends every
command.

`AftermathInv` adds what a command leaves for later.  `Follows`, of the holder:
after the migration no marker is left; after the sync the durable selector is
the version wanted; whoever is about to switch over an installation has proved
the candidate.  `MarkedIsDurable`: while a marker is there the selector is
durable, so that the mark may rise to it.  `Served`: an `updated` answer is about
a version that neither the selector nor what a power loss would restore is
below; the next switch, strictly upward, therefore never makes an old answer
about the active version again.  `SelectorLoss` is excluded there: if the mark
could not be raised and the selector is then removed, `install` may repair it with
an older version, and a later switch meets the old answer once more.

The two theorems on a single fault rest on an invariant of a base on which
nothing has failed yet, because a power loss may keep any unsynced change and
lose any other: what it leaves is right only if everything it can mix is.
`Steady`: every whole executable is durable but the candidate between its rename
and the sync of `versions`, and then nobody is between the rename in `bin` and
its sync, so that the selector, old or new, names durable bytes (`SteadyActive`).
It needs the artifact to be synced before it is placed, which the copy of
`install` is not.  `MarkerKept`: the marker is durable until it is durably gone,
and as long as it can come back the selector and `previous` it speaks of are
durable too (`MarkerReadable`).  After a kill neither holds, and a second fault
breaks both properties ("Seen and not made a finding").

Only model-checked: liveness, which is out of the prover's reach.

## The Folder change: `FolderChange.tla`

| Model | Code |
|---|---|
| `disk.active[1 .. N]`, `[N + 1]`, `[N + 2]` | the generated outputs, `preferences.json`, `instructions.json`, in the order of `replacements` |
| `disk.tx` | `.lazurio/transaction`: the generation that was staged (`id`), its revision, the identities before, how far it is staged and how many items were renamed |
| `disk.archive`, `disk.buddy` | `.lazurio/history/revision-<n>`, Buddy's layer |
| `survivors` | the disks a power loss may leave; one again after every directory sync |
| `product`, `own`, `template` | the active release, the release the command was started from, the release that rendered a generation |
| `Begin`, `PlanRefuses`, `PlanUnchanged`, `PlanChange` | `changeFolder`, `planFolderChange`, the first half of `prepareFolderChangeLocked` |
| `Sync`, `Open`, `Write`, `Verify` | the staging order of `prepareFolderChangeLocked` |
| `Inspect`, `Move`, `MoveSync`, `Settle` | the loop of `applyPreparationLocked`; `Complete` and `InspectOK` are `inspectProgress` and `validatePreparation` |
| `Finalize`, `Archive`, `ArchiveSync`, `Sealed`, `Buddy` | `finalizePreparationLocked`, `writeBuddyLayerLocked` |
| `Resume`, `Retire`, `RetireSync` | `resumePreparationLocked`, `retireIncompletePreparation` |
| `Read` | `readFolderState` by a command or the Launchpad |
| `Saved`, `EditInPlace`, `PutFile`, `RemoveForeign` | the person's editor, at any moment and under no lock (external) |
| `Upgrade`, `Stop`, `LosePower` | a switch of the product; a thrown error or a kill; power |

A file is its revision, its identity and whether it was edited.  An identity is
a number used once: the staged files of one generation share one, and a file the
person puts in place gets the next.  The operation lock is taken as exclusive
(`FolderLock` is to show that); a kill frees it.

The Folder's filesystem is assumed to keep the order of metadata changes: what a
power loss leaves is the disk at some moment since the last directory sync.
`lock.ts` refuses filesystems it does not know, and the allowed ones are
journaling.  Every staged file is synced before it is renamed (`writeNew`), so
its bytes are not a case of their own.

Not modelled: the kinds of change (profile, preset, voice, tools, notes,
organization settings: all are a new revision), the ownership and mode checks of
the files, the Organization-owned parts, and the first creation of a Folder; and
two looks that repeat one: the last `inspectProgress` of the outputs
(`apply-preparation.ts:116`), which `Finalize` makes again at once, and the last
validation of a retired archive (`retire-preparation.ts:185`).

`AtomicFolder.tla` is what a change promises to whoever looks at the manifest: a
number that goes up by one, and that a power loss takes back only as far as
nobody was told.  `ChangesAreAtomic` is the refinement, from the revision of the
manifest and the highest revision a caller or reader was told.

### Runs

| Run | Instance | Shows |
|---|---|---|
| `folder_change` | 1 output that the first manifest does not own, with preferences and manifest; 3 identities, 1 edit, 2 faults, 2 template revisions, fairness | every safety property, the refinement and `ResumeCompletes`; 526 612 states |
| `folder_wedge` | 2 outputs, 2 identities, 1 fault | finding: a change that stopped while it was staged cannot be completed and no command retires it |

With preferences and manifest there are three renames in `folder_change`, one of
a file that was not there before, so a stop has applied and pending items on both
sides.  Three identities allow two generations, or one and a file the person
puts in place.  Two faults stop a change and its resume.  `MaxEdits` counts what
the person writes; that they take their own file away again is not counted.
Deadlock is not checked: a Folder where nobody starts a command is at rest.

Fairness (`FairSpec`) is weak fairness of the running command's next step.
`ResumeCompletes` assumes somebody who keeps resuming with the templates that
prepared the change, and faults are bounded.

### Proofs: `FolderChange_proofs.tla`

For every number of outputs, identities, edits, faults and template revisions,
and every set of unowned outputs, each property of `folder_change` is a theorem:
`TypeCorrect`, `FolderIsWhole`, `PreparedIsResumable`, `HistoryExact`,
`ToldRevisionStands`, `ChangesCompareAndSwap`, `PersonalBytesStay`,
`TemplatesGoForward` and the refinement `Refinement`.

The inductive invariant `FolderInv` has two halves.  `DiskInv` is about one disk
and holds of every disk in `survivors`: all identities were given out
(`Bounded`), so the next one is new; a pending journal can tell an applied item
from a pending one (`JournalInv`: the identity before, the staged identity and
the archived ones differ); a disk without a prepared journal is of one revision;
and the archive is exactly the revisions before (`ArchiveInv`).  `Control` ties
the command's step to the disk, `Asked` the change to the revision its caller
expected, and `Seen` what was inspected to what is replaced.  That a power loss
only takes back what nobody was told needs one more fact, in `SurvivorsInv`: once
the manifest's rename is synced, every survivor has the same revision, and
answers and reads only come when that is so.

The proof first shows, for one disk, that each way of writing it keeps `DiskInv`
(`StageDisk`, `PlanDisk`, `MoveDisk`, `ArchiveDisk`, `RetireDisk`, `EditDisk`,
`BuddyDisk`), then one lemma per action, then what every step does to the
revision and to what was told (`Effect`), from which the action properties and the
refinement follow.

Only model-checked: `ResumeCompletes`.  What the lock refuses and which
filesystems keep the order of metadata are assumptions.

## The applications: `Applications.tla`

Owners are processes with a lifecycle core: a Launchpad, or the command line for
one operation.  They share nothing but the machine: the coordination `flock`, the
retained record in each dependency tree, and the user service manager.

| Model | Code |
|---|---|
| `flock`, `pc`, `job` | the coordination lock and the request under it (`application-coordination.ts`, `coordinateMutation`); a process works on one request at a time because its chain and its queue do |
| `record`, `held` | `.operation-lock` of each tree, and the `locks` of `createOwnerOperations` |
| `left` | `preparations`: what has not confirmed its cleanup |
| `group`, `orphans` | guarded process groups with and without a living owner |
| `request`, `late` | `systemd-run`, and the one that outlives its killed parent |
| `unit`, `populated`, `stopping` | the manager's unit record, its control group, its stop jobs (external) |
| `dirty` | history: trees an explicit preparation may have left unfinished |
| `Request` ... `AdmitPreparation` | `mutation`, `coordination.run`, `coordinateMutation`, `owners.run` |
| `BeginRefused` ... `BeginStop` | the first checks of `start`, `prepareBuild`, `prepare`, `stop` |
| `StepRefused` ... `DrainUnconfirmed` | `startCheck` and the body of `prepare`, with `bun-preparation` and the guard |
| `LaunchRefused` ... `GiveUp` | the rest of `start` and the runner's `start` |
| `Stop`, `Confirm`, `Expire` | the runner's `stop`, wherever it is called |
| `Close`, `Shutdown`, `Kill`, `ExitIncomplete`, `Open`, `Recover` | `close`, the end and start of processes, a person who removes a record |

`prepare` and `clean-prepare` differ only in what they run, so they are one kind
of job.  Reasons of refusal that change nothing are one answer ("refused"); what
is installed or checked is not modelled, only that a process group may be at work
on a tree.  A `systemd-run` that is killed at its deadline is taken to have had
its effect before the look that follows, or none: the parent reaps it.  A
manager that does not answer is a choice at every look that has an answer for it.

Not modelled: `status`, `open` and `entrypoint` (they take no lock and change
nothing), listeners and ports, the session runner, two directories with one
identity, more than one Organization, and a guard that is itself killed.

`DependencyTrees.tla` is the promise of this whole: a tree is changed only while
nothing of the Organization runs, and nothing is launched on a tree under change,
or left by one, before it is confirmed or recovered.  `TreesAreKept` is the
refinement.

### Runs

| Run | Instance | Shows |
|---|---|---|
| `apps_crash` | 2 processes, 1 application, 2 kills | `OneHolder`, `DirtyIsRecorded`, `NothingRunsBeneath`, `StopIsConfirmed`; 982 755 states |
| `apps_pair` | 1 process at a time, 2 applications, 1 kill | `LaunchesAfterCleanup` and the refinement `TreesAreKept`, across two trees; 911 358 states |
| `apps_live` | 1 process, 1 application, 1 kill, late start requests and closes, fairness | `RequestsEnd`, `ShutdownEnds`; 70 932 states |
| `apps_late_close` | 1 process, no kill, late closes | finding: a shutdown releases the record of an unfinished tree |

Two processes suffice for one tree: the lock has no queue, and a third would be
another that is refused.  Two applications are one that is prepared and one that
runs; the process of `apps_pair` may be killed and opened again, which is the
next owner.  `MaxKills` counts kills; two let the recovery of the first be
interrupted.  `LateRequests` and `LateCloses` switch on the two behaviours that
break `NothingRunsBeneath` and `DirtyIsRecorded` (see below), so that everything
else is checked without them; the proofs below show that these are the only ways.

Fairness (`FairSpec`) is weak fairness of a process's work, of the guard that
stops its group (it escalates to SIGKILL after a grace time) and of its shutdown.
Nothing is assumed of the manager or of the applications: every wait for them has
a deadline.  Deadlock is checked.

### Proofs: `Applications_proofs.tla`

Every safety property is a theorem, for any number of processes, applications and
kills.  `TypeCorrect`, `RecordHasOneHolder`, `LockIsNeverLeftBehind`,
`ResetsAreEmpty`, `LaunchIsClean` and `StopAnswersTruly` hold with late requests
and late closes too.  `UnfinishedTreesAreRecorded` assumes `~LateCloses`,
`PreparationsRunAlone` and the refinement `ImplementsDependencyTrees` also
`~LateRequests`: without these two behaviours nothing breaks them.

`IInv` is inductive without any assumption.  The properties need, besides
themselves, what a process's step says of its request (`HasJob`, `StepFitsJob`,
`RequestIsAsked`), that a preparation past its admission holds its tree's record
(`HoldsTree`: or its end would take somebody else's record away), and that no
step runs beside what the process left (`StepIsClean`, `GroupsAreLeft`).  Nearly
every operation moves to a step under the lock or ends there (`WorkTurns`), so
what concerns the lock and the records is proved once for that move.

`Recorded` adds that a tree its holder left unfinished is among what the holder
must still confirm (`DirtyIsLeft`), so a record that goes is of a settled tree.
This is where `LateCloses` bites: `ClosedIsClean` says that a preparation does not
meet the shutdown at its first check with something unconfirmed behind it.

`Owned` ties the process groups to the records, across the death of their owner.
`NotForeign` and `Idle` are the two sides of the lock: who starts saw nobody
else's record, who prepares saw the Organization idle, and as only one of them
works at a time (`OneWorks`) neither is outdated when it acts.

Only model-checked: `RequestsEnd` and `ShutdownEnds`, as liveness is.

## Content synchronisation: `ContentSync.tla`

One Organization under the Folder's content lock: the run, the checkouts it
moves, what it remembers between runs, and what happens beside it.

| Model | Code |
|---|---|
| `pub`, `access` | GitHub: the commits a branch has published, the repositories this identity may read (external) |
| `copy` | a checkout: the commits of the declared branch (`main`) and of another one (`other`), which of them is checked out, changed files |
| `journal` | `removals/<slot>`: the intent before the rename, and after it (`access-ended.ts`) |
| `marks` | `accessEnded` of the sync record: when a first proof was made (`sync-record.ts`) |
| `run`, `step`, `verified`, `fetched` | the lock's holder: `RunContext`, the slot each worker of the pool is at, the remotes it read, what a fetch brought |
| `providing` | a start of a module that is about to clone absent data mounts (`data-mounts.ts`) |
| `Everything`, `One`, `Install` | `syncContent` of everything or of one repository, `installContent` |
| `Resume`, `Root`, `RootStops` | `resumeRemovals`, then the synchronization of the root |
| `Check`, `Fetch`, `Merge` | `syncCheckout`: `localBlock`, the remote's branch, the fetch, `localBlock` again, `git merge --ff-only` |
| `CloneStarts`, `Publish` | `cloneAbsent`, `materializeRepository` and the rename of the temporary sibling |
| `JudgeKeeps`, `Judge`, `Retire`, `Name`, `Rename`, `RenameFails`, `Delete` | `judge`, `removalStep`, `retire`, `removeCopy` |
| `Turn`, `Record`, `RecordFails`, `Kill` | modules before data mounts, `recordSync`, a record that cannot be written, the end of the process |
| `Starts`, `Provides`, `Commit`, `Touch`, `Checkout`, `Push`, `Access`, `HalfHour` | a start, people at work, GitHub, `removalConfirmAfterMs` |

A commit is a number: `1 .. n` were published, `0` is the person's own.  That is
all that `git merge --ff-only` and the comparison of a checkout with its remote
tell apart: behind, equal, ahead or diverged.  `proofs` and `cut` are histories:
the proofs in a row by every answer a run gave, and the slots whose other answer
never reached the record.

Not modelled: links and linked worktrees, restricted and guest repositories,
several Organizations (each has its own slots; the lock is one), the steps within
the root's own synchronization, the jobs that coalesce requests, the directories
a killed clone leaves, and power losses.

### Run

| Run | Instance | Shows |
|---|---|---|
| `content_sync` | 1 module with 1 data mount, 2 commits, 3 edits of anybody, 1 fault (a kill, a failed request or write), fairness | `ContentInv`, `RemovedOnProofs`, `WorkStays`, `EndedCopiesLeave`, `CopiesFollow`; 272 917 states |

A module and its mount are the smallest pair with an order between them: the
mount is cloned after its module, and moved away with it.  Two commits give a
checkout something to follow.  Three edits are enough to end an access, give it
back and end it again, or to end it beside a person's commit and a start; with
two faults (675 721 states) every property holds as well, and with four edits
the safety properties do (1 444 136).  Deadlock is not checked: between two
rounds an Environment is at rest, and the bounds end what people do.

Fairness: the hourly round finds the lock free again and again (`SF` of
`Everything`: runs of one repository may come in between, but each ends), a run
goes on, half an hour passes, and a start that was admitted ends.  Nobody is
assumed to edit, and no fault is owed.

### Proofs: `ContentSync_proofs.tla`

For any modules and data mounts, and all bounds: `TypeCorrect`,
`MountsCloneBelowModules`, `RemovedOnTwoProofs` and `SynchronizingLosesNoWork`.

The inductive invariant `IInv` says, besides the types, what a slot's step means
for the disk and for the bookkeeping.  `Placed`: what is being cloned has no
checkout, and what is being renamed has its journal.  `VerifiedStand`: a module
whose remote was read is done with and stands, so that nothing takes it away
under a mount that is being cloned; removals touch a module only before it is
verified, as one slot has one answer.  `Answered` and `Backed` are the argument
for the removal: what the run will record of a slot is what it last answered
(`marked` and `cleared` are disjoint and only of slots that are done), a mark in
the record stands for proofs that nothing answered against except what this run
is about to clear, or what was lost with a run (`cut`), and a slot on its way to
the rename has two.  Neither is inductive alone: `Record` turns `cleared` into
the record, and `Tell` and `Judge` turn the record into steps.  `Resting` and
`Installing` say which runs judge at all.

Most steps only move one slot: `TellKeeps`, `GoKeeps`, `KeepKeeps` and
`DoubtKeeps` treat the bookkeeping of the four ways to do so, `GroundKeeps` the
disk around it, and the lemma of each action combines them.  `DiskSteps` then
names the few actions that touch a checkout or a journal, from which the two
action properties follow.

Only model-checked: `EndedCopiesLeave` and `CopiesFollow`, which are liveness.

## The tabs of the Environment browser: `TabHub.tla`

One hub per Environment knows the pages of Chrome as tabs.  A tab that is not
used falls asleep: its page is closed and a tombstone keeps its id, its place in
the strips and whoever waits for it; it wakes into another page under that id.

| Model | Code (`browser/people/hub.ts`) |
|---|---|
| `open`, `news`, `wire` | Chrome: its pages, those it has yet to report, commands and answers under way (external) |
| `late` | Chrome: the commands of a connection that dropped, which it may still carry out (external) |
| `holders`, `agents`, `unreported` | the files of the strips and the bindings of agents, and their watch (external) |
| `cdp`, `seen` | the connection: discovering, the read of the holds, ready |
| `tab`, `byId`, `alias`, `grace` | `tabs`, `byId`, `aliases`, the countdown of a tab |
| `tomb`, `tombGrace`, `closing` | `sleeping`, the timers of the tombstones, the closes for everyone |
| `at` | the viewers of a tab or of a tombstone |
| `look`, `reads`, `refresh` | the holds read last, the reads under way, one that is due |
| `remembered` | the addresses of tabs that ended, under their ids |
| `Attach`, `WakeTab`, `Detach`, `Visible`, `CloseForEveryone`, `Restore` | the messages of people |
| `WatchReports` ... `EndSleeperIfUnused`, `ReadFails`, `Beat` | `holdsChanged`, `refreshHolds`, `scheduleGrace`, `closeIfUnused`, `reviewSleeper`, `endSleeperIfUnused`, the beat |
| `CheckStarts`, `CheckEnds`, `Fell`, `PageObjects`, `FallTimeout` | `putToSleep`, `closeToSleep`, `fell` |
| `Adopt`, `Report`, `Woken`, `WakeFails`, `WakeGivesUp`, `WakeRetry`, `WindowCloses` | `page`, `wake`, `wakeForAgent` |
| `Gone`, `Settle`, `Ended`, `FinishClose` | `gone`, `endSleeper`, `finishClose` |
| `Lost`, `Connect`, `Discovered`, `Ready`, `ReadyBlind` | `lost`, `connect` |

A drop takes the answers with it and the pages Chrome had yet to report, not what
Chrome was asked: it may do that at any time after, on the next connection or
between two (`LateClose`, `LateOpens`), or never.  A page number is a DevTools target and the id of the tab it first was.  A timer
may go off at any time after it was set, except that an agent's window outlasts
a change that is reported and read at once.  A read of the holds returns what the
files held when it began, and reads may end in any order.

Not modelled: addresses and titles, frames and input, the hub's own blank window,
cookies, a restart of Chrome or of the view, `trimSleeping`, and the tabs of a T3
Code thread, which never sleep.

### Runs

| Run | Instance | Shows |
|---|---|---|
| `tab_hub` | 2 page numbers, 1 tab people name, 1 viewer, 1 edit, 1 read at a time, 1 fault (a failed read or wake), 1 drop of the connection | `TabsAgree`, `TombstonesKept`, `FallsStand`; 812 210 states |
| `tab_live` | the same tab held by a strip, 1 viewer, 1 edit, 1 fault (a failed read or wake), no drop, fairness | `ViewersAreServed`, `ClosesEnd`, `UnusedPagesEnd`, `AgentsWake`; 37 561 states |

Two page numbers are a tab and the page it wakes into; when the first is no
longer named it is used again, so a tab falls and wakes any number of times.
With two edits and no fault every property of `tab_hub` holds as well
(2 048 302 states).
Where every number is named, liveness is excused (`Fresh = {}`).  `SlowChrome` is
FALSE in both: Chrome closes a page that does not object within `fallTimeout` and
opens one within the time a close for everyone counts down; what happens
otherwise is told below.  Deadlock is not checked: tabs nobody uses are at rest.

Fairness: the connection is made again, Chrome answers what it was asked and
reports its pages, the watch reports, timers go off and reads return; reads wait
for one another only because of `MaxReads`, therefore strong fairness of those
that start one.  People, pages, agents and faults owe nothing.

### Proofs: `TabHub_proofs.tla`, `TabHubTabs_proofs.tla`

For any number of pages, ids, viewers, edits, reads, drops and faults.
`TypeCorrect` holds however slow Chrome is; `TypeOK` is not inductive alone, since
an id of a message or a viewer may be 0, which no map has: `Addressed` says where
it cannot be.  The proof also found that `MaxPages` must be at least 1, as one
page is open at first.

While Chrome is in time (`~SlowChrome`): `InvariantHolds`, and from it every safety
property of `tab_hub`, `TabsAlwaysAgree`, `TombstonesStay` and `FallsStay`.  With a
slow Chrome the first and the last are not true, as is told below.

`HubInv` relates the maps of the hub to Chrome's pages and to what is on its way
between them.

* `Connection`: what a hub that discovers, settles or is ready has been told of
  the pages there are; a page it has yet to hear of while it is ready is neither
  known nor remembered.
* `Identity`: the aliases of the pages there are differ, and `byId` and the tab of
  a page agree with them.  Pages there are is `Live`, whether the hub knows them
  or not: a page Chrome has yet to report has its id already, or a second page
  could take it first.
* `Tombstones`: a tab that sleeps has no page, and one that falls has the page
  `FallOf` says, across a drop that makes the hub forget the page.  It does not
  say that the page of a fall is still on its way or there, nor that a page Chrome
  closes late has a tombstone.
* `Waking`: a wake under way is of a tab that sleeps and is the only one; a page
  that woke is not about to fall asleep before its answer came.

Only some twenty steps touch a page, an id or a fall.  The others are `Quiet`:
they change who looks, what is held, which countdowns run and which wakes are
asked for, and `QuietKeeps` proves the invariant for all of them at once.
`SettleKeeps` treats the pages that are gone, for `Gone` and for `Discovered`, and
`AdoptEffect` the tab an asleep one woke into, for its report and for its answer.
`TombstonesStay` and `FallsStay` then go through the steps once more for what
removes a tombstone.

Only model-checked: `ViewersAreServed`, `ClosesEnd`, `UnusedPagesEnd` and
`AgentsWake`, which are liveness.

## Findings

* `update_copy_unsynced`: `install` copies the executable without syncing it, so
  a power loss after the switch can leave an active version that is not whole.
* `folder_wedge`: a Folder change that stopped before its prepared marker is
  refused by `profile-resume`, the documented way out, and the code that could
  retire it is called by no command.
* `apps_late_close`: a shutdown that meets a second preparation between admission
  and operation releases the retained record of an unconfirmed one.

### Seen and not made a finding

Behaviours of the models that a reader of the code should know, and that no run
is spent on:

* A prepared Folder change cannot be resumed by a release with newer templates:
  `validate-preparation.ts` compares the journal with what the running release
  renders.  The manual asks to update and to resume (`folder/manual.ts:1557`),
  in an order that therefore matters.  `Upgrade` and `InspectOK` are in the model;
  `Resumable` and `ResumeCompletes` speak of the templates that prepared.
* A start whose manager does not answer in time reports `launch-failed` although
  its service runs: a look that is not answered counts as no service, beside the
  comment "A failed start must leave no half-owned service behind"
  (`systemd-user-runner.ts:667`).  It is the last disjunct of `GiveUp`.
* `systemd-run` survives a SIGKILL of the process that holds the coordination
  lock.  With `LateRequests = TRUE` in the instance of `apps_crash`,
  `NothingRunsBeneath` is violated: a process is killed right after it started
  `systemd-run`, the next one sees no unit and begins a preparation, and the unit
  appears.  `OneHolder`, `LockIsWorked` and `ResetOnlyEmpty` hold even then.
* A start-time install whose process was killed goes on until its guard ends it,
  and the next start's install may join it in the tree.  The documentation
  accepts an interrupted step (`docs/module-adoption.md:797-800`) and calls the
  check read-only a few lines earlier.
* An update whose directory sync fails after the rename of the selector answers
  a failure although the new version is active; the next command converges.
* With two faults, a kill between the removal of the marker of v0.1.x and its
  directory sync and, in a later run, a power loss that keeps the removal of
  `previous` and undoes that of the marker, the base is `Wedged`: `readMarker`
  then refuses, for ever, a combination that its comment says no crash can
  produce.  `NoFaultWedges` therefore claims one fault only.  It
  takes a filesystem that reorders two directories' changes.
* On such a filesystem two faults also break `ActiveIntact` for `update` alone: a
  run killed between the rename into `versions` and its directory sync
  (`stage.ts:70-71`), a later run whose `stagedMatches` finds the bytes and that
  therefore syncs `bin` but never `versions`, and a power loss that keeps the
  switch and loses the directory it names.
* Content: a run that is killed, or cannot write its record, after an answer that
  clears a first proof leaves that proof; one later proof then removes the copy,
  where `docs/content-sync.md` says that every other answer in between starts the
  count over.  `RemovedOnProofs` holds but for these slots (`cut`).
* Content: a start whose request to GitHub outlasts the run that removed its
  module clones a data mount into directories it makes again.  The module's slot
  is then an unexpected checkout for ever; the liveness properties exempt it
  (`Alone`, `Occupied`).
* Content: a person who checks out another branch between the last look and the
  merge has that branch moved forward, if it can be; nothing is lost (`WorkStays`).
* Content: the temporary sibling of a killed clone stays when access ends.
* Tabs: "every list of tabs names the tab throughout" (`hub.ts:2819`) does not
  survive a drop, however fast Chrome is.  A socket that is lost does not recall a
  `Page.close`; the hub is connected again after `reconnectMs`, finds the page still
  there and drops its tombstone as of a tab that stays awake (`hub.ts:1478-1479`),
  and then the page closes: the tab is gone, id, place and all.  `LateClose` is in
  the model; `FallsStand` claims what is true, that the tombstone gives way to the
  tab itself.  A page that falls asleep while a discovery that found it goes on is
  the same case: its tombstone goes when the discovery ends.
* Tabs, with `SlowChrome = TRUE`: a page that closes after `fallTimeout` has lost
  its tombstone, and the tab vanishes in the same way.  A tab whose page Chrome
  opens after its close for everyone is open again; if it was opened and woken once
  more meanwhile, both pages come to have its id (`TabsAgree` and `FallsStand` are
  violated in the instance of `tab_hub` with three page numbers and four edits).
* Tabs: `AgentsWake` asks for a hub that is connected when the agent comes.  A fall
  that begins during the discovery has its window spent like that of a drop.
* Tabs, with a drop in `tab_live`: `wakeForAgent` spends its window before the
  connection is ready (`AgentsWake` is violated), and a grace that ends without a
  connection is never started again (`UnusedPagesEnd` is violated).
* Tabs: a woken page that Chrome never reports is given up, and nobody who waits
  starts it again; in the model Chrome reports every page it opens.

PROJECT.json lists the forty hazards that weigh most.  Left out there and told
here: an error of a directory sync after a rename that happened (`activation.ts:70`),
the two directories of the v0.1.x migration (`remove-rollback/index.ts:202`), an
editor that replaces an output in the middle of a change
(`apply-preparation.ts:230`), a start-time install that outlives its process
(`local-application-adapters.ts:372`), and `entrypoint`, which under the session
runner compares two undefined invocations (`lifecycle.ts:710`).
