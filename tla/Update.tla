------------------------------- MODULE Update -------------------------------
(***************************************************************************)
(* The product updater of src/update: `lazurio update` and the offline     *)
(* `lazurio install`, run by any number of processes against ONE install    *)
(* base, one kernel flock between them, and the supervised Launchpad that   *)
(* they restart.  A process may fail at every step, be killed at every      *)
(* step, and the Machine may lose power at every step.                      *)
(*                                                                          *)
(* Data that is abstracted: a product version is a positive number in the   *)
(* order compareVersions defines (0 stands for "none": no selector, no      *)
(* mark, no link); the bytes of versions/<v>/lazurio are Absent, Broken     *)
(* (a directory without exactly the release's bytes) or Intact; a release   *)
(* check answers any published version.  systemd unit files, the Folder     *)
(* refresh, PATH entries and last-check.json are left out.                  *)
(***************************************************************************)
EXTENDS Naturals

CONSTANTS
  Procs,        \* updater and installer processes
  NoProc,       \* the lock is free
  Newest,       \* the newest version there is
  Ops,          \* the commands run here: a subset of {"update", "install"}
  Supervised,   \* the base has the installer's Launchpad unit
  MaxFaults,    \* bound: failures, kills and power losses of one behaviour
  PowerLoss,    \* the Machine may lose power
  SelectorLoss  \* something outside the product may remove the selector

ASSUME ProcsAssumption == NoProc \notin Procs
ASSUME NewestAssumption == Newest \in Nat \ {0}
ASSUME OpsAssumption == Ops \subseteq {"update", "install"}
ASSUME FaultsAssumption == MaxFaults \in Nat
ASSUME FlagsAssumption ==
  Supervised \in BOOLEAN /\ PowerLoss \in BOOLEAN /\ SelectorLoss \in BOOLEAN

None == 0
Versions == 1 .. Newest
VersionOrNone == 0 .. Newest
Contents == {"Absent", "Broken", "Intact"}
Directories == [Versions -> Contents]
Markers == [from : VersionOrNone, to : VersionOrNone]
Scratches == [version : VersionOrNone, synced : BOOLEAN]
Snapshots == [selector : VersionOrNone, mark : VersionOrNone, pending : Markers,
              previous : VersionOrNone, dir : Directories]
NoMarker == [from |-> None, to |-> None]
NoScratch == [version |-> None, synced |-> TRUE]

VARIABLES
  selector,  \* bin/lazurio: the active version
  mark,      \* update/high-water
  pending,   \* update/pending.json of a v0.1.x activation
  previous,  \* the `previous` link of v0.1.x
  dir,       \* dir[v]: what versions/<v> holds
  durable,   \* the last synced value of the five above
  scratch,   \* the artifact in the scratch directory, and whether it is synced
  running,   \* the version the Launchpad process runs
  lock,      \* holder of update/lock
  pc,        \* pc[p]: the step p is about to take
  op,        \* op[p]: the command p runs
  want,      \* want[p]: the version p resolved, or is
  base,      \* base[p]: the selector p read when it decided (`from`)
  placed,    \* placed[p]: p itself staged versions/<want>
  legacy,    \* legacy[p]: the migration finished an unhealthy activation
  answer,    \* answer[p]: how the last command of p ended
  proven,    \* history: versions whose present bytes passed a self-check
  faults     \* how many faults happened so far

disk == <<selector, mark, pending, previous, dir, durable, scratch>>
locals == <<op, want, base, placed, legacy>>
vars == <<selector, mark, pending, previous, dir, durable, scratch, running,
          lock, pc, op, want, base, placed, legacy, answer, proven, faults>>

Higher(a, b) == IF a >= b THEN a ELSE b

\* Mutants: definitions named Bug... are plausible mistakes in the definition
\* after them; no specification uses one.
BugFloor == selector

\* versionFloor: the higher of the active version and the high-water mark.
Floor == Higher(selector, mark)

-----------------------------------------------------------------------------
(* The steps of one command, by the name of the one that comes next.        *)

MigrationSteps == {"migrate", "unmark", "unmarkSync", "retained",
                   "retainedSync", "migratePrune"}
StageSteps == {"stage", "fetch", "place", "placeSync", "selfCheck",
               "unscratch"}
FinalSteps == {"raise", "raiseSync", "prune", "restart", "health"}
LockedSteps == MigrationSteps \cup {"markSync", "decide"} \cup StageSteps
               \cup {"switch", "switchSync"} \cup FinalSteps \cup {"finish"}
Steps == {"idle", "lock"} \cup LockedSteps

BeforeSwitch == StageSteps \cup {"switch"}
AfterSwitch == {"switchSync"} \cup FinalSteps

\* Where a thrown error ends the command with nothing but the `finally` left.
\* After the switch the mark, the prune and the restart swallow theirs.
ThrowingSteps == LockedSteps \ (FinalSteps \cup {"migratePrune", "finish"})

Answers == {"none", "busy", "failed", "refused", "current", "installed",
            "updated", "unhealthy"}

\* Every variable stays in its set; in particular the mark never leaves the
\* versions that exist and the fault counter its bound.
TypeOK ==
  /\ selector \in VersionOrNone
  /\ mark \in VersionOrNone
  /\ pending \in Markers
  /\ previous \in VersionOrNone
  /\ dir \in Directories
  /\ durable \in Snapshots
  /\ scratch \in Scratches
  /\ running \in VersionOrNone
  /\ lock \in Procs \cup {NoProc}
  /\ pc \in [Procs -> Steps]
  /\ op \in [Procs -> {"update", "install"}]
  /\ want \in [Procs -> Versions]
  /\ base \in [Procs -> VersionOrNone]
  /\ placed \in [Procs -> BOOLEAN]
  /\ legacy \in [Procs -> BOOLEAN]
  /\ answer \in [Procs -> Answers]
  /\ proven \in SUBSET Versions
  /\ faults \in 0 .. MaxFaults

-----------------------------------------------------------------------------
(* What a base can look like when the first command of this release runs:   *)
(* nothing there, or an installation that this release or v0.1.x left,      *)
(* whatever the step at which it stopped.                                   *)

\* What the marker of a v0.1.x activation means, from what is on disk alone.
MarkerIs(kind) ==
  LET switched == selector = pending.to /\ previous = pending.from
  IN CASE kind = "absent" -> pending = NoMarker
       [] kind = "not-switched" -> pending # NoMarker /\ selector = pending.from
       [] kind = "switched" -> /\ pending # NoMarker
                               /\ selector # pending.from /\ switched
       [] kind = "invalid" -> /\ pending # NoMarker
                              /\ selector # pending.from /\ ~switched

\* A v0.1.x activation went from a lower to a higher version, both installed.
LeftByActivation ==
  /\ pending = NoMarker \/ (pending.from \in Versions /\ pending.to \in Versions
                             /\ pending.from < pending.to)
  /\ ~MarkerIs("invalid")

InitialBase ==
  /\ selector \in VersionOrNone /\ mark \in VersionOrNone
  /\ previous \in VersionOrNone
  /\ pending \in Markers
  /\ IF selector = None
     THEN "install" \in Ops /\ previous = None /\ pending = NoMarker
     ELSE previous # selector /\ LeftByActivation
  /\ dir = [v \in Versions |->
              IF v \in {selector, previous} THEN "Intact" ELSE "Absent"]

Init ==
  /\ InitialBase
  /\ durable = [selector |-> selector, mark |-> mark, pending |-> pending,
                previous |-> previous, dir |-> dir]
  /\ scratch = NoScratch
  /\ running \in {selector, None}
  /\ lock = NoProc
  /\ pc = [p \in Procs |-> "idle"]
  /\ op = [p \in Procs |-> "update"]
  /\ want = [p \in Procs |-> Newest]
  /\ base = [p \in Procs |-> None]
  /\ placed = [p \in Procs |-> FALSE]
  /\ legacy = [p \in Procs |-> FALSE]
  /\ answer = [p \in Procs |-> "none"]
  /\ proven = {}
  /\ faults = 0

-----------------------------------------------------------------------------
(* Helpers of the steps.                                                    *)

At(p, step) == pc[p] = step
Goto(p, step) == pc' = [pc EXCEPT ![p] = step]
Conclude(p, a) == Goto(p, "finish") /\ answer' = [answer EXCEPT ![p] = a]

Fault == faults < MaxFaults /\ faults' = faults + 1

\* The directories change; what they hold is proven only if it did not change.
SetDir(d) == dir' = d /\ proven' = {v \in proven : d[v] = dir[v]}

\* removeVersion, cut off anywhere: not begun, half done, done.
Removal(v) == {[dir EXCEPT ![v] = c] : c \in {"Absent", "Broken", dir[v]}}

BugPruneAll == [v \in Versions |->
                  IF selector = None \/ v = mark THEN dir[v] ELSE "Absent"]

\* pruneVersions: without a readable selector nothing is known to be safe to
\* delete; an entry that cannot be removed is skipped.
PruneAll == [v \in Versions |->
               IF selector \in {None, v} THEN dir[v] ELSE "Absent"]
PruneSome == {d \in Directories : \A v \in Versions :
                d[v] \in IF selector \in {None, v} THEN {dir[v]}
                         ELSE {"Absent", dir[v]}
                              \cup (IF dir[v] = "Absent" THEN {} ELSE {"Broken"})}

\* The `finally` of the staging part, of both commands.
Unstaged(p) == IF pc[p] \in StageSteps \/ op[p] = "install"
               THEN NoScratch ELSE scratch

Forget(p) ==
  /\ base' = [base EXCEPT ![p] = None]
  /\ placed' = [placed EXCEPT ![p] = FALSE]
  /\ legacy' = [legacy EXCEPT ![p] = FALSE]

-----------------------------------------------------------------------------
(* Beginning and end of a command.                                          *)

\* The command starts; `update` first asks, without the lock, whether
\* anything is installed, and otherwise answers not-installed at once.
Start(p, o, v) ==
  /\ At(p, "idle") /\ o \in Ops
  /\ o = "update" => selector # None
  /\ Goto(p, "lock")
  /\ op' = [op EXCEPT ![p] = o]
  /\ want' = [want EXCEPT ![p] = v]
  /\ answer' = [answer EXCEPT ![p] = "none"]
  /\ UNCHANGED <<disk, running, lock, base, placed, legacy, proven, faults>>

BugBusy(p) ==
  /\ At(p, "lock") /\ lock # NoProc
  /\ Goto(p, "idle") /\ answer' = [answer EXCEPT ![p] = "busy"]
  /\ lock' = NoProc
  /\ UNCHANGED <<disk, running, locals, proven, faults>>

\* One non-blocking flock: the timeout of both commands is 0.
Acquire(p) ==
  /\ At(p, "lock") /\ lock = NoProc
  /\ lock' = p /\ Goto(p, "migrate")
  /\ UNCHANGED <<disk, running, locals, answer, proven, faults>>

Busy(p) ==
  /\ At(p, "lock") /\ lock # NoProc
  /\ Goto(p, "idle") /\ answer' = [answer EXCEPT ![p] = "busy"]
  /\ UNCHANGED <<disk, running, lock, locals, proven, faults>>

\* The outer `finally` and the release of the lock.
Finish(p) ==
  /\ At(p, "finish")
  /\ scratch' = Unstaged(p)
  /\ lock' = NoProc /\ Goto(p, "idle") /\ Forget(p)
  /\ UNCHANGED <<selector, mark, pending, previous, dir, durable, running,
                 op, want, answer, proven, faults>>

-----------------------------------------------------------------------------
(* removeRollbackLeftovers: first thing under the lock of both commands.    *)

MigrateMarker(p) ==
  /\ At(p, "migrate")
  /\ UNCHANGED <<selector, pending, previous, dir, durable, scratch, running,
                 lock, op, want, base, placed, proven, faults>>
  /\ \/ /\ MarkerIs("invalid")
        /\ Conclude(p, "refused") /\ UNCHANGED <<mark, legacy>>
     \/ /\ MarkerIs("absent")
        /\ Goto(p, "retained") /\ UNCHANGED <<mark, legacy, answer>>
     \/ /\ MarkerIs("not-switched")
        /\ Goto(p, "unmark") /\ UNCHANGED <<mark, legacy, answer>>
     \/ /\ MarkerIs("switched")
        /\ legacy' = [legacy EXCEPT ![p] = running # pending.to]
        /\ mark' = Higher(mark, pending.to)
        /\ Goto(p, IF mark < pending.to THEN "markSync" ELSE "unmark")
        /\ UNCHANGED answer

\* The last step of a durable change in update/: the directory is synced, and
\* with it whatever else changed there.
SyncUpdate(p, from, to) ==
  /\ At(p, from) /\ Goto(p, to)
  /\ durable' = [durable EXCEPT !.mark = mark, !.pending = pending]
  /\ UNCHANGED <<selector, mark, pending, previous, dir, scratch, running, lock,
                 locals, answer, proven, faults>>

BugUnmark(p) ==
  /\ At(p, "unmark") /\ Goto(p, "unmarkSync")
  /\ pending' = IF legacy[p] THEN pending ELSE NoMarker
  /\ UNCHANGED <<selector, mark, previous, dir, durable, scratch, running, lock,
                 locals, answer, proven, faults>>

Unmark(p) ==
  /\ At(p, "unmark") /\ Goto(p, "unmarkSync")
  /\ pending' = NoMarker
  /\ UNCHANGED <<selector, mark, previous, dir, durable, scratch, running, lock,
                 locals, answer, proven, faults>>

BugUnmarkSync(p) ==
  /\ At(p, "unmarkSync") /\ Goto(p, "retained")
  /\ UNCHANGED <<disk, running, lock, locals, answer, proven, faults>>

UnmarkSync(p) == SyncUpdate(p, "unmarkSync", "retained")

Retained(p) ==
  /\ At(p, "retained")
  /\ previous' = None
  /\ Goto(p, IF previous = None THEN "decide" ELSE "retainedSync")
  /\ UNCHANGED <<selector, mark, pending, dir, durable, scratch, running, lock,
                 locals, answer, proven, faults>>

RetainedSync(p) ==
  /\ At(p, "retainedSync") /\ Goto(p, "migratePrune")
  /\ durable' = [durable EXCEPT !.previous = previous]
  /\ UNCHANGED <<selector, mark, pending, previous, dir, scratch, running, lock,
                 locals, answer, proven, faults>>

MigratePrune(p) ==
  /\ At(p, "migratePrune") /\ Goto(p, "decide")
  /\ SetDir(PruneAll)
  /\ UNCHANGED <<selector, mark, pending, previous, durable, scratch, running,
                 lock, locals, answer, faults>>

-----------------------------------------------------------------------------
(* The decision: which version, if any.                                     *)

\* rm(scratch): whatever is in it belongs to a run that is over.
BugEmptyScratch == scratch
EmptyScratch == NoScratch

\* `update`: the verified release is below the floor, not newer, or available.
DecideUpdate(p) ==
  /\ At(p, "decide") /\ op[p] = "update"
  /\ UNCHANGED <<selector, mark, pending, previous, dir, durable, running, lock,
                 op, want, placed, legacy, proven, faults>>
  /\ \/ /\ selector = None
        /\ Conclude(p, "refused") /\ UNCHANGED <<scratch, base>>
     \/ /\ selector # None /\ want[p] < Floor  \* an exact tag
        /\ Conclude(p, "refused") /\ UNCHANGED <<scratch, base>>
     \/ /\ selector # None /\ (want[p] < Floor \/ want[p] <= selector)
        /\ Conclude(p, IF legacy[p] /\ Supervised THEN "unhealthy" ELSE "current")
        /\ UNCHANGED <<scratch, base>>
     \/ /\ selector # None /\ want[p] >= Floor /\ want[p] > selector
        /\ scratch' = EmptyScratch
        /\ base' = [base EXCEPT ![p] = selector]
        /\ Goto(p, "stage") /\ UNCHANGED answer

\* `install`: a first installation, the repair of a lost selector above the
\* surviving mark, the version that is active already, or the offline update.
DecideInstall(p) ==
  /\ At(p, "decide") /\ op[p] = "install"
  /\ UNCHANGED <<disk, running, lock, op, want, placed, legacy, proven, faults>>
  /\ \/ /\ want[p] < Floor
        /\ Conclude(p, "refused") /\ UNCHANGED base
     \/ /\ want[p] = selector
        /\ Conclude(p, "current") /\ UNCHANGED base
     \/ /\ want[p] >= Floor /\ want[p] # selector
        /\ base' = [base EXCEPT ![p] = selector]
        /\ Goto(p, "stage") /\ UNCHANGED answer

-----------------------------------------------------------------------------
(* Staging: scratch, versions/<want>, self-check.                           *)

\* Only the true first installation is trusted through whoever staged it.
NeedsProof(p) == base[p] # None \/ mark # None
AfterStaging(p) == IF NeedsProof(p) THEN "selfCheck" ELSE "switch"

BugStage(p) ==
  /\ At(p, "stage")
  /\ \/ dir[want[p]] = "Intact" /\ Goto(p, "switch") /\ UNCHANGED scratch
     \/ dir[want[p]] # "Intact" /\ scratch' = NoScratch /\ Goto(p, "fetch")
  /\ UNCHANGED <<selector, mark, pending, previous, dir, durable, running, lock,
                 locals, answer, proven, faults>>

\* stagedMatches: those bytes are there already, or a scratch directory is made.
Stage(p) ==
  /\ At(p, "stage")
  /\ \/ /\ dir[want[p]] = "Intact"
        /\ Goto(p, AfterStaging(p)) /\ UNCHANGED scratch
     \/ /\ dir[want[p]] # "Intact"
        \* mkdir refuses a directory that is there; install removes it first.
        /\ op[p] = "install" \/ scratch = NoScratch
        /\ scratch' = NoScratch /\ Goto(p, "fetch")
  /\ UNCHANGED <<selector, mark, pending, previous, dir, durable, running, lock,
                 locals, answer, proven, faults>>

\* downloadArtifact syncs the file it wrote; the copy of `install` is not synced.
Fetch(p) ==
  /\ At(p, "fetch") /\ Goto(p, "place")
  /\ scratch' = [version |-> want[p], synced |-> op[p] = "update"]
  /\ UNCHANGED <<selector, mark, pending, previous, dir, durable, running, lock,
                 locals, answer, proven, faults>>

\* placeVersion: whatever stood there is removed, the candidate renamed in.
Place(p) ==
  /\ At(p, "place") /\ Goto(p, "placeSync")
  /\ SetDir([dir EXCEPT ![want[p]] =
               IF scratch.version = want[p] THEN "Intact" ELSE "Broken"])
  /\ UNCHANGED <<selector, mark, pending, previous, durable, scratch, running,
                 lock, locals, answer, faults>>

BugPlaceSync(p) ==
  /\ At(p, "placeSync") /\ Goto(p, AfterStaging(p))
  /\ placed' = [placed EXCEPT ![p] = TRUE]
  /\ UNCHANGED <<disk, running, lock, op, want, base, legacy, answer, proven, faults>>

PlaceSync(p) ==
  /\ At(p, "placeSync") /\ Goto(p, AfterStaging(p))
  /\ placed' = [placed EXCEPT ![p] = TRUE]
  /\ durable' = [durable EXCEPT !.dir =
       [v \in Versions |->
          CASE v = want[p] -> IF scratch.synced THEN dir[v] ELSE "Broken"
            [] v # want[p] /\ dir[v] = "Absent" -> "Absent"
            [] OTHER -> durable.dir[v]]]
  /\ UNCHANGED <<selector, mark, pending, previous, dir, scratch, running, lock,
                 op, want, base, legacy, answer, proven, faults>>

BugSelfCheck(p) ==
  /\ At(p, "selfCheck") /\ dir[want[p]] = "Intact"
  /\ proven' = proven \cup {want[p]} /\ mark' = Higher(mark, want[p])
  /\ Goto(p, IF op[p] = "update" THEN "unscratch" ELSE "switch")
  /\ UNCHANGED <<selector, pending, previous, dir, durable, scratch, running, lock,
                 locals, answer, faults>>

\* selfCheckStaged, when the executable proves itself.
SelfCheck(p) ==
  /\ At(p, "selfCheck") /\ dir[want[p]] = "Intact"
  /\ proven' = proven \cup {want[p]}
  /\ Goto(p, IF op[p] = "update" THEN "unscratch" ELSE "switch")
  /\ UNCHANGED <<disk, running, lock, locals, answer, faults>>

Unscratch(p) ==
  /\ At(p, "unscratch") /\ Goto(p, "switch")
  /\ scratch' = NoScratch
  /\ UNCHANGED <<selector, mark, pending, previous, dir, durable, running, lock,
                 locals, answer, proven, faults>>

-----------------------------------------------------------------------------
(* activate, and the swap of a first installation.                          *)

Switch(p) ==
  /\ At(p, "switch")
  /\ UNCHANGED <<mark, pending, previous, dir, durable, scratch, running, lock,
                 locals, proven, faults>>
  /\ \/ /\ base[p] # None /\ selector = None
        /\ Conclude(p, "refused") /\ UNCHANGED selector
     \/ /\ base[p] = None \/ selector # None
        /\ selector' = want[p]
        /\ Goto(p, "switchSync") /\ UNCHANGED answer

BugSwitchSync(p) ==
  /\ At(p, "switchSync")
  /\ IF base[p] = None THEN Conclude(p, "installed")
                       ELSE Goto(p, "raise") /\ UNCHANGED answer
  /\ UNCHANGED <<disk, running, lock, locals, proven, faults>>

SwitchSync(p) ==
  /\ At(p, "switchSync")
  /\ durable' = [durable EXCEPT !.selector = selector]
  /\ IF base[p] = None THEN Conclude(p, "installed")
                       ELSE Goto(p, "raise") /\ UNCHANGED answer
  /\ UNCHANGED <<selector, mark, pending, previous, dir, scratch, running, lock,
                 locals, proven, faults>>

\* raiseHighWater: only ever up.
Raise(p) ==
  /\ At(p, "raise")
  /\ mark' = Higher(mark, want[p])
  /\ Goto(p, IF mark < want[p] THEN "raiseSync" ELSE "prune")
  /\ UNCHANGED <<selector, pending, previous, dir, durable, scratch, running,
                 lock, locals, answer, proven, faults>>

BugAfterPrune(p) == Conclude(p, "updated")
AfterPrune(p) == IF Supervised THEN Goto(p, "restart") /\ UNCHANGED answer
                              ELSE Conclude(p, "updated")

Prune(p) ==
  /\ At(p, "prune") /\ AfterPrune(p)
  /\ SetDir(PruneAll)
  /\ UNCHANGED <<selector, mark, pending, previous, durable, scratch, running,
                 lock, locals, faults>>

\* systemctl restart: the unit starts whatever the selector names.
Restart(p) ==
  /\ At(p, "restart") /\ Goto(p, "health")
  /\ running' \in {None, selector}
  /\ UNCHANGED <<disk, lock, locals, answer, proven, faults>>

\* waitForLaunchpad: one poll that sees the version, or the deadline.
Healthy(p) ==
  /\ At(p, "health") /\ running = want[p]
  /\ Conclude(p, "updated")
  /\ UNCHANGED <<disk, running, lock, locals, proven, faults>>

BugUnhealthy(p) ==
  /\ At(p, "health") /\ running \notin {None, want[p]}
  /\ Conclude(p, "unhealthy")
  /\ UNCHANGED <<disk, running, lock, locals, proven, faults>>

Unhealthy(p) ==
  /\ At(p, "health") /\ running # want[p]
  /\ Conclude(p, "unhealthy")
  /\ UNCHANGED <<disk, running, lock, locals, proven, faults>>

-----------------------------------------------------------------------------
(* What goes wrong.                                                         *)

\* What a step that throws may leave of versions/<want>.
AfterError(p) ==
  IF pc[p] = "place" \/ (pc[p] = "selfCheck" /\ placed[p])
  THEN Removal(want[p]) ELSE {dir}

\* A step throws: no network, no space, a rename or a sync that fails, a
\* candidate that does not prove itself.
Fail(p) ==
  /\ pc[p] \in ThrowingSteps /\ Fault
  /\ Conclude(p, "failed")
  /\ scratch' \in {Unstaged(p), scratch}  \* the rm of the `finally` may fail too
  /\ \E d \in AfterError(p) : SetDir(d)
  /\ UNCHANGED <<selector, mark, pending, previous, durable, running, lock, locals>>

\* After the switch an error is swallowed and the next step follows.
RaiseFails(p) ==
  /\ pc[p] \in {"raise", "raiseSync"} /\ Fault
  /\ Goto(p, "prune")
  /\ UNCHANGED <<disk, running, lock, locals, answer, proven>>

PruneFails(p) ==
  /\ Fault
  /\ \/ At(p, "prune") /\ AfterPrune(p)
     \/ At(p, "migratePrune") /\ Goto(p, "decide") /\ UNCHANGED answer
  /\ \E d \in PruneSome : SetDir(d)
  /\ UNCHANGED <<selector, mark, pending, previous, durable, scratch, running,
                 lock, locals>>

RestartFails(p) ==
  /\ At(p, "restart") /\ Fault
  /\ Conclude(p, "unhealthy")
  /\ UNCHANGED <<disk, running, lock, locals, proven>>

\* What a step that is cut off may leave of the directories.
CutOff(p) == IF pc[p] \in {"prune", "migratePrune"} THEN PruneSome ELSE AfterError(p)

\* The process dies, anywhere within its step: the kernel drops its flock,
\* nothing else is cleaned up.
Kill(p) ==
  /\ pc[p] # "idle" /\ Fault
  /\ Goto(p, "idle") /\ Forget(p)
  /\ lock' = IF lock = p THEN NoProc ELSE lock
  /\ \E d \in CutOff(p) : SetDir(d)
  /\ UNCHANGED <<selector, mark, pending, previous, durable, scratch, running,
                 op, want, answer>>

\* Every process is gone and each unsynced change is there or is not.
LosePower ==
  /\ PowerLoss /\ Fault
  /\ selector' \in {selector, durable.selector}
  /\ mark' \in {mark, durable.mark}
  /\ pending' \in {pending, durable.pending}
  /\ previous' \in {previous, durable.previous}
  /\ \E d \in Directories :
       /\ \A v \in Versions : d[v] \in {dir[v], durable.dir[v]}
            \cup (IF dir[v] = durable.dir[v] THEN {} ELSE {"Broken"})
       /\ SetDir(d)
  /\ durable' = [selector |-> selector', mark |-> mark', pending |-> pending',
                 previous |-> previous', dir |-> dir']
  /\ running' = None /\ lock' = NoProc
  /\ pc' = [p \in Procs |-> "idle"]
  /\ base' = [p \in Procs |-> None]
  /\ placed' = [p \in Procs |-> FALSE]
  /\ legacy' = [p \in Procs |-> FALSE]
  /\ UNCHANGED <<scratch, op, want, answer>>

\* The damage `install` repairs: the selector is gone, the rest survived.
LoseSelector ==
  /\ SelectorLoss /\ selector # None /\ Fault
  /\ selector' = None
  /\ durable' = [durable EXCEPT !.selector = None]
  /\ UNCHANGED <<mark, pending, previous, dir, scratch, running, lock, pc, locals,
                 answer, proven>>

\* The service manager, or the user, starts and stops the Launchpad.
LaunchpadStarts ==
  /\ running = None /\ selector # None /\ dir[selector] = "Intact"
  /\ running' = selector
  /\ UNCHANGED <<disk, lock, pc, locals, answer, proven, faults>>

LaunchpadStops ==
  /\ running # None /\ running' = None
  /\ UNCHANGED <<disk, lock, pc, locals, answer, proven, faults>>

-----------------------------------------------------------------------------

\* What p does of itself once it runs.
Migration(p) ==
  \/ MigrateMarker(p) \/ SyncUpdate(p, "markSync", "unmark")
  \/ Unmark(p) \/ UnmarkSync(p)
  \/ Retained(p) \/ RetainedSync(p) \/ MigratePrune(p)

Staging(p) ==
  \/ DecideUpdate(p) \/ DecideInstall(p)
  \/ Stage(p) \/ Fetch(p) \/ Place(p) \/ PlaceSync(p) \/ SelfCheck(p) \/ Unscratch(p)

Activation(p) ==
  \/ Switch(p) \/ SwitchSync(p)
  \/ Raise(p) \/ SyncUpdate(p, "raiseSync", "prune") \/ Prune(p)
  \/ Restart(p) \/ Healthy(p) \/ Unhealthy(p)

Step(p) == Acquire(p) \/ Busy(p) \/ Migration(p) \/ Staging(p) \/ Activation(p)
           \/ Finish(p)

Fails(p) == Fail(p) \/ RaiseFails(p) \/ PruneFails(p) \/ RestartFails(p) \/ Kill(p)

Next ==
  \/ \E p \in Procs : Step(p)
  \/ \E p \in Procs : Fails(p)
  \/ \E p \in Procs, o \in Ops, v \in Versions : Start(p, o, v)
  \/ LosePower \/ LoseSelector
  \/ LaunchpadStarts \/ LaunchpadStops

Spec == Init /\ [][Next]_vars

\* A command that runs goes on: the scheduler, the bounded network and service
\* calls (every one has a deadline).  Nothing makes anyone start a command.
FairSpec == Spec /\ \A p \in Procs : WF_vars(Step(p))

-----------------------------------------------------------------------------
(* Properties.                                                              *)

\* "A crash at any point leaves the old or the new version active, never
\* neither" (docs/update.md): the selector names an executable that is whole,
\* however a placement, a prune or a failed self-check was cut off.
ActiveIntact == selector # None => dir[selector] = "Intact"

\* One process at a time is between the flock and its release, and it is the
\* one the kernel names as holder, through kills and failures.
OneWriter == \A p \in Procs : pc[p] \in LockedSteps <=> lock = p

\* Something is installed and its marker of v0.1.x is one that
\* removeRollbackLeftovers can only refuse as state-invalid, for ever.
Wedged == selector # None /\ MarkerIs("invalid")

\* readMarker calls that combination one "no crash can produce": a single
\* kill, failure or power loss, at any step of any number of commands, does
\* not produce it.  Two faults can: the README tells how.
NoFaultWedges == faults <= 1 => ~Wedged

\* A supervised command that answered `updated` left no older Launchpad
\* running on what it activated.
UpdatedIsServed ==
  \A p \in Procs :
    Supervised /\ answer[p] = "updated" /\ want[p] = selector
      => running \in {None, selector}

\* The mark follows the switch: it only rises, and only to a version whose
\* switch was durable before, so no power loss leaves it above the active one.
MarkFollowsSwitch ==
  [][LosePower \/ mark' = mark
     \/ (mark' > mark /\ durable.selector \in {mark', None})]_vars

\* "Versions only move forward", seen from outside: the updater implements
\* ActiveVersion with the selector as the active version.
AV == INSTANCE ActiveVersion WITH active <- selector
VersionsOnlyMoveForward == AV!Spec

\* A candidate proves itself before the selector names it: wherever an
\* installation exists, what the selector moves to are bytes that passed the
\* self-check after they were placed, even when an earlier, killed run
\* placed them.
ProvenBeforeSwitch ==
  [][LosePower \/ LoseSelector \/ selector' = selector \/ Floor = None
     \/ selector' \in proven]_vars

\* What the holder of the lock decided still stands at every later step, so
\* nothing it read before is stale when it acts on it.
DecisionStands ==
  \A p \in Procs : pc[p] \in BeforeSwitch =>
    want[p] >= mark /\ want[p] > base[p] /\ selector \in {base[p], None}
SwitchStands ==
  \A p \in Procs : pc[p] \in AfterSwitch => selector \in {want[p], None}

\* The candidate about to be selected is whole.
CandidateIntact ==
  \A p \in Procs :
    /\ pc[p] = "place" => scratch.version = want[p]
    /\ pc[p] \in {"placeSync", "selfCheck", "unscratch", "switch"}
         => dir[want[p]] = "Intact"

\* The inductive invariant behind ActiveIntact and VersionsOnlyMoveForward.
UpdateInv ==
  /\ TypeOK /\ OneWriter /\ DecisionStands /\ SwitchStands
  /\ CandidateIntact /\ ActiveIntact

\* Every command ends and answers, whatever the others do.
CommandsEnd ==
  \A p \in Procs : pc[p] # "idle" ~> pc[p] = "idle"

\* "No wedge": once things stop going wrong, a user who keeps asking for the
\* newest release and whose command keeps getting the lock has it active,
\* whatever earlier commands left behind.
NewestArrives ==
  (\E p \in Procs : []<>(lock = p /\ want[p] = Newest)) => <>[](selector = Newest)
=============================================================================
