--------------------------- MODULE Update_proofs ---------------------------
(* Theorems about Update, for any number of processes, versions and faults. *)
EXTENDS Update, TLAPS

-----------------------------------------------------------------------------
(* Facts about the data.                                                    *)

LEMMA VersionFacts ==
  /\ None \in VersionOrNone /\ None \notin Versions
  /\ Versions \subseteq VersionOrNone
  /\ Newest \in Versions
  /\ \A a, b \in VersionOrNone : Higher(a, b) \in VersionOrNone
  BY NewestAssumption DEF None, Versions, VersionOrNone, Higher

\* A version that is not none is one of the versions.
LEMMA SomeVersion ==
  \A v \in VersionOrNone : v # None => v \in Versions
  BY NewestAssumption DEF None, Versions, VersionOrNone

\* A candidate that is above the base is not what an untouched selector names.
LEMMA CandidateNotActive ==
  ASSUME NEW w \in Versions, NEW b \in VersionOrNone, w > b, NEW s \in {b, None}, s # None
  PROVE  s # w
  BY NewestAssumption DEF None, Versions, VersionOrNone

LEMMA RecordFacts ==
  /\ NoMarker \in Markers /\ NoScratch \in Scratches
  /\ \A m \in Markers : m.from \in VersionOrNone /\ m.to \in VersionOrNone
  BY VersionFacts DEF Markers, Scratches, NoMarker, NoScratch

\* One synced field of the durable state.
LEMMA SnapshotFacts ==
  ASSUME NEW s \in Snapshots, NEW v \in VersionOrNone, NEW m \in Markers,
         NEW d \in Directories
  PROVE  /\ [s EXCEPT !.selector = v] \in Snapshots
         /\ [s EXCEPT !.mark = v] \in Snapshots
         /\ [s EXCEPT !.previous = v] \in Snapshots
         /\ [s EXCEPT !.pending = m] \in Snapshots
         /\ [s EXCEPT !.dir = d] \in Snapshots
         /\ s.selector \in VersionOrNone /\ s.mark \in VersionOrNone
         /\ s.previous \in VersionOrNone /\ s.pending \in Markers
         /\ s.dir \in Directories
  BY DEF Snapshots

LEMMA DirectoryFacts ==
  ASSUME NEW d \in Directories, NEW v \in Versions, NEW c \in Contents
  PROVE  [d EXCEPT ![v] = c] \in Directories /\ d[v] \in Contents
  BY DEF Directories

-----------------------------------------------------------------------------
(* Type correctness.                                                        *)

LEMMA InitType == Init => TypeOK
  <1> SUFFICES ASSUME Init PROVE TypeOK
    OBVIOUS
  <1> USE VersionFacts, RecordFacts DEF Init, InitialBase
  <1>1. selector \in VersionOrNone /\ mark \in VersionOrNone
        /\ previous \in VersionOrNone /\ pending \in Markers
    OBVIOUS
  <1>2. dir \in Directories
    BY DEF Directories, Contents
  <1>3. durable \in Snapshots
    BY <1>1, <1>2 DEF Snapshots
  <1>4. scratch \in Scratches /\ running \in VersionOrNone
        /\ lock \in Procs \cup {NoProc}
    BY <1>1
  <1>5. /\ pc \in [Procs -> Steps] /\ op \in [Procs -> {"update", "install"}]
        /\ want \in [Procs -> Versions] /\ base \in [Procs -> VersionOrNone]
        /\ placed \in [Procs -> BOOLEAN] /\ legacy \in [Procs -> BOOLEAN]
        /\ answer \in [Procs -> Answers]
        /\ proven \in SUBSET Versions /\ faults \in 0 .. MaxFaults
    BY FaultsAssumption DEF Steps, Answers
  <1> QED
    BY <1>1, <1>2, <1>3, <1>4, <1>5 DEF TypeOK

\* Every step keeps the types.
LEMMA NextType == ASSUME TypeOK, Next PROVE TypeOK'
  <1> USE VersionFacts, RecordFacts, OpsAssumption
  <1> USE DEF TypeOK, disk, locals, At, Goto, Conclude, Fault, SetDir, Forget, Answers,
              Steps, LockedSteps, MigrationSteps, StageSteps, FinalSteps
  <1>1. ASSUME NEW p \in Procs, Acquire(p) \/ Busy(p) \/ Finish(p)  PROVE TypeOK'
    <2>1. CASE Acquire(p)
      BY <2>1 DEF Acquire
    <2>2. CASE Busy(p)
      BY <2>2 DEF Busy
    <2>3. CASE Finish(p)
      BY <2>3 DEF Finish, Unstaged
    <2> QED
      BY <1>1, <2>1, <2>2, <2>3
  <1>2. ASSUME NEW p \in Procs, Migration(p)  PROVE TypeOK'
    <2>1. CASE MigrateMarker(p)
      <3>1. mark' \in VersionOrNone
        <4>1. mark' = mark \/ mark' = Higher(mark, pending.to)
          BY <2>1 DEF MigrateMarker
        <4>2. mark \in VersionOrNone /\ pending.to \in VersionOrNone
          OBVIOUS
        <4> QED
          BY ONLY <4>1, <4>2, VersionFacts
      <3>2. pc' \in [Procs -> Steps] /\ answer' \in [Procs -> Answers]
            /\ legacy' \in [Procs -> BOOLEAN]
        <4>1. \E s \in {"finish", "retained", "unmark", "markSync"} :
                pc' = [pc EXCEPT ![p] = s]
          BY <2>1 DEF MigrateMarker
        <4>2. answer' = answer \/ answer' = [answer EXCEPT ![p] = "refused"]
          BY <2>1 DEF MigrateMarker
        <4>3. legacy' = legacy \/ \E b \in BOOLEAN : legacy' = [legacy EXCEPT ![p] = b]
          BY <2>1 DEF MigrateMarker
        <4> QED
          BY <4>1, <4>2, <4>3
      <3>3. UNCHANGED <<selector, pending, previous, dir, durable, scratch, running,
                        lock, op, want, base, placed, proven, faults>>
        BY <2>1 DEF MigrateMarker
      <3> QED
        BY <3>1, <3>2, <3>3
    <2>2. CASE SyncUpdate(p, "markSync", "unmark")
      BY <2>2, SnapshotFacts DEF SyncUpdate
    <2>3. CASE Unmark(p)
      BY <2>3 DEF Unmark
    <2>4. CASE UnmarkSync(p)
      BY <2>4, SnapshotFacts DEF UnmarkSync, SyncUpdate
    <2>5. CASE Retained(p)
      BY <2>5 DEF Retained
    <2>6. CASE RetainedSync(p)
      BY <2>6, SnapshotFacts DEF RetainedSync
    <2>7. CASE MigratePrune(p)
      <3>1. PruneAll \in Directories
        BY DEF PruneAll, Directories, Contents
      <3> QED
        BY <2>7, <3>1 DEF MigratePrune
    <2> QED
      BY <1>2, <2>1, <2>2, <2>3, <2>4, <2>5, <2>6, <2>7 DEF Migration
  <1>3. ASSUME NEW p \in Procs, Staging(p)  PROVE TypeOK'
    <2>1. CASE DecideUpdate(p)
      BY <2>1 DEF DecideUpdate, EmptyScratch
    <2>2. CASE DecideInstall(p)
      BY <2>2 DEF DecideInstall
    <2>3. CASE Stage(p)
      BY <2>3 DEF Stage, AfterStaging
    <2>4. CASE Fetch(p)
      BY <2>4 DEF Fetch, Scratches
    <2>5. CASE Place(p)
      <3>1. [dir EXCEPT ![want[p]] =
               IF scratch.version = want[p] THEN "Intact" ELSE "Broken"] \in Directories
        BY DirectoryFacts DEF Contents
      <3> QED
        BY <2>5, <3>1 DEF Place
    <2>6. CASE PlaceSync(p)
      <3>1. [v \in Versions |->
               CASE v = want[p] -> IF scratch.synced THEN dir[v] ELSE "Broken"
                 [] v # want[p] /\ dir[v] = "Absent" -> "Absent"
                 [] OTHER -> durable.dir[v]] \in Directories
        <4>1. dir \in Directories /\ durable.dir \in Directories
          BY SnapshotFacts
        <4> QED
          BY <4>1 DEF Directories, Contents
      <3>2. durable' \in Snapshots
        BY <2>6, <3>1, SnapshotFacts DEF PlaceSync
      <3> QED
        BY <2>6, <3>2 DEF PlaceSync, AfterStaging
    <2>7. CASE SelfCheck(p)
      BY <2>7 DEF SelfCheck
    <2>8. CASE Unscratch(p)
      BY <2>8 DEF Unscratch
    <2> QED
      BY <1>3, <2>1, <2>2, <2>3, <2>4, <2>5, <2>6, <2>7, <2>8 DEF Staging
  <1>4. ASSUME NEW p \in Procs, Activation(p)  PROVE TypeOK'
    <2>1. CASE Switch(p)
      BY <2>1 DEF Switch
    <2>2. CASE SwitchSync(p)
      BY <2>2, SnapshotFacts DEF SwitchSync
    <2>3. CASE Raise(p)
      BY <2>3 DEF Raise
    <2>4. CASE SyncUpdate(p, "raiseSync", "prune")
      BY <2>4, SnapshotFacts DEF SyncUpdate
    <2>5. CASE Prune(p)
      <3>1. PruneAll \in Directories
        BY DEF PruneAll, Directories, Contents
      <3> QED
        BY <2>5, <3>1 DEF Prune, AfterPrune
    <2>6. CASE Restart(p)
      BY <2>6 DEF Restart
    <2>7. CASE Healthy(p)
      BY <2>7 DEF Healthy
    <2>8. CASE Unhealthy(p)
      BY <2>8 DEF Unhealthy
    <2> QED
      BY <1>4, <2>1, <2>2, <2>3, <2>4, <2>5, <2>6, <2>7, <2>8 DEF Activation
  <1>5. ASSUME NEW p \in Procs, Fails(p)  PROVE TypeOK'
    <2> USE FaultsAssumption
    <2>0. AfterError(p) \subseteq Directories
      <3> DEFINE w == want[p]
      <3>0. w \in Versions
        OBVIOUS
      <3>1. Removal(w) \subseteq Directories
        <4> HIDE DEF w
        <4>1. {"Absent", "Broken", dir[w]} \subseteq Contents
          BY <3>0, DirectoryFacts DEF Contents
        <4> QED
          BY <4>1, <3>0, DirectoryFacts DEF Removal
      <3> QED
        BY <3>1 DEF AfterError
    <2>1. CASE Fail(p)
      BY <2>0, <2>1 DEF Fail, Unstaged
    <2>2. CASE RaiseFails(p)
      BY <2>2 DEF RaiseFails
    <2>3. CASE PruneFails(p)
      BY <2>3 DEF PruneFails, PruneSome, AfterPrune
    <2>4. CASE RestartFails(p)
      BY <2>4 DEF RestartFails
    <2>5. CASE Kill(p)
      BY <2>0, <2>5 DEF Kill, CutOff, PruneSome
    <2> QED
      BY <1>5, <2>1, <2>2, <2>3, <2>4, <2>5 DEF Fails
  <1>6. ASSUME NEW p \in Procs, NEW o \in Ops, NEW v \in Versions, Start(p, o, v)
        PROVE TypeOK'
    BY <1>6 DEF Start
  <1>7. ASSUME LosePower  PROVE TypeOK'
    <2>1. /\ selector' \in VersionOrNone /\ mark' \in VersionOrNone
          /\ pending' \in Markers /\ previous' \in VersionOrNone
          /\ dir' \in Directories
      <3>1. /\ durable.selector \in VersionOrNone /\ durable.mark \in VersionOrNone
            /\ durable.pending \in Markers /\ durable.previous \in VersionOrNone
        BY SnapshotFacts
      <3> QED
        BY <1>7, <3>1 DEF LosePower
    <2>2. durable' \in Snapshots
      BY <1>7, <2>1 DEF LosePower, Snapshots
    <2>3. /\ scratch' \in Scratches /\ running' \in VersionOrNone
          /\ lock' \in Procs \cup {NoProc}
          /\ pc' \in [Procs -> Steps] /\ op' \in [Procs -> {"update", "install"}]
          /\ want' \in [Procs -> Versions] /\ base' \in [Procs -> VersionOrNone]
          /\ placed' \in [Procs -> BOOLEAN] /\ legacy' \in [Procs -> BOOLEAN]
          /\ answer' \in [Procs -> Answers]
          /\ proven' \in SUBSET Versions /\ faults' \in 0 .. MaxFaults
      BY <1>7, FaultsAssumption DEF LosePower
    <2> QED
      BY <2>1, <2>2, <2>3
  <1>8. ASSUME LoseSelector  PROVE TypeOK'
    <2>1. selector' \in VersionOrNone /\ durable' \in Snapshots
      BY <1>8, SnapshotFacts DEF LoseSelector
    <2> QED
      BY <1>8, <2>1, FaultsAssumption DEF LoseSelector
  <1>9. ASSUME LaunchpadStarts \/ LaunchpadStops  PROVE TypeOK'
    BY <1>9 DEF LaunchpadStarts, LaunchpadStops
  <1> QED
    BY <1>1, <1>2, <1>3, <1>4, <1>5, <1>6, <1>7, <1>8, <1>9 DEF Next, Step

\* Type correctness of the updater.
THEOREM TypeCorrect == Spec => []TypeOK
  <1>1. TypeOK /\ UNCHANGED vars => TypeOK'
    BY DEF TypeOK, vars
  <1>2. TypeOK /\ [Next]_vars => TypeOK'
    BY <1>1, NextType
  <1> QED
    BY InitType, <1>2, PTL DEF Spec

-----------------------------------------------------------------------------
(* One command at a time holds the lock.                                    *)

LEMMA NextOneWriter == ASSUME TypeOK, OneWriter, Next PROVE OneWriter'
  <1> USE ProcsAssumption
  <1> USE DEF TypeOK, OneWriter, At, Goto, Conclude, locals, disk,
              LockedSteps, MigrationSteps, StageSteps, FinalSteps
  <1>1. ASSUME NEW p \in Procs, Acquire(p) \/ Busy(p) \/ Finish(p)  PROVE OneWriter'
    BY <1>1 DEF Acquire, Busy, Finish
  \* A step of the holder leads to another step of the holder.
  <1>2. ASSUME NEW p \in Procs, lock' = lock, pc[p] \in LockedSteps,
               \E s \in LockedSteps : pc' = [pc EXCEPT ![p] = s]
        PROVE  OneWriter'
    BY <1>2
  <1>3. ASSUME NEW p \in Procs, Migration(p)  PROVE OneWriter'
    BY <1>3, <1>2 DEF Migration, MigrateMarker, SyncUpdate, Unmark, UnmarkSync, Retained,
                      RetainedSync, MigratePrune
  <1>4. ASSUME NEW p \in Procs, Staging(p)  PROVE OneWriter'
    BY <1>4, <1>2 DEF Staging, DecideUpdate, DecideInstall, Stage, Fetch, Place, PlaceSync,
                      SelfCheck, Unscratch, AfterStaging
  <1>5. ASSUME NEW p \in Procs, Activation(p)  PROVE OneWriter'
    BY <1>5, <1>2 DEF Activation, Switch, SwitchSync, Raise, SyncUpdate, Prune, AfterPrune,
                      Restart, Healthy, Unhealthy
  <1>6. ASSUME NEW p \in Procs, Fail(p) \/ RaiseFails(p) \/ PruneFails(p) \/ RestartFails(p)
        PROVE  OneWriter'
    <2>1. CASE Fail(p)
      BY <2>1, <1>2 DEF Fail, ThrowingSteps
    <2>2. CASE RaiseFails(p)
      BY <2>2, <1>2 DEF RaiseFails
    <2>3. CASE PruneFails(p)
      BY <2>3, <1>2 DEF PruneFails, AfterPrune
    <2>4. CASE RestartFails(p)
      BY <2>4, <1>2 DEF RestartFails
    <2> QED
      BY <1>6, <2>1, <2>2, <2>3, <2>4
  <1>7. ASSUME NEW p \in Procs, Kill(p)  PROVE OneWriter'
    BY <1>7 DEF Kill
  <1>8. ASSUME NEW p \in Procs, NEW o \in Ops, NEW v \in Versions, Start(p, o, v)
        PROVE OneWriter'
    BY <1>8 DEF Start
  <1>9. ASSUME LosePower \/ LoseSelector \/ LaunchpadStarts \/ LaunchpadStops
        PROVE  OneWriter'
    BY <1>9 DEF LosePower, LoseSelector, LaunchpadStarts, LaunchpadStops
  <1> QED
    BY <1>1, <1>3, <1>4, <1>5, <1>6, <1>7, <1>8, <1>9 DEF Next, Step, Fails

LEMMA InitOneWriter == Init => OneWriter
  <1>1. Init => lock = NoProc /\ \A p \in Procs : pc[p] = "idle"
    BY DEF Init
  <1>2. "idle" \notin LockedSteps
    BY DEF LockedSteps, MigrationSteps, StageSteps, FinalSteps
  <1> QED
    BY <1>1, <1>2, ProcsAssumption DEF OneWriter

\* Between the flock and its release there is one process, the kernel's holder.
THEOREM MutualExclusion == Spec => []OneWriter
  <1>1. Init => OneWriter
    BY InitOneWriter
  <1>2. TypeOK /\ OneWriter /\ [Next]_vars => OneWriter'
    BY NextOneWriter DEF OneWriter, vars
  <1> QED
    BY <1>1, <1>2, TypeCorrect, PTL DEF Spec

-----------------------------------------------------------------------------
(* What the holder decided.  Nothing here depends on the power: a power     *)
(* loss ends every command.                                                 *)

\* What holds of one process by virtue of the step it is at.
Stands(p) ==
  /\ pc[p] \in BeforeSwitch =>
       want[p] >= mark /\ want[p] > base[p] /\ selector \in {base[p], None}
  /\ pc[p] \in AfterSwitch => selector \in {want[p], None}
  /\ pc[p] = "place" => scratch.version = want[p]
  /\ pc[p] \in {"placeSync", "selfCheck", "unscratch", "switch"}
       => dir[want[p]] = "Intact"

LEMMA StandsAll ==
  (\A p \in Procs : Stands(p)) <=> DecisionStands /\ SwitchStands /\ CandidateIntact
  BY DEF Stands, DecisionStands, SwitchStands, CandidateIntact

\* Whoever is not the holder is at no step about which anything is claimed.
LEMMA OnlyHolder ==
  ASSUME TypeOK, OneWriter, NEW p \in Procs, pc[p] \in LockedSteps, NEW s,
         pc' = [pc EXCEPT ![p] = s], Stands(p)'
  PROVE  \A q \in Procs : Stands(q)'
  <1> TAKE q \in Procs
  <1>1. CASE q = p
    BY <1>1
  <1>2. CASE q # p
    <2>1. pc'[q] = pc[q] /\ pc[q] \notin LockedSteps
      BY <1>2, ProcsAssumption DEF TypeOK, OneWriter
    <2> QED
      BY <2>1 DEF Stands, LockedSteps, BeforeSwitch, AfterSwitch, StageSteps, FinalSteps
  <1> QED
    BY <1>1, <1>2

\* A step that changes nothing those claims speak of, but perhaps ends commands.
LEMMA StandsStill ==
  ASSUME TypeOK, \A p \in Procs : Stands(p),
         UNCHANGED <<selector, mark, scratch>>,
         \A q \in Procs : pc'[q] = pc[q] \/ pc'[q] \notin BeforeSwitch \cup AfterSwitch,
         \A q \in Procs : pc'[q] \in BeforeSwitch \cup AfterSwitch
           => base'[q] = base[q] /\ want'[q] = want[q] /\ dir' = dir
  PROVE  \A p \in Procs : Stands(p)'
  BY DEF Stands, BeforeSwitch, AfterSwitch, StageSteps, FinalSteps

\* What the holder decided stands, whatever fails, dies or loses its power.
LEMMA NextStands ==
  ASSUME TypeOK, OneWriter, \A p \in Procs : Stands(p), Next
  PROVE  \A p \in Procs : Stands(p)'
  <1> DEFINE Goal == \A q \in Procs : Stands(q)'
  <1> USE VersionFacts
  <1> USE DEF At, Goto, Conclude, disk, locals
  <1> HIDE DEF Goal
  <1> USE DEF BeforeSwitch, AfterSwitch, StageSteps, FinalSteps, MigrationSteps
  \* The beginning of a command, and everything outside of one.
  <1>1. ASSUME NEW p \in Procs, Acquire(p) \/ Busy(p)  PROVE Goal
    BY <1>1, StandsStill DEF Goal, Acquire, Busy, TypeOK
  <1>2. ASSUME NEW p \in Procs, NEW o \in Ops, NEW v \in Versions, Start(p, o, v)
        PROVE  Goal
    BY <1>2, StandsStill DEF Goal, Start, TypeOK
  <1>3. ASSUME LaunchpadStarts \/ LaunchpadStops  PROVE Goal
    BY <1>3, StandsStill DEF Goal, LaunchpadStarts, LaunchpadStops
  <1>4. ASSUME LoseSelector  PROVE Goal
    BY <1>4 DEF Goal, LoseSelector, Stands
  <1>5. ASSUME LosePower  PROVE Goal
    BY <1>5 DEF Goal, LosePower, Stands
  <1>6. ASSUME NEW p \in Procs, Kill(p)  PROVE Goal
    <2>1. \A q \in Procs : pc'[q] \in BeforeSwitch \cup AfterSwitch => q # p /\ pc'[q] = pc[q]
      BY <1>6 DEF Kill, TypeOK
    <2>2. CASE pc[p] \in LockedSteps
      <3>1. \A q \in Procs : q # p => pc[q] \notin LockedSteps
        BY <2>2, ProcsAssumption DEF OneWriter
      <3>2. \A q \in Procs : pc'[q] \notin BeforeSwitch \cup AfterSwitch
        BY <2>1, <3>1 DEF LockedSteps
      <3> QED
        BY <1>6, <3>2, StandsStill DEF Goal, Kill
    <2>3. CASE pc[p] \notin LockedSteps
      <3>1. dir' = dir
        BY <1>6, <2>3 DEF Kill, CutOff, AfterError, SetDir, LockedSteps
      <3> QED
        BY <1>6, <2>1, <3>1, StandsStill DEF Goal, Kill, Forget, TypeOK
    <2> QED
      BY <2>2, <2>3
  \* A step of the holder: it is enough to look at the holder.
  <1>7. ASSUME NEW p \in Procs, pc[p] \in LockedSteps,
               \E s : pc' = [pc EXCEPT ![p] = s], Stands(p)'
        PROVE  Goal
    BY <1>7, OnlyHolder DEF Goal
  <1>8. ASSUME NEW p \in Procs, NEW s, s \notin BeforeSwitch \cup AfterSwitch,
               pc' = [pc EXCEPT ![p] = s]
        PROVE  Stands(p)'
    BY <1>8 DEF Stands, TypeOK
  <1>10. ASSUME NEW p \in Procs, Finish(p)  PROVE Goal
    BY <1>10, <1>7, <1>8 DEF Finish, LockedSteps
  <1>11. ASSUME NEW p \in Procs, Migration(p)  PROVE Goal
    BY <1>11, <1>7, <1>8 DEF Migration, MigrateMarker, SyncUpdate, Unmark, UnmarkSync,
                             Retained, RetainedSync, MigratePrune, LockedSteps
  \* The decision is taken on what is on disk, and nobody else changes that.
  <1>12. ASSUME NEW p \in Procs, Staging(p)  PROVE Goal
    <2>1. CASE DecideUpdate(p) \/ DecideInstall(p)
      <3>1. pc[p] \in LockedSteps /\ \E s : pc' = [pc EXCEPT ![p] = s]
        BY <2>1 DEF DecideUpdate, DecideInstall, LockedSteps
      <3>2. Stands(p)'
        BY <2>1, <1>8 DEF DecideUpdate, DecideInstall, Stands, TypeOK, Floor, Higher,
                          VersionOrNone, Versions, None
      <3> QED
        BY <3>1, <3>2, <1>7
    <2>2. CASE Stage(p) \/ Fetch(p) \/ PlaceSync(p) \/ SelfCheck(p) \/ Unscratch(p)
      BY <2>2, <1>7 DEF Stage, Fetch, PlaceSync, SelfCheck, Unscratch, AfterStaging,
                        LockedSteps, Stands, TypeOK
    <2>3. CASE Place(p)
      <3>1. pc[p] \in LockedSteps /\ pc' = [pc EXCEPT ![p] = "placeSync"]
        BY <2>3 DEF Place, LockedSteps
      <3>2. dir'[want[p]] = "Intact"
        BY <2>3 DEF Place, SetDir, Stands, TypeOK, Directories
      <3>3. Stands(p)'
        BY <2>3, <3>1, <3>2 DEF Place, Stands, TypeOK
      <3> QED
        BY <3>1, <3>3, <1>7
    <2> QED
      BY <1>12, <2>1, <2>2, <2>3 DEF Staging
  <1>13. ASSUME NEW p \in Procs, Activation(p)  PROVE Goal
    <2>1. CASE Switch(p) \/ SwitchSync(p)
      BY <2>1, <1>7 DEF Switch, SwitchSync, LockedSteps, Stands, TypeOK
    <2>2. CASE Raise(p) \/ SyncUpdate(p, "raiseSync", "prune")
      BY <2>2, <1>7 DEF Raise, SyncUpdate, LockedSteps, Stands, TypeOK
    <2>3. CASE Prune(p)
      BY <2>3, <1>7 DEF Prune, AfterPrune, LockedSteps, Stands, TypeOK
    <2>4. CASE Restart(p) \/ Healthy(p) \/ Unhealthy(p)
      BY <2>4, <1>7 DEF Restart, Healthy, Unhealthy, LockedSteps, Stands, TypeOK
    <2> QED
      BY <1>13, <2>1, <2>2, <2>3, <2>4 DEF Activation
  <1>14. ASSUME NEW p \in Procs, Fail(p) \/ RaiseFails(p) \/ PruneFails(p) \/ RestartFails(p)
         PROVE  Goal
    <2>1. CASE Fail(p) \/ RestartFails(p)
      BY <2>1, <1>7, <1>8 DEF Fail, RestartFails, ThrowingSteps, LockedSteps
    <2>2. CASE RaiseFails(p)
      BY <2>2, <1>7 DEF RaiseFails, LockedSteps, Stands, TypeOK
    <2>3. CASE PruneFails(p)
      BY <2>3, <1>7 DEF PruneFails, AfterPrune, LockedSteps, Stands, TypeOK
    <2> QED
      BY <1>14, <2>1, <2>2, <2>3
  <1> QED
    BY <1>1, <1>2, <1>3, <1>4, <1>5, <1>6, <1>10, <1>11, <1>12, <1>13, <1>14
       DEF Goal, Next, Step, Fails

-----------------------------------------------------------------------------
(* The active version stays whole as long as the power does.                *)

\* A candidate that is placed or removed is not what the selector names.
LEMMA CandidateApart ==
  ASSUME TypeOK, NEW p \in Procs, Stands(p), pc[p] \in BeforeSwitch, selector # None
  PROVE  selector \in Versions \ {want[p]}
  BY CandidateNotActive, SomeVersion DEF TypeOK, Stands

LEMMA NextActive ==
  ASSUME UpdateInv, Next, ~LosePower
  PROVE  ActiveIntact'
  <1>0. TypeOK /\ ActiveIntact /\ (\A p \in Procs : Stands(p))
    BY StandsAll DEF UpdateInv
  <1>1. dir \in [Versions -> Contents] /\ (selector # None => selector \in Versions)
    BY <1>0, SomeVersion DEF TypeOK, Directories
  <1> USE DEF At, disk, locals
  <1>2. ASSUME UNCHANGED <<selector, dir>>  PROVE ActiveIntact'
    BY <1>0, <1>2 DEF ActiveIntact
  \* What is removed is never what the selector names.
  <1>3. ASSUME UNCHANGED selector, selector # None => dir'[selector] = dir[selector]
        PROVE  ActiveIntact'
    BY <1>0, <1>3 DEF ActiveIntact
  <1>4. selector # None => PruneAll[selector] = dir[selector]
    BY <1>1 DEF PruneAll
  <1>5. ASSUME NEW p \in Procs, Acquire(p) \/ Busy(p) \/ Finish(p)  PROVE ActiveIntact'
    BY <1>5, <1>2 DEF Acquire, Busy, Finish
  <1>6. ASSUME NEW p \in Procs, Migration(p)  PROVE ActiveIntact'
    <2>1. CASE MigratePrune(p)
      BY <2>1, <1>3, <1>4 DEF MigratePrune, SetDir
    <2> QED
      BY <1>6, <2>1, <1>2 DEF Migration, MigrateMarker, SyncUpdate, Unmark, UnmarkSync,
                              Retained, RetainedSync
  <1>7. ASSUME NEW p \in Procs, Staging(p)  PROVE ActiveIntact'
    <2>1. CASE Place(p)
      <3>1. selector # None => selector \in Versions \ {want[p]}
        BY <2>1, <1>0, CandidateApart DEF Place, BeforeSwitch, StageSteps
      <3> QED
        BY <2>1, <3>1, <1>1, <1>3 DEF Place, SetDir
    <2> QED
      BY <1>7, <2>1, <1>2 DEF Staging, DecideUpdate, DecideInstall, Stage, Fetch, PlaceSync,
                              SelfCheck, Unscratch
  <1>8. ASSUME NEW p \in Procs, Activation(p)  PROVE ActiveIntact'
    <2>1. CASE Switch(p)
      BY <2>1, <1>0 DEF Switch, Stands, ActiveIntact
    <2>2. CASE Prune(p)
      BY <2>2, <1>3, <1>4 DEF Prune, SetDir
    <2> QED
      BY <1>8, <2>1, <2>2, <1>2 DEF Activation, SwitchSync, Raise, SyncUpdate, Restart,
                                    Healthy, Unhealthy
  <1>9. ASSUME NEW p \in Procs, Fails(p)  PROVE ActiveIntact'
    \* A candidate that is removed is never the active version.
    <2>1. ASSUME UNCHANGED selector, \E d \in AfterError(p) : SetDir(d)  PROVE ActiveIntact'
      <3>1. CASE dir' = dir
        BY <2>1, <3>1, <1>2
      <3>2. CASE dir' # dir
        <4>1. dir' \in Removal(want[p]) /\ pc[p] \in {"place", "selfCheck"}
          BY <2>1, <3>2 DEF AfterError, SetDir
        <4>2. PICK c \in {"Absent", "Broken", dir[want[p]]} :
                dir' = [dir EXCEPT ![want[p]] = c]
          BY <4>1 DEF Removal
        <4>3. selector # None => selector \in Versions \ {want[p]}
          BY <4>1, <1>0, CandidateApart DEF BeforeSwitch, StageSteps
        <4> QED
          BY <2>1, <4>2, <4>3, <1>1, <1>3
      <3> QED
        BY <3>1, <3>2
    <2>2. ASSUME UNCHANGED selector, \E d \in PruneSome : SetDir(d)  PROVE ActiveIntact'
      BY <2>2, <1>1, <1>3 DEF PruneSome, SetDir
    <2>3. CASE Fail(p) \/ PruneFails(p)
      BY <2>1, <2>2, <2>3 DEF Fail, PruneFails
    <2>4. CASE Kill(p)
      BY <2>1, <2>2, <2>4 DEF Kill, CutOff
    <2> QED
      BY <1>9, <2>3, <2>4, <1>2 DEF Fails, RaiseFails, RestartFails
  <1>10. ASSUME NEW p \in Procs, NEW o \in Ops, NEW v \in Versions, Start(p, o, v)
         PROVE  ActiveIntact'
    BY <1>10, <1>2 DEF Start
  <1>11. ASSUME LaunchpadStarts \/ LaunchpadStops  PROVE ActiveIntact'
    BY <1>11, <1>2 DEF LaunchpadStarts, LaunchpadStops
  <1>12. ASSUME LoseSelector  PROVE ActiveIntact'
    BY <1>12 DEF LoseSelector, ActiveIntact
  <1> QED
    BY <1>5, <1>6, <1>7, <1>8, <1>9, <1>10, <1>11, <1>12 DEF Next, Step

LEMMA InitInv == Init => UpdateInv
  <1> SUFFICES ASSUME Init PROVE UpdateInv
    OBVIOUS
  <1>1. TypeOK /\ OneWriter
    BY InitType, InitOneWriter
  <1>2. \A p \in Procs : pc[p] = "idle"
    BY DEF Init
  <1>3. DecisionStands /\ SwitchStands /\ CandidateIntact
    BY <1>2 DEF DecisionStands, SwitchStands, CandidateIntact, BeforeSwitch, AfterSwitch,
                StageSteps, FinalSteps
  <1>4. ActiveIntact
    BY <1>1, SomeVersion DEF Init, InitialBase, ActiveIntact, TypeOK
  <1> QED
    BY <1>1, <1>3, <1>4 DEF UpdateInv

\* Without a power loss the decisions, the candidate and the active version
\* stand at every step of every interleaving of failing and killed commands.
THEOREM InvariantHolds == ASSUME ~PowerLoss PROVE Spec => []UpdateInv
  <1>0. ~LosePower
    BY DEF LosePower
  <1>1. UpdateInv /\ Next => UpdateInv'
    BY <1>0, NextType, NextOneWriter, NextStands, NextActive, StandsAll DEF UpdateInv, Stands,
       DecisionStands, SwitchStands, CandidateIntact
  <1>2. UpdateInv /\ UNCHANGED vars => UpdateInv'
    BY DEF vars, UpdateInv, TypeOK, OneWriter, DecisionStands, SwitchStands,
           CandidateIntact, ActiveIntact
  <1> QED
    BY InitInv, <1>1, <1>2, PTL DEF Spec

\* "A crash at any point leaves the old or the new version active, never
\* neither": wherever a command fails or is killed, the selector names an
\* executable that is whole.
THEOREM ActiveAlwaysIntact == ASSUME ~PowerLoss PROVE Spec => []ActiveIntact
  <1>1. UpdateInv => ActiveIntact
    BY DEF UpdateInv
  <1> QED
    BY <1>1, InvariantHolds, PTL

-----------------------------------------------------------------------------
(* The updater implements ActiveVersion.                                    *)

LEMMA StepMovesForward ==
  ASSUME UpdateInv, Next, ~PowerLoss
  PROVE  AV!Next \/ UNCHANGED <<selector, mark>>
  <1>0. TypeOK /\ (\A p \in Procs : Stands(p))
    BY StandsAll DEF UpdateInv
  <1> USE DEF At, Goto, Conclude, disk
  \* The switch is to the version that was decided, above the base and the mark.
  <1>1. ASSUME NEW p \in Procs, Switch(p)  PROVE AV!Activate \/ UNCHANGED <<selector, mark>>
    <2>1. CASE selector' = want[p] /\ UNCHANGED mark
      <3>1. /\ want[p] \in Versions /\ base[p] \in VersionOrNone /\ mark \in VersionOrNone
            /\ want[p] >= mark /\ want[p] > base[p] /\ selector \in {base[p], None}
        BY <1>0, <1>1 DEF Switch, Stands, TypeOK, BeforeSwitch
      <3>2. want[p] \in 1 .. Newest /\ want[p] > selector
        BY <3>1, NewestAssumption DEF Versions, VersionOrNone, None
      <3> QED
        BY <2>1, <3>1, <3>2 DEF AV!Activate
    <2> QED
      BY <1>1, <2>1 DEF Switch
  \* The mark rises to what the switch of this command, or of v0.1.x, activated.
  <1>2. ASSUME NEW v \in VersionOrNone, selector \in {v, None},
               mark' = Higher(mark, v), UNCHANGED selector
        PROVE  AV!Record \/ UNCHANGED <<selector, mark>>
    BY <1>0, <1>2, NewestAssumption DEF TypeOK, Higher, VersionOrNone, None, AV!Record
  <1>3. ASSUME NEW p \in Procs, Raise(p)  PROVE AV!Record \/ UNCHANGED <<selector, mark>>
    <2>1. selector \in {want[p], None} /\ want[p] \in VersionOrNone
      BY <1>0, <1>3, VersionFacts DEF Raise, Stands, TypeOK, AfterSwitch, FinalSteps
    <2> QED
      BY <1>2, <1>3, <2>1 DEF Raise
  <1>4. ASSUME NEW p \in Procs, MigrateMarker(p)
        PROVE  AV!Record \/ UNCHANGED <<selector, mark>>
    <2>1. pending.to \in VersionOrNone
      BY <1>0, RecordFacts DEF TypeOK
    <2>2. CASE MarkerIs("switched") /\ mark' = Higher(mark, pending.to)
      BY <1>2, <1>4, <2>1, <2>2 DEF MigrateMarker, MarkerIs
    <2> QED
      BY <1>4, <2>2 DEF MigrateMarker
  <1>5. ASSUME LoseSelector  PROVE AV!Damage
    BY <1>5 DEF LoseSelector, AV!Damage, None
  <1>6. ASSUME NEW p \in Procs, Acquire(p) \/ Busy(p) \/ Finish(p)
        PROVE  UNCHANGED <<selector, mark>>
    BY <1>6 DEF Acquire, Busy, Finish
  <1>7. ASSUME NEW p \in Procs, Migration(p), ~MigrateMarker(p)
        PROVE  UNCHANGED <<selector, mark>>
    BY <1>7 DEF Migration, SyncUpdate, Unmark, UnmarkSync, Retained, RetainedSync, MigratePrune
  <1>8. ASSUME NEW p \in Procs, Staging(p)  PROVE UNCHANGED <<selector, mark>>
    BY <1>8 DEF Staging, DecideUpdate, DecideInstall, Stage, Fetch, Place, PlaceSync, SelfCheck,
                Unscratch
  <1>9. ASSUME NEW p \in Procs, Activation(p), ~Switch(p), ~Raise(p)
        PROVE  UNCHANGED <<selector, mark>>
    BY <1>9 DEF Activation, SwitchSync, SyncUpdate, Prune, Restart, Healthy, Unhealthy
  <1>10. ASSUME NEW p \in Procs, Fails(p)  PROVE UNCHANGED <<selector, mark>>
    BY <1>10 DEF Fails, Fail, RaiseFails, PruneFails, RestartFails, Kill
  <1>11. ASSUME NEW p \in Procs, NEW o \in Ops, NEW v \in Versions, Start(p, o, v)
         PROVE  UNCHANGED <<selector, mark>>
    BY <1>11 DEF Start
  <1>12. ASSUME LaunchpadStarts \/ LaunchpadStops  PROVE UNCHANGED <<selector, mark>>
    BY <1>12 DEF LaunchpadStarts, LaunchpadStops
  <1>13. ~LosePower
    BY DEF LosePower
  <1> QED
    BY <1>1, <1>3, <1>4, <1>5, <1>6, <1>7, <1>8, <1>9, <1>10, <1>11, <1>12, <1>13
       DEF Next, Step, Migration, Activation, AV!Next

\* "Versions only move forward": every behaviour of failing and killed commands
\* is, for whoever only sees the selector and the mark, one of ActiveVersion.
THEOREM ImplementsActiveVersion == ASSUME ~PowerLoss PROVE Spec => VersionsOnlyMoveForward
  <1>1. Init => AV!Init
    BY InitType DEF TypeOK, AV!Init, VersionOrNone
  <1>2. UpdateInv /\ [Next]_vars => [AV!Next]_(AV!vars)
    BY StepMovesForward DEF vars, AV!vars
  <1> QED
    BY <1>1, <1>2, InvariantHolds, PTL DEF Spec, VersionsOnlyMoveForward, AV!Spec
=============================================================================
