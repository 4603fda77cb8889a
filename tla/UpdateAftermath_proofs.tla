---------------------- MODULE UpdateAftermath_proofs ----------------------
(* What a command leaves behind for the next one and for the Launchpad: the *)
(* marker of v0.1.x, the durability of the switch, the proof of a candidate *)
(* and the Launchpad that runs.  Theorems about Update for any number of    *)
(* processes, versions and faults, power losses among the faults.           *)
EXTENDS Update_proofs

-----------------------------------------------------------------------------
(* The invariant: what holds of one process at its step, and of the base.   *)

\* The steps after the one that removes the marker.
MigratedSteps == LockedSteps \ {"migrate", "markSync", "unmark", "finish"}

Follows(p) ==
  /\ pc[p] \in MigratedSteps => pending = NoMarker
  /\ pc[p] \in FinalSteps => durable.selector \in {want[p], None}
  /\ pc[p] \in {"unscratch", "switch"} /\ NeedsProof(p) => want[p] \in proven
  /\ pc[p] \in AfterSwitch => SelectorLoss \/ selector # None
  /\ pc[p] \in FinalSteps => SelectorLoss \/ durable.selector # None

\* The selector of a marked base is durable: v0.1.x switched before this
\* release ran, and this release switches only after the marker is gone.
\* What a power loss leaves is durable.
MarkedIsDurable == pending # NoMarker => durable.selector = selector

\* An `updated` answer is about a version that is not ahead of the active one,
\* nor of what a power loss would make the active one, and a running Launchpad
\* runs the active one if they are the same.
Served(p) ==
  answer[p] = "updated" =>
    /\ want[p] <= selector /\ want[p] <= durable.selector
    /\ want[p] = selector => running \in {None, selector}

AftermathInv ==
  /\ TypeOK /\ OneWriter
  /\ \A p \in Procs : Stands(p)
  /\ \A p \in Procs : Follows(p)
  /\ MarkedIsDurable
  /\ Supervised /\ ~SelectorLoss => \A p \in Procs : Served(p)

LEMMA StepNames ==
  /\ MigratedSteps \subseteq LockedSteps /\ FinalSteps \subseteq MigratedSteps
  /\ AfterSwitch \subseteq MigratedSteps
  /\ {"unscratch", "switch"} \subseteq MigratedSteps
  /\ {"idle", "lock", "migrate", "markSync", "unmark", "finish"} \cap MigratedSteps = {}
  BY DEF MigratedSteps, AfterSwitch, LockedSteps, FinalSteps, StageSteps, MigrationSteps

\* A process that is at no step after the marker has nothing to answer for.
LEMMA FollowsVacuously ==
  ASSUME NEW p \in Procs, pc'[p] \notin MigratedSteps
  PROVE  Follows(p)'
  BY StepNames DEF Follows

\* A step of the holder concerns nobody else.
LEMMA HolderFollows ==
  ASSUME TypeOK, OneWriter, NEW p \in Procs, pc[p] \in LockedSteps, NEW s,
         pc' = [pc EXCEPT ![p] = s], Follows(p)'
  PROVE  \A q \in Procs : Follows(q)'
  <1> TAKE q \in Procs
  <1>1. CASE q = p
    BY <1>1
  <1>2. CASE q # p
    <2>1. pc'[q] = pc[q] /\ pc[q] \notin LockedSteps
      BY <1>2, ProcsAssumption DEF TypeOK, OneWriter
    <2> QED
      BY <2>1, FollowsVacuously, StepNames
  <1> QED
    BY <1>1, <1>2

\* A step that touches nothing of this and at most ends or begins commands.
LEMMA FollowsStill ==
  ASSUME \A p \in Procs : Follows(p),
         UNCHANGED <<selector, mark, pending, durable, proven>>,
         \A q \in Procs : pc'[q] \in MigratedSteps
           => pc'[q] = pc[q] /\ base'[q] = base[q] /\ want'[q] = want[q]
  PROVE  \A p \in Procs : Follows(p)'
  <1> TAKE p \in Procs
  <1>1. CASE pc'[p] \in MigratedSteps
    BY <1>1 DEF Follows, NeedsProof
  <1> QED
    BY <1>1, FollowsVacuously

-----------------------------------------------------------------------------
(* Every step keeps what holds of each process.                             *)

LEMMA NextFollows ==
  ASSUME AftermathInv, Next
  PROVE  \A p \in Procs : Follows(p)'
  <1> DEFINE Goal == \A q \in Procs : Follows(q)'
  <1>0. /\ TypeOK /\ OneWriter /\ (\A p \in Procs : Stands(p))
        /\ (\A p \in Procs : Follows(p))
    BY DEF AftermathInv
  <1> USE <1>0, VersionFacts, StepNames
  <1> USE DEF At, Goto, Conclude, disk, locals
  <1> HIDE DEF Goal
  <1>1. ASSUME NEW p \in Procs, Acquire(p) \/ Busy(p)  PROVE Goal
    BY <1>1, FollowsStill DEF Goal, Acquire, Busy, TypeOK
  <1>2. ASSUME NEW p \in Procs, NEW o \in Ops, NEW v \in Versions, Start(p, o, v)
        PROVE  Goal
    BY <1>2, FollowsStill DEF Goal, Start, TypeOK
  <1>3. ASSUME LaunchpadStarts \/ LaunchpadStops  PROVE Goal
    BY <1>3, FollowsStill DEF Goal, LaunchpadStarts, LaunchpadStops
  <1>4. ASSUME LoseSelector  PROVE Goal
    BY <1>4 DEF Goal, LoseSelector, Follows, NeedsProof, TypeOK, Snapshots
  <1>5. ASSUME LosePower  PROVE Goal
    BY <1>5, FollowsVacuously DEF Goal, LosePower
  <1>6. ASSUME NEW p \in Procs, Kill(p)  PROVE Goal
    <2>1. \A q \in Procs : pc'[q] \in MigratedSteps => q # p /\ pc'[q] = pc[q]
      BY <1>6 DEF Kill, TypeOK
    <2>2. CASE pc[p] \in LockedSteps
      <3>1. \A q \in Procs : q # p => pc[q] \notin LockedSteps
        BY <2>2, ProcsAssumption DEF OneWriter
      <3> QED
        BY <2>1, <3>1, FollowsVacuously DEF Goal
    <2>3. CASE pc[p] \notin LockedSteps
      <3>1. dir' = dir /\ proven' = proven
        BY <1>6, <2>3 DEF Kill, CutOff, AfterError, SetDir, LockedSteps, MigrationSteps,
                          StageSteps, FinalSteps
      <3> QED
        BY <1>6, <2>1, <3>1, FollowsStill DEF Goal, Kill, Forget, TypeOK
    <2> QED
      BY <2>2, <2>3
  \* A step of the holder: it is enough to look at the holder.
  <1>7. ASSUME NEW p \in Procs, pc[p] \in LockedSteps,
               \E s : pc' = [pc EXCEPT ![p] = s], Follows(p)'
        PROVE  Goal
    BY <1>7, HolderFollows DEF Goal
  <1>8. ASSUME NEW p \in Procs, pc[p] \in LockedSteps, NEW s, s \notin MigratedSteps,
               pc' = [pc EXCEPT ![p] = s]
        PROVE  Goal
    BY <1>7, <1>8, FollowsVacuously DEF TypeOK
  <1>10. ASSUME NEW p \in Procs, Finish(p)  PROVE Goal
    BY <1>10, <1>8 DEF Finish, LockedSteps
  <1>11. ASSUME NEW p \in Procs, Migration(p)  PROVE Goal
    <2> USE DEF MigrationSteps, LockedSteps, MigratedSteps, AfterSwitch, FinalSteps, StageSteps
    <2>1. CASE MigrateMarker(p)
      BY <2>1, <1>7 DEF MigrateMarker, MarkerIs, Follows, TypeOK
    <2>2. CASE SyncUpdate(p, "markSync", "unmark")
      BY <2>2, <1>8 DEF SyncUpdate
    <2>3. CASE Unmark(p)
      <3>1. pc[p] \in LockedSteps /\ pc' = [pc EXCEPT ![p] = "unmarkSync"]
            /\ pending' = NoMarker
        BY <2>3 DEF Unmark
      <3>2. pc'[p] = "unmarkSync"
        BY <3>1 DEF TypeOK
      <3>3. Follows(p)'
        BY <3>1, <3>2 DEF Follows
      <3> QED
        BY <3>1, <3>3, <1>7
    <2>4. CASE UnmarkSync(p) \/ Retained(p) \/ RetainedSync(p) \/ MigratePrune(p)
      BY <2>4, <1>7 DEF UnmarkSync, SyncUpdate, Retained, RetainedSync, MigratePrune,
                        Follows, TypeOK
    <2> QED
      BY <1>11, <2>1, <2>2, <2>3, <2>4 DEF Migration
  <1>12. ASSUME NEW p \in Procs, Staging(p)  PROVE Goal
    <2> USE DEF MigrationSteps, LockedSteps, MigratedSteps, AfterSwitch, FinalSteps, StageSteps
    <2>1. CASE DecideUpdate(p) \/ DecideInstall(p)
      BY <2>1, <1>7 DEF DecideUpdate, DecideInstall, Follows, TypeOK
    <2>2. CASE Stage(p) \/ Fetch(p) \/ Place(p) \/ PlaceSync(p)
      BY <2>2, <1>7 DEF Stage, Fetch, Place, PlaceSync, AfterStaging, NeedsProof,
                        Follows, TypeOK
    <2>3. CASE SelfCheck(p) \/ Unscratch(p)
      BY <2>3, <1>7 DEF SelfCheck, Unscratch, NeedsProof, Follows, TypeOK
    <2> QED
      BY <1>12, <2>1, <2>2, <2>3 DEF Staging
  <1>13. ASSUME NEW p \in Procs, Activation(p)  PROVE Goal
    <2> USE DEF MigrationSteps, LockedSteps, MigratedSteps, AfterSwitch, FinalSteps, StageSteps
    <2>1. CASE Switch(p)
      BY <2>1, <1>7 DEF Switch, Follows, TypeOK
    <2>2. CASE SwitchSync(p)
      <3>1. selector \in {want[p], None}
        BY <2>2 DEF SwitchSync, Stands
      <3>2. durable'.selector = selector
        BY <2>2 DEF SwitchSync, TypeOK, Snapshots
      <3> QED
        BY <2>2, <3>1, <3>2, <1>7 DEF SwitchSync, Follows, TypeOK
    <2>3. CASE Raise(p) \/ SyncUpdate(p, "raiseSync", "prune")
      <3>1. /\ pc[p] \in FinalSteps /\ pc[p] \in LockedSteps
            /\ UNCHANGED <<selector, pending, want>>
        BY <2>3 DEF Raise, SyncUpdate
      <3>2. durable'.selector = durable.selector
        BY <2>3 DEF Raise, SyncUpdate, TypeOK, Snapshots
      <3>3. PICK s \in {"raiseSync", "prune"} : pc' = [pc EXCEPT ![p] = s]
        BY <2>3 DEF Raise, SyncUpdate
      <3>4. pc'[p] = s
        BY <3>3 DEF TypeOK
      <3>5. Follows(p)'
        BY <3>1, <3>2, <3>4 DEF Follows
      <3> QED
        BY <3>1, <3>3, <3>5, <1>7
    <2>4. CASE Prune(p)
      BY <2>4, <1>7 DEF Prune, AfterPrune, Follows, TypeOK
    <2>5. CASE Restart(p) \/ Healthy(p) \/ Unhealthy(p)
      BY <2>5, <1>7 DEF Restart, Healthy, Unhealthy, Follows, TypeOK
    <2> QED
      BY <1>13, <2>1, <2>2, <2>3, <2>4, <2>5 DEF Activation
  <1>14. ASSUME NEW p \in Procs, Fail(p) \/ RaiseFails(p) \/ PruneFails(p) \/ RestartFails(p)
         PROVE  Goal
    <2> USE DEF MigrationSteps, LockedSteps, MigratedSteps, AfterSwitch, FinalSteps, StageSteps
    <2>1. CASE Fail(p) \/ RestartFails(p)
      BY <2>1, <1>8 DEF Fail, RestartFails, ThrowingSteps
    <2>2. CASE RaiseFails(p)
      <3>1. /\ pc[p] \in FinalSteps /\ pc[p] \in LockedSteps
            /\ UNCHANGED <<selector, pending, durable, want>>
            /\ pc' = [pc EXCEPT ![p] = "prune"]
        BY <2>2 DEF RaiseFails
      <3>2. pc'[p] = "prune"
        BY <3>1 DEF TypeOK
      <3>3. Follows(p)'
        BY <3>1, <3>2 DEF Follows
      <3> QED
        BY <3>1, <3>3, <1>7
    <2>3. CASE PruneFails(p)
      <3>1. /\ pc[p] \in {"prune", "migratePrune"} /\ pc[p] \in LockedSteps
            /\ UNCHANGED <<selector, pending, durable, want>>
        BY <2>3 DEF PruneFails
      <3>2. PICK s \in {"restart", "finish", "decide"} :
              pc' = [pc EXCEPT ![p] = s] /\ (pc[p] = "migratePrune" <=> s = "decide")
        BY <2>3 DEF PruneFails, AfterPrune
      <3>3. pc'[p] = s
        BY <3>2 DEF TypeOK
      <3>4. Follows(p)'
        BY <3>1, <3>2, <3>3 DEF Follows
      <3> QED
        BY <3>1, <3>2, <3>4, <1>7
    <2> QED
      BY <1>14, <2>1, <2>2, <2>3
  <1> QED
    BY <1>1, <1>2, <1>3, <1>4, <1>5, <1>6, <1>10, <1>11, <1>12, <1>13, <1>14
       DEF Goal, Next, Step, Fails

-----------------------------------------------------------------------------
(* Every step keeps what holds of the base.                                 *)

\* While the marker is there, and the power, nothing moves what it speaks of,
\* except that the selector may be lost.
LEMMA MarkerStep ==
  ASSUME AftermathInv, Next, ~LosePower
  PROVE  \/ UNCHANGED <<selector, pending, previous>> /\ durable'.selector = durable.selector
         \/ pending' = NoMarker
         \/ selector' = None /\ durable'.selector = None
  <1> DEFINE Kept == UNCHANGED <<selector, pending, previous>>
                     /\ durable'.selector = durable.selector
  <1>0. TypeOK /\ (\A p \in Procs : Follows(p))
    BY DEF AftermathInv
  <1>a. durable \in Snapshots
    BY <1>0 DEF TypeOK
  <1> USE DEF At, disk, locals
  <1>1. ASSUME NEW p \in Procs, Acquire(p) \/ Busy(p) \/ Finish(p)  PROVE Kept
    BY <1>1 DEF Acquire, Busy, Finish
  <1>2. ASSUME NEW p \in Procs, Migration(p)  PROVE Kept \/ pending' = NoMarker
    <2>1. CASE MigrateMarker(p) \/ MigratePrune(p)
      BY <2>1 DEF MigrateMarker, MigratePrune
    <2>2. CASE SyncUpdate(p, "markSync", "unmark") \/ UnmarkSync(p)
      BY <2>2, <1>a DEF SyncUpdate, UnmarkSync, Snapshots
    <2>3. CASE Unmark(p)
      BY <2>3 DEF Unmark
    <2>4. CASE Retained(p) \/ RetainedSync(p)
      <3>1. pending = NoMarker
        BY <2>4, <1>0 DEF Retained, RetainedSync, Follows, MigratedSteps, LockedSteps,
                          MigrationSteps
      <3> QED
        BY <2>4, <3>1 DEF Retained, RetainedSync
    <2> QED
      BY <1>2, <2>1, <2>2, <2>3, <2>4 DEF Migration
  <1>3. ASSUME NEW p \in Procs, Staging(p)  PROVE Kept
    <2>1. CASE PlaceSync(p)
      BY <2>1, <1>a DEF PlaceSync, Snapshots
    <2> QED
      BY <1>3, <2>1 DEF Staging, DecideUpdate, DecideInstall, Stage, Fetch, Place, SelfCheck,
                        Unscratch
  <1>4. ASSUME NEW p \in Procs, Activation(p)  PROVE Kept \/ pending' = NoMarker
    <2>1. CASE Switch(p) \/ SwitchSync(p)
      <3>1. pending = NoMarker
        BY <2>1, <1>0 DEF Switch, SwitchSync, Follows, MigratedSteps, LockedSteps
      <3> QED
        BY <2>1, <3>1 DEF Switch, SwitchSync
    <2>2. CASE SyncUpdate(p, "raiseSync", "prune")
      BY <2>2, <1>a DEF SyncUpdate, Snapshots
    <2>3. CASE Raise(p) \/ Prune(p) \/ Restart(p) \/ Healthy(p) \/ Unhealthy(p)
      BY <2>3 DEF Raise, Prune, Restart, Healthy, Unhealthy
    <2> QED
      BY <1>4, <2>1, <2>2, <2>3 DEF Activation
  <1>5. ASSUME NEW p \in Procs, Fails(p)  PROVE Kept
    BY <1>5 DEF Fails, Fail, RaiseFails, PruneFails, RestartFails, Kill
  <1>6. ASSUME NEW p \in Procs, NEW o \in Ops, NEW v \in Versions, Start(p, o, v)  PROVE Kept
    BY <1>6 DEF Start
  <1>7. ASSUME LaunchpadStarts \/ LaunchpadStops  PROVE Kept
    BY <1>7 DEF LaunchpadStarts, LaunchpadStops
  <1>8. ASSUME LoseSelector  PROVE selector' = None /\ durable'.selector = None
    BY <1>8, <1>a DEF LoseSelector, Snapshots
  <1> QED
    BY <1>1, <1>2, <1>3, <1>4, <1>5, <1>6, <1>7, <1>8 DEF Next, Step

LEMMA NextMarker ==
  ASSUME AftermathInv, Next
  PROVE  MarkedIsDurable'
  <1>1. CASE LosePower
    BY <1>1 DEF LosePower, MarkedIsDurable
  <1> QED
    BY <1>1, MarkerStep DEF AftermathInv, MarkedIsDurable

-----------------------------------------------------------------------------
(* Every step keeps what `updated` promised.                                *)

LEMMA ServedStill ==
  ASSUME \A p \in Procs : Served(p), UNCHANGED selector,
         durable'.selector = durable.selector \/ durable'.selector = selector,
         running' = running \/ running' \in {None, selector},
         \A q \in Procs : answer'[q] = "updated"
           => answer[q] = "updated" /\ want'[q] = want[q]
  PROVE  \A p \in Procs : Served(p)'
  BY DEF Served

LEMMA NextServed ==
  ASSUME AftermathInv, Next, Supervised, ~SelectorLoss
  PROVE  \A p \in Procs : Served(p)'
  <1> DEFINE Goal == \A q \in Procs : Served(q)'
  <1>0. /\ TypeOK /\ (\A p \in Procs : Stands(p)) /\ (\A p \in Procs : Follows(p))
        /\ (\A p \in Procs : Served(p))
    BY DEF AftermathInv
  <1> USE DEF At, Goto, Conclude, disk, locals
  <1> HIDE DEF Goal
  \* A step that keeps the selector and the Launchpad, and answers nothing new.
  <1>1. ASSUME UNCHANGED <<selector, want>>,
               durable' = durable \/ durable'.selector \in {durable.selector, selector},
               running' = running \/ running' \in {None, selector},
               answer' = answer \/ \E p \in Procs, a \in Answers \ {"updated"} :
                                     answer' = [answer EXCEPT ![p] = a]
        PROVE  Goal
    BY <1>0, <1>1, ServedStill DEF Goal, TypeOK
  <1>s. durable \in Snapshots
    BY <1>0 DEF TypeOK
  <1> USE DEF Answers
  <1>2. ASSUME NEW p \in Procs, Acquire(p) \/ Busy(p) \/ Finish(p)  PROVE Goal
    BY <1>2, <1>1 DEF Acquire, Busy, Finish
  <1>3. ASSUME NEW p \in Procs, Migration(p)  PROVE Goal
    BY <1>3, <1>1, <1>s DEF Snapshots, Migration, MigrateMarker, SyncUpdate, Unmark, UnmarkSync, Retained,
                      RetainedSync, MigratePrune
  <1>4. ASSUME NEW p \in Procs, Staging(p)  PROVE Goal
    <2>1. CASE PlaceSync(p)
      BY <2>1, <1>1, <1>s DEF PlaceSync, Snapshots
    <2> QED
      BY <1>4, <2>1, <1>1 DEF Staging, DecideUpdate, DecideInstall, Stage, Fetch, Place,
                              SelfCheck, Unscratch
  <1>5. ASSUME NEW p \in Procs, Activation(p)  PROVE Goal
    \* The switch is to a version above every one that was answered `updated`.
    <2>1. CASE Switch(p)
      <3>1. CASE UNCHANGED selector
        BY <2>1, <3>1, <1>1 DEF Switch
      <3>2. CASE selector' = want[p] /\ UNCHANGED answer
        <4>1. /\ want[p] \in Versions /\ base[p] \in VersionOrNone
              /\ want[p] > base[p] /\ selector \in {base[p], None}
          BY <1>0, <2>1 DEF Stands, TypeOK, Switch, BeforeSwitch
        <4>2. want[p] > selector
          BY <4>1, NewestAssumption DEF Versions, VersionOrNone, None
        <4>3. ASSUME NEW q \in Procs, answer[q] = "updated"
              PROVE  /\ want[q] <= selector' /\ want[q] # selector'
                     /\ want[q] <= durable.selector
          <5>1. /\ want[q] \in Versions /\ want[q] <= selector /\ selector \in VersionOrNone
                /\ want[q] <= durable.selector
            BY <1>0, <4>3 DEF TypeOK, Served
          <5> QED
            BY <3>2, <4>1, <4>2, <5>1, NewestAssumption DEF Versions, VersionOrNone
        <4>4. UNCHANGED <<want, durable>>
          BY <2>1 DEF Switch
        <4> QED
          BY <3>2, <4>3, <4>4 DEF Goal, Served
      <3> QED
        BY <2>1, <3>1, <3>2 DEF Switch
    <2>2. CASE SwitchSync(p) \/ Raise(p) \/ SyncUpdate(p, "raiseSync", "prune")
      BY <2>2, <1>1, <1>s DEF SwitchSync, Raise, SyncUpdate, Snapshots
    <2>3. CASE Prune(p) \/ Restart(p) \/ Unhealthy(p)
      BY <2>3, <1>1 DEF Prune, AfterPrune, Restart, Unhealthy
    \* The Launchpad answered with the version, which is the active one.
    <2>4. CASE Healthy(p)
      <3>1. /\ selector \in {want[p], None} /\ selector # None
              /\ durable.selector = want[p]
            /\ want[p] \in Versions
        BY <1>0, <2>4 DEF Healthy, Stands, Follows, TypeOK, AfterSwitch, FinalSteps
      <3>2. want[p] <= selector /\ want[p] <= durable.selector /\ running = selector
        BY <2>4, <3>1, NewestAssumption DEF Healthy, Versions
      <3>3. /\ UNCHANGED <<selector, running, want, durable>>
            /\ \A q \in Procs \ {p} : answer'[q] = answer[q]
        BY <1>0, <2>4 DEF Healthy, TypeOK
      <3> QED
        BY <1>0, <3>2, <3>3 DEF Goal, Served
    <2> QED
      BY <1>5, <2>1, <2>2, <2>3, <2>4 DEF Activation
  <1>6. ASSUME NEW p \in Procs, Fails(p)  PROVE Goal
    BY <1>6, <1>1 DEF Fails, Fail, RaiseFails, PruneFails, AfterPrune, RestartFails, Kill
  \* A new command has not answered.
  <1>7. ASSUME NEW p \in Procs, NEW o \in Ops, NEW v \in Versions, Start(p, o, v)  PROVE Goal
    <2>1. /\ UNCHANGED <<selector, running, durable>> /\ answer'[p] = "none"
          /\ \A q \in Procs \ {p} : answer'[q] = answer[q] /\ want'[q] = want[q]
      BY <1>0, <1>7 DEF Start, TypeOK
    <2> QED
      BY <1>0, <2>1, ServedStill DEF Goal
  <1>8. ASSUME LaunchpadStarts \/ LaunchpadStops  PROVE Goal
    BY <1>8, <1>1 DEF LaunchpadStarts, LaunchpadStops
  \* Whatever the power loss takes back, what was answered was durable.
  <1>9. ASSUME LosePower  PROVE Goal
    BY <1>0, <1>9 DEF LosePower, Goal, Served
  <1>10. ~LoseSelector
    BY DEF LoseSelector
  <1> QED
    BY <1>2, <1>3, <1>4, <1>5, <1>6, <1>7, <1>8, <1>9, <1>10
       DEF Goal, Next, Step

-----------------------------------------------------------------------------
(* The theorems.                                                            *)

LEMMA InitAftermath == Init => AftermathInv
  <1> SUFFICES ASSUME Init PROVE AftermathInv
    OBVIOUS
  <1>1. TypeOK /\ OneWriter /\ (\A p \in Procs : Stands(p))
    BY InitInv, StandsAll DEF UpdateInv
  <1>2. \A p \in Procs : pc[p] = "idle" /\ answer[p] = "none"
    BY DEF Init
  <1>3. \A p \in Procs : Follows(p) /\ Served(p)
    BY <1>2, StepNames DEF Follows, Served
  <1>4. MarkedIsDurable
    BY DEF Init, MarkedIsDurable
  <1> QED
    BY <1>1, <1>3, <1>4 DEF AftermathInv

\* What a command decided, proved and answered stands, whatever fails, is
\* killed or loses its power.
THEOREM AftermathHolds == Spec => []AftermathInv
  <1>1. AftermathInv /\ Next => AftermathInv'
    <2> SUFFICES ASSUME AftermathInv, Next PROVE AftermathInv'
      OBVIOUS
    <2>1. TypeOK' /\ OneWriter' /\ (\A p \in Procs : Stands(p)')
      BY NextType, NextOneWriter, NextStands DEF AftermathInv
    <2> QED
      BY <2>1, NextFollows, NextMarker, NextServed DEF AftermathInv
  <1>2. AftermathInv /\ UNCHANGED vars => AftermathInv'
    BY DEF vars, AftermathInv, TypeOK, OneWriter, Stands, Follows, NeedsProof,
           MarkedIsDurable, Served
  <1> QED
    BY InitAftermath, <1>1, <1>2, PTL DEF Spec

\* Where the Machine keeps its power, no number of kills, failures and lost
\* selectors leaves a marker of v0.1.x that removeRollbackLeftovers can only
\* refuse.
THEOREM NeverWedged == ASSUME ~PowerLoss PROVE Spec => []~Wedged
  <1>1. Init => ~Wedged
    BY DEF Init, InitialBase, LeftByActivation, Wedged
  <1>2. AftermathInv /\ ~Wedged /\ [Next]_vars => ~Wedged'
    <2>1. ~LosePower
      BY DEF LosePower
    <2>2. AftermathInv /\ ~Wedged /\ Next => ~Wedged'
      BY <2>1, MarkerStep DEF Wedged, MarkerIs
    <2>3. ~Wedged /\ UNCHANGED vars => ~Wedged'
      BY DEF vars, Wedged, MarkerIs
    <2> QED
      BY <2>2, <2>3
  <1> QED
    BY <1>1, <1>2, AftermathHolds, PTL DEF Spec

\* A supervised command that answered `updated` left no older Launchpad
\* running on what it activated, unless someone removes the selector.
THEOREM UpdatedAlwaysServed ==
  ASSUME ~SelectorLoss
  PROVE  Spec => []UpdatedIsServed
  <1>1. AftermathInv => UpdatedIsServed
    BY DEF AftermathInv, Served, UpdatedIsServed
  <1> QED
    BY <1>1, AftermathHolds, PTL

\* The mark only rises, and only to a version whose switch was durable before.
THEOREM MarkAfterSwitch == Spec => MarkFollowsSwitch
  <1> DEFINE A == LosePower \/ mark' = mark
                  \/ (mark' > mark /\ durable.selector \in {mark', None})
  <1>1. ASSUME AftermathInv, Next  PROVE A
    <2>0. /\ TypeOK /\ (\A p \in Procs : Stands(p)) /\ (\A p \in Procs : Follows(p))
          /\ MarkedIsDurable
      BY <1>1 DEF AftermathInv
    <2> USE DEF At, disk, locals
    <2>1. ASSUME NEW v \in VersionOrNone, mark' = Higher(mark, v),
                 durable.selector \in {v, None}
          PROVE  A
      BY <2>0, <2>1, NewestAssumption DEF TypeOK, Higher, VersionOrNone
    <2>2. ASSUME NEW p \in Procs, Raise(p)  PROVE A
      <3>1. want[p] \in VersionOrNone /\ durable.selector \in {want[p], None}
        BY <2>0, <2>2, VersionFacts DEF Raise, Follows, TypeOK, FinalSteps
      <3> QED
        BY <2>1, <2>2, <3>1 DEF Raise
    <2>3. ASSUME NEW p \in Procs, MigrateMarker(p)  PROVE A
      <3>1. CASE MarkerIs("switched") /\ mark' = Higher(mark, pending.to)
        <4>1. pending.to \in VersionOrNone /\ durable.selector = pending.to
          BY <2>0, <3>1, RecordFacts DEF MarkerIs, MarkedIsDurable, TypeOK
        <4> QED
          BY <2>1, <3>1, <4>1
      <3> QED
        BY <2>3, <3>1 DEF MigrateMarker
    <2>4. ASSUME NEW p \in Procs, Step(p), ~Raise(p), ~MigrateMarker(p)
          PROVE  UNCHANGED mark
      <3>1. CASE Acquire(p) \/ Busy(p) \/ Finish(p)
        BY <3>1 DEF Acquire, Busy, Finish
      <3>2. CASE Migration(p)
        BY <2>4, <3>2 DEF Migration, SyncUpdate, Unmark, UnmarkSync, Retained, RetainedSync,
                          MigratePrune
      <3>3. CASE Staging(p)
        BY <3>3 DEF Staging, DecideUpdate, DecideInstall, Stage, Fetch, Place, PlaceSync,
                    SelfCheck, Unscratch
      <3>4. CASE Activation(p)
        BY <2>4, <3>4 DEF Activation, Switch, SwitchSync, SyncUpdate, Prune, Restart, Healthy,
                          Unhealthy
      <3> QED
        BY <2>4, <3>1, <3>2, <3>3, <3>4 DEF Step
    <2>5. ASSUME NEW p \in Procs, Fails(p)  PROVE UNCHANGED mark
      BY <2>5 DEF Fails, Fail, RaiseFails, PruneFails, RestartFails, Kill
    <2>6. ASSUME NEW p \in Procs, NEW o \in Ops, NEW v \in Versions, Start(p, o, v)
          PROVE  UNCHANGED mark
      BY <2>6 DEF Start
    <2>7. ASSUME LoseSelector \/ LaunchpadStarts \/ LaunchpadStops  PROVE UNCHANGED mark
      BY <2>7 DEF LoseSelector, LaunchpadStarts, LaunchpadStops
    <2> QED
      BY <1>1, <2>2, <2>3, <2>4, <2>5, <2>6, <2>7 DEF Next
  <1>2. AftermathInv /\ [Next]_vars => [A]_vars
    BY <1>1
  <1> QED
    BY <1>2, AftermathHolds, PTL DEF Spec, MarkFollowsSwitch

\* Wherever an installation exists, the selector only moves to bytes that
\* passed the self-check after they were placed.
THEOREM CandidateAlwaysProven == Spec => ProvenBeforeSwitch
  <1> DEFINE A == LosePower \/ LoseSelector \/ selector' = selector \/ Floor = None
                  \/ selector' \in proven
  <1>1. ASSUME AftermathInv, Next  PROVE A
    <2>0. /\ TypeOK /\ (\A p \in Procs : Stands(p)) /\ (\A p \in Procs : Follows(p))
      BY <1>1 DEF AftermathInv
    <2> USE DEF At, disk, locals
    \* Something is installed or was, so the candidate had to prove itself.
    <2>1. ASSUME NEW p \in Procs, Switch(p), selector' # selector, Floor # None
          PROVE  selector' \in proven
      <3>1. pc[p] = "switch" /\ selector' = want[p]
        BY <2>1 DEF Switch
      <3>2. selector \in {base[p], None}
        BY <2>0, <3>1 DEF Stands, BeforeSwitch
      <3>3. NeedsProof(p)
        BY <2>1, <3>2 DEF NeedsProof, Floor, Higher
      <3> QED
        BY <2>0, <3>1, <3>3 DEF Follows
    <2>2. ASSUME NEW p \in Procs, Step(p), ~Switch(p)  PROVE UNCHANGED selector
      <3>1. CASE Acquire(p) \/ Busy(p) \/ Finish(p)
        BY <3>1 DEF Acquire, Busy, Finish
      <3>2. CASE Migration(p)
        BY <3>2 DEF Migration, MigrateMarker, SyncUpdate, Unmark, UnmarkSync, Retained,
                    RetainedSync, MigratePrune
      <3>3. CASE Staging(p)
        BY <3>3 DEF Staging, DecideUpdate, DecideInstall, Stage, Fetch, Place, PlaceSync,
                    SelfCheck, Unscratch
      <3>4. CASE Activation(p)
        BY <2>2, <3>4 DEF Activation, SwitchSync, Raise, SyncUpdate, Prune, Restart, Healthy,
                          Unhealthy
      <3> QED
        BY <2>2, <3>1, <3>2, <3>3, <3>4 DEF Step
    <2>3. ASSUME NEW p \in Procs, Fails(p)  PROVE UNCHANGED selector
      BY <2>3 DEF Fails, Fail, RaiseFails, PruneFails, RestartFails, Kill
    <2>4. ASSUME NEW p \in Procs, NEW o \in Ops, NEW v \in Versions, Start(p, o, v)
          PROVE  UNCHANGED selector
      BY <2>4 DEF Start
    <2>5. ASSUME LaunchpadStarts \/ LaunchpadStops  PROVE UNCHANGED selector
      BY <2>5 DEF LaunchpadStarts, LaunchpadStops
    <2> QED
      BY <1>1, <2>1, <2>2, <2>3, <2>4, <2>5 DEF Next
  <1>2. AftermathInv /\ [Next]_vars => [A]_vars
    BY <1>1
  <1> QED
    BY <1>2, AftermathHolds, PTL DEF Spec, ProvenBeforeSwitch

-----------------------------------------------------------------------------
(* One power loss.  A power loss may keep any of the unsynced changes and   *)
(* lose any other, so what it leaves is whole only if what it can mix is:   *)
(* these are the invariants of a base on which nothing has failed yet.      *)

\* The candidate is in versions/ and the directory is not synced.
Placing(v) == \E p \in Procs : pc[p] = "placeSync" /\ want[p] = v

\* Every whole executable is durable but the candidate that is being placed,
\* and the durable selector names a whole one.
Steady ==
  /\ \A p \in Procs : op[p] = "update"
  /\ \A p \in Procs : pc[p] \in {"place", "placeSync"} => scratch.synced
  /\ \A v \in Versions : dir[v] = "Intact" => durable.dir[v] = "Intact" \/ Placing(v)
  /\ durable.selector = selector \/ \E p \in Procs : pc[p] = "switchSync"
  /\ durable.selector # None => dir[durable.selector] = "Intact"

\* The marker is durable until it is durably removed, and as long as it can
\* come back, so can what it speaks of, and the two agree.
MarkerKept ==
  /\ pending = durable.pending
       \/ (pending = NoMarker /\ \E p \in Procs : pc[p] = "unmarkSync")
  /\ durable.pending # NoMarker =>
       /\ durable.selector = selector /\ durable.previous = previous
       /\ \/ selector = durable.pending.from
          \/ selector = durable.pending.to /\ previous = durable.pending.from

\* Two steps of one holder are one step.
LEMMA SameHolder ==
  ASSUME OneWriter, NEW p \in Procs, NEW q \in Procs,
         pc[p] \in LockedSteps, pc[q] \in LockedSteps
  PROVE  p = q
  BY DEF OneWriter

\* A step that leaves the disk alone and is not at one of the two syncs.
LEMMA SteadyStill ==
  ASSUME TypeOK, Steady, UNCHANGED <<selector, dir, durable>>,
         \A q \in Procs : op'[q] = "update",
         \A q \in Procs : pc'[q] \in {"place", "placeSync"} => scratch'.synced,
         \A q \in Procs : pc[q] \in {"placeSync", "switchSync"}
           => pc'[q] = pc[q] /\ want'[q] = want[q]
  PROVE  Steady'
  BY DEF Steady, Placing

LEMMA SteadyActive ==
  ASSUME AftermathInv, Steady, ActiveIntact, LosePower
  PROVE  ActiveIntact'
  <1>0. TypeOK /\ OneWriter /\ (\A p \in Procs : Stands(p))
    BY DEF AftermathInv
  <1> SUFFICES ASSUME selector' # None PROVE dir'[selector'] = "Intact"
    BY DEF ActiveIntact
  <1>1. selector' \in {selector, durable.selector} /\ selector' \in Versions
    BY <1>0, SnapshotFacts, SomeVersion DEF LosePower, TypeOK
  <1>2. dir[selector'] = "Intact"
    BY <1>1 DEF ActiveIntact, Steady
  \* Nobody is placing what the selector names, or named before the switch.
  <1>3. ~Placing(selector')
    <2> SUFFICES ASSUME NEW p \in Procs, pc[p] = "placeSync", want[p] = selector' PROVE FALSE
      BY DEF Placing
    <2>1. durable.selector = selector
      BY <1>0, SameHolder DEF Steady, LockedSteps, StageSteps
    <2> QED
      BY <2>1, <1>0, <1>1, CandidateApart DEF BeforeSwitch, StageSteps
  <1>4. durable.dir[selector'] = "Intact"
    BY <1>1, <1>2, <1>3 DEF Steady
  <1> QED
    BY <1>1, <1>2, <1>4 DEF LosePower, SetDir

\* As long as nothing failed, every step of an update keeps the base steady.
LEMMA NextSteady ==
  ASSUME AftermathInv, Steady, ActiveIntact, Next, faults' = 0, Ops \subseteq {"update"}
  PROVE  Steady'
  <1>0. TypeOK /\ OneWriter /\ (\A p \in Procs : Stands(p))
    BY DEF AftermathInv
  <1>a. dir \in [Versions -> Contents] /\ durable \in Snapshots
        /\ durable.dir \in [Versions -> Contents]
        /\ selector \in VersionOrNone /\ durable.selector \in VersionOrNone
    BY <1>0, SnapshotFacts DEF TypeOK, Directories
  <1>b. faults \in Nat
    BY <1>0, FaultsAssumption DEF TypeOK
  <1>c. ~Fault
    BY <1>b DEF Fault
  <1> USE DEF At, Goto, Conclude, disk, locals
  <1>1. ASSUME NEW p \in Procs, Acquire(p) \/ Busy(p)  PROVE Steady'
    BY <1>0, <1>1, SteadyStill DEF Acquire, Busy, TypeOK, Steady
  <1>2. ASSUME NEW p \in Procs, NEW o \in Ops, NEW v \in Versions, Start(p, o, v)
        PROVE  Steady'
    BY <1>0, <1>2, SteadyStill DEF Start, TypeOK, Steady
  <1>3. ASSUME LaunchpadStarts \/ LaunchpadStops  PROVE Steady'
    BY <1>0, <1>3, SteadyStill DEF LaunchpadStarts, LaunchpadStops, Steady
  \* A step of the holder, who is at neither of the two syncs: nobody is.
  <1>4. ASSUME NEW p \in Procs, pc[p] \in LockedSteps \ {"placeSync", "switchSync"}
        PROVE  /\ \A q \in Procs : pc[q] \notin {"placeSync", "switchSync"}
               /\ \A v \in Versions : ~Placing(v)
               /\ durable.selector = selector
               /\ \A v \in Versions : dir[v] = "Intact" => durable.dir[v] = "Intact"
    <2>1. \A q \in Procs : pc[q] \notin {"placeSync", "switchSync"}
      BY <1>0, <1>4, SameHolder DEF LockedSteps, StageSteps
    <2> QED
      BY <2>1 DEF Steady, Placing
  <1>5. ASSUME NEW p \in Procs, pc[p] \in LockedSteps, NEW s, pc' = [pc EXCEPT ![p] = s]
        PROVE  /\ pc'[p] = s
               /\ \A q \in Procs \ {p} : pc'[q] = pc[q] /\ pc[q] \notin LockedSteps
    BY <1>0, <1>5, SameHolder DEF TypeOK
  <1>6. ASSUME NEW p \in Procs, pc[p] \in LockedSteps \ {"place", "placeSync", "switchSync"},
               NEW s, s \notin {"place", "placeSync"}, pc' = [pc EXCEPT ![p] = s],
               UNCHANGED <<selector, op>>, dir' = dir \/ dir' = PruneAll,
               durable'.selector \in {durable.selector, selector},
               durable'.dir = durable.dir
        PROVE  Steady'
    <2>0. pc'[p] = s /\ \A q \in Procs \ {p} : pc'[q] \notin LockedSteps
      BY <1>5, <1>6
    <2>1. \A q \in Procs : pc'[q] \notin {"place", "placeSync"}
      BY <1>6, <2>0 DEF LockedSteps, StageSteps
    <2>2. \A v \in Versions : dir'[v] = "Intact" => dir[v] = "Intact"
      BY <1>6, <1>a DEF PruneAll
    <2>3. durable'.selector = selector /\ durable'.selector = selector'
      BY <1>4, <1>6
    <2>4. selector # None => dir'[selector] = "Intact"
      BY <1>6, <1>a, SomeVersion DEF PruneAll, ActiveIntact
    <2> QED
      BY <1>4, <1>6, <2>1, <2>2, <2>3, <2>4 DEF Steady
  <1>7. ASSUME NEW p \in Procs, Finish(p)  PROVE Steady'
    BY <1>7, <1>6 DEF Finish, LockedSteps, MigrationSteps, StageSteps, FinalSteps
  <1>8. ASSUME NEW p \in Procs, Migration(p)  PROVE Steady'
    <2> USE DEF LockedSteps, MigrationSteps, StageSteps, FinalSteps
    <2>1. CASE MigrateMarker(p)
      BY <2>1, <1>6 DEF MigrateMarker
    <2>2. CASE SyncUpdate(p, "markSync", "unmark") \/ UnmarkSync(p) \/ RetainedSync(p)
      BY <2>2, <1>6, <1>a DEF SyncUpdate, UnmarkSync, RetainedSync, Snapshots
    <2>3. CASE Unmark(p) \/ Retained(p)
      BY <2>3, <1>6 DEF Unmark, Retained
    <2>4. CASE MigratePrune(p)
      BY <2>4, <1>6 DEF MigratePrune, SetDir
    <2> QED
      BY <1>8, <2>1, <2>2, <2>3, <2>4 DEF Migration
  <1>9. ASSUME NEW p \in Procs, Staging(p)  PROVE Steady'
    <2> USE DEF LockedSteps, MigrationSteps, StageSteps, FinalSteps
    <2>1. CASE DecideUpdate(p) \/ DecideInstall(p)
      BY <2>1, <1>6 DEF DecideUpdate, DecideInstall
    <2>2. CASE Stage(p) \/ SelfCheck(p) \/ Unscratch(p)
      BY <2>2, <1>6 DEF Stage, SelfCheck, Unscratch, AfterStaging
    \* The artifact of an update is synced when it was fetched.
    <2>3. CASE Fetch(p)
      <3>1. scratch'.synced
        BY <2>3 DEF Fetch, Steady
      <3> QED
        BY <2>3, <3>1, <1>0, <1>4, SteadyStill DEF Fetch, Steady
    <2>4. CASE Place(p)
      <3>1. /\ pc'[p] = "placeSync" /\ want' = want /\ scratch' = scratch /\ op' = op
            /\ UNCHANGED <<selector, durable>>
            /\ \A q \in Procs \ {p} : pc'[q] = pc[q] /\ pc[q] \notin LockedSteps
        BY <2>4, <1>5 DEF Place
      <3>2. \A v \in Versions \ {want[p]} : dir'[v] = dir[v]
        BY <2>4, <1>a DEF Place, SetDir
      <3>3. selector # None => selector \in Versions \ {want[p]}
        BY <2>4, <1>0, CandidateApart DEF Place, BeforeSwitch
      <3>4. /\ durable.selector = selector
            /\ \A v \in Versions : dir[v] = "Intact" => durable.dir[v] = "Intact"
        BY <2>4, <1>4 DEF Place
      <3>5. Placing(want[p])'
        BY <3>1 DEF Placing
      <3>6. \A q \in Procs : pc'[q] \in {"place", "placeSync"} => scratch'.synced
        BY <2>4, <3>1 DEF Steady, Place
      <3>7. \A v \in Versions : dir'[v] = "Intact" => durable'.dir[v] = "Intact" \/ Placing(v)'
        BY <3>1, <3>2, <3>4, <3>5
      <3> QED
        BY <3>1, <3>2, <3>3, <3>4, <3>6, <3>7 DEF Steady, ActiveIntact
    \* The candidate becomes durable; nobody else was placing anything.
    <2>5. CASE PlaceSync(p)
      <3>1. /\ want' = want /\ scratch' = scratch /\ op' = op /\ UNCHANGED <<selector, dir>>
            /\ \A q \in Procs \ {p} : pc'[q] = pc[q] /\ pc[q] \notin LockedSteps
            /\ pc'[p] \in {"selfCheck", "switch"}
        BY <2>5, <1>5 DEF PlaceSync, AfterStaging
      <3>2. scratch.synced
        BY <2>5 DEF PlaceSync, Steady
      <3>3. \A v \in Versions : Placing(v) => v = want[p]
        BY <2>5, <1>0, SameHolder DEF PlaceSync, Placing
      <3>4. /\ durable'.selector = durable.selector
            /\ \A v \in Versions : durable'.dir[v] =
                 (CASE v = want[p] -> IF scratch.synced THEN dir[v] ELSE "Broken"
                    [] v # want[p] /\ dir[v] = "Absent" -> "Absent"
                    [] OTHER -> durable.dir[v])
        BY <2>5, <1>a DEF PlaceSync, Snapshots
      <3>5. \A v \in Versions : dir'[v] = "Intact" => durable'.dir[v] = "Intact"
        BY <3>1, <3>2, <3>3, <3>4 DEF Steady
      <3>6. durable.selector = selector
        BY <2>5, <1>0, SameHolder DEF PlaceSync, Steady
      <3>7. \A q \in Procs : pc'[q] \notin {"place", "placeSync"}
        BY <3>1
      <3> QED
        BY <3>1, <3>4, <3>5, <3>6, <3>7 DEF Steady
    <2> QED
      BY <1>9, <2>1, <2>2, <2>3, <2>4, <2>5 DEF Staging
  <1>10. ASSUME NEW p \in Procs, Activation(p)  PROVE Steady'
    <2> USE DEF LockedSteps, MigrationSteps, StageSteps, FinalSteps
    <2>1. CASE Switch(p)
      <3>1. CASE UNCHANGED selector /\ pc' = [pc EXCEPT ![p] = "finish"]
        BY <2>1, <3>1, <1>6 DEF Switch
      <3>2. CASE pc' = [pc EXCEPT ![p] = "switchSync"]
        <4>1. /\ pc'[p] = "switchSync"
              /\ \A q \in Procs \ {p} : pc'[q] = pc[q] /\ pc[q] \notin LockedSteps
          BY <2>1, <3>2, <1>5 DEF Switch
        <4>2. \A v \in Versions : dir[v] = "Intact" => durable.dir[v] = "Intact"
          BY <2>1, <1>4 DEF Switch
        <4> QED
          BY <2>1, <4>1, <4>2 DEF Switch, Steady
      <3> QED
        BY <2>1, <3>1, <3>2 DEF Switch
    <2>2. CASE SwitchSync(p)
      <3>1. durable'.selector = selector /\ durable'.dir = durable.dir
            /\ UNCHANGED <<selector, dir, scratch, op, want>>
        BY <2>2, <1>a DEF SwitchSync, Snapshots
      <3>2. \A q \in Procs : pc'[q] \notin {"place", "placeSync"} /\ pc[q] # "placeSync"
        BY <2>2, <1>5 DEF SwitchSync
      <3>3. \A v \in Versions : ~Placing(v)
        BY <3>2 DEF Placing
      <3> QED
        BY <3>1, <3>2, <3>3 DEF Steady, ActiveIntact
    <2>3. CASE Raise(p) \/ SyncUpdate(p, "raiseSync", "prune")
      BY <2>3, <1>6, <1>a DEF Raise, SyncUpdate, Snapshots
    <2>4. CASE Prune(p)
      BY <2>4, <1>6 DEF Prune, SetDir, AfterPrune
    <2>5. CASE Restart(p) \/ Healthy(p) \/ Unhealthy(p)
      BY <2>5, <1>6 DEF Restart, Healthy, Unhealthy
    <2> QED
      BY <1>10, <2>1, <2>2, <2>3, <2>4, <2>5 DEF Activation
  <1>11. ASSUME NEW p \in Procs  PROVE ~Fails(p)
    BY <1>c DEF Fails, Fail, RaiseFails, PruneFails, RestartFails, Kill
  <1>12. ~LosePower /\ ~LoseSelector
    BY <1>c DEF LosePower, LoseSelector
  <1> QED
    BY <1>1, <1>2, <1>3, <1>7, <1>8, <1>9, <1>10, <1>11, <1>12 DEF Next, Step

\* As long as nothing failed, every step keeps the marker and its disk agreed.
LEMMA NextMarkerKept ==
  ASSUME AftermathInv, MarkerKept, Next, faults' = 0
  PROVE  MarkerKept'
  <1>0. TypeOK /\ OneWriter /\ (\A p \in Procs : Follows(p))
    BY DEF AftermathInv
  <1>a. durable \in Snapshots
    BY <1>0 DEF TypeOK
  <1>b. faults \in Nat
    BY <1>0, FaultsAssumption DEF TypeOK
  <1>c. ~Fault
    BY <1>b DEF Fault
  <1> USE DEF At, Goto, Conclude, disk, locals
  <1> DEFINE Same == /\ UNCHANGED <<selector, pending, previous>>
                     /\ durable'.selector = durable.selector
                     /\ durable'.pending = durable.pending
                     /\ durable'.previous = durable.previous
  <1>1. ASSUME Same, \A q \in Procs : pc[q] = "unmarkSync" => pc'[q] = "unmarkSync"
        PROVE  MarkerKept'
    BY <1>1 DEF MarkerKept
  \* A step of the holder, before or after the one that is not durable.
  <1>2. ASSUME NEW p \in Procs, pc[p] \in LockedSteps \ {"unmarkSync"}
        PROVE  /\ pending = durable.pending
               /\ \A q \in Procs : pc[q] # "unmarkSync"
    <2>1. \A q \in Procs : pc[q] # "unmarkSync"
      BY <1>0, <1>2, SameHolder DEF LockedSteps, MigrationSteps
    <2> QED
      BY <2>1 DEF MarkerKept
  <1>3. ASSUME NEW p \in Procs, pc[p] \in LockedSteps \ {"unmarkSync"}, Same
        PROVE  MarkerKept'
    BY <1>1, <1>2, <1>3
  \* After the marker is durably gone nothing is claimed.
  <1>4. ASSUME NEW p \in Procs, pc[p] \in MigratedSteps \ {"unmarkSync"},
               pending' = pending, durable'.pending = durable.pending
        PROVE  MarkerKept'
    <2>1. pending = NoMarker /\ pending = durable.pending
      BY <1>0, <1>2, <1>4, StepNames DEF Follows
    <2> QED
      BY <1>4, <2>1 DEF MarkerKept
  <1>5. ASSUME NEW p \in Procs, NEW from, NEW to, SyncUpdate(p, from, to)  PROVE MarkerKept'
    <2>1. /\ UNCHANGED <<selector, pending, previous>> /\ durable'.pending = pending
          /\ durable'.selector = durable.selector /\ durable'.previous = durable.previous
      BY <1>5, <1>a DEF SyncUpdate, Snapshots
    <2>2. pending # NoMarker => pending = durable.pending
      BY DEF MarkerKept
    <2> QED
      BY <2>1, <2>2 DEF MarkerKept
  <1>6. ASSUME NEW p \in Procs, Acquire(p) \/ Busy(p)  PROVE MarkerKept'
    BY <1>0, <1>1, <1>6 DEF Acquire, Busy, TypeOK
  <1>7. ASSUME NEW p \in Procs, NEW o \in Ops, NEW v \in Versions, Start(p, o, v)
        PROVE  MarkerKept'
    BY <1>0, <1>1, <1>7 DEF Start, TypeOK
  <1>8. ASSUME LaunchpadStarts \/ LaunchpadStops  PROVE MarkerKept'
    BY <1>1, <1>8 DEF LaunchpadStarts, LaunchpadStops
  <1>9. ASSUME NEW p \in Procs, Finish(p)  PROVE MarkerKept'
    BY <1>3, <1>9 DEF Finish, LockedSteps
  <1>10. ASSUME NEW p \in Procs, Migration(p)  PROVE MarkerKept'
    <2> USE DEF LockedSteps, MigratedSteps, MigrationSteps
    <2>1. CASE MigrateMarker(p) \/ MigratePrune(p)
      BY <2>1, <1>3 DEF MigrateMarker, MigratePrune
    <2>2. CASE SyncUpdate(p, "markSync", "unmark") \/ UnmarkSync(p)
      BY <2>2, <1>5 DEF UnmarkSync
    <2>3. CASE Unmark(p)
      <3>1. pc'[p] = "unmarkSync" /\ pending' = NoMarker
            /\ UNCHANGED <<selector, previous, durable>>
        BY <2>3, <1>0 DEF Unmark, TypeOK
      <3> QED
        BY <3>1 DEF MarkerKept
    <2>4. CASE Retained(p)
      <3>1. pending = NoMarker /\ pc[p] \in MigratedSteps \ {"unmarkSync"}
        BY <2>4, <1>0 DEF Retained, Follows
      <3> QED
        BY <2>4, <3>1, <1>4 DEF Retained
    <2>5. CASE RetainedSync(p)
      BY <2>5, <1>4, <1>a DEF RetainedSync, Snapshots
    <2> QED
      BY <1>10, <2>1, <2>2, <2>3, <2>4, <2>5 DEF Migration
  <1>11. ASSUME NEW p \in Procs, Staging(p)  PROVE MarkerKept'
    <2> USE DEF LockedSteps, MigrationSteps, StageSteps
    <2>1. CASE PlaceSync(p)
      BY <2>1, <1>3, <1>a DEF PlaceSync, Snapshots
    <2> QED
      BY <1>11, <2>1, <1>3 DEF Staging, DecideUpdate, DecideInstall, Stage, Fetch, Place,
                               SelfCheck, Unscratch
  <1>12. ASSUME NEW p \in Procs, Activation(p)  PROVE MarkerKept'
    <2> USE DEF LockedSteps, MigratedSteps, MigrationSteps, FinalSteps
    <2>1. CASE Switch(p)
      BY <2>1, <1>4 DEF Switch
    <2>2. CASE SwitchSync(p)
      BY <2>2, <1>4, <1>a DEF SwitchSync, Snapshots
    <2>3. CASE SyncUpdate(p, "raiseSync", "prune")
      BY <2>3, <1>5
    <2>4. CASE Raise(p) \/ Prune(p) \/ Restart(p) \/ Healthy(p) \/ Unhealthy(p)
      BY <2>4, <1>3 DEF Raise, Prune, Restart, Healthy, Unhealthy
    <2> QED
      BY <1>12, <2>1, <2>2, <2>3, <2>4 DEF Activation
  <1>13. ASSUME NEW p \in Procs  PROVE ~Fails(p)
    BY <1>c DEF Fails, Fail, RaiseFails, PruneFails, RestartFails, Kill
  <1>14. ~LosePower /\ ~LoseSelector
    BY <1>c DEF LosePower, LoseSelector
  <1> QED
    BY <1>6, <1>7, <1>8, <1>9, <1>10, <1>11, <1>12, <1>13, <1>14 DEF Next, Step

\* Whatever the power loss mixes, the marker that is left can be read.
LEMMA MarkerReadable ==
  ASSUME MarkerKept, LosePower
  PROVE  ~Wedged'
  <1> SUFFICES ASSUME pending' # NoMarker
               PROVE  \/ selector' = pending'.from
                      \/ selector' = pending'.to /\ previous' = pending'.from
    BY DEF Wedged, MarkerIs
  <1>1. pending' = durable.pending
    BY DEF LosePower, MarkerKept
  <1>2. selector' = selector /\ previous' = previous
    BY <1>1 DEF LosePower, MarkerKept
  <1> QED
    BY <1>1, <1>2 DEF MarkerKept

LEMMA FaultsCount ==
  ASSUME TypeOK, Next
  PROVE  /\ faults \in Nat /\ faults' \in {faults, faults + 1}
         /\ LosePower => faults' = faults + 1
  <1>1. faults \in Nat
    BY FaultsAssumption DEF TypeOK
  <1>2. ASSUME NEW p \in Procs, Step(p)  PROVE faults' = faults
    <2>1. CASE Acquire(p) \/ Busy(p) \/ Finish(p)
      BY <2>1 DEF Acquire, Busy, Finish
    <2>2. CASE Migration(p)
      BY <2>2 DEF Migration, MigrateMarker, SyncUpdate, Unmark, UnmarkSync, Retained,
                  RetainedSync, MigratePrune
    <2>3. CASE Staging(p)
      BY <2>3 DEF Staging, DecideUpdate, DecideInstall, Stage, Fetch, Place, PlaceSync,
                  SelfCheck, Unscratch
    <2>4. CASE Activation(p)
      BY <2>4 DEF Activation, Switch, SwitchSync, Raise, SyncUpdate, Prune, Restart, Healthy,
                  Unhealthy
    <2> QED
      BY <1>2, <2>1, <2>2, <2>3, <2>4 DEF Step
  <1>3. ASSUME NEW p \in Procs, Fails(p)  PROVE faults' = faults + 1
    BY <1>3 DEF Fails, Fail, RaiseFails, PruneFails, RestartFails, Kill, Fault
  <1>4. ASSUME NEW p \in Procs, NEW o \in Ops, NEW v \in Versions, Start(p, o, v)
        PROVE  faults' = faults
    BY <1>4 DEF Start
  <1>5. ASSUME LaunchpadStarts \/ LaunchpadStops  PROVE faults' = faults
    BY <1>5 DEF LaunchpadStarts, LaunchpadStops
  <1>6. LosePower \/ LoseSelector => faults' = faults + 1
    BY DEF LosePower, LoseSelector, Fault
  <1> QED
    BY <1>1, <1>2, <1>3, <1>4, <1>5, <1>6 DEF Next

\* A single power loss at any step of any number of `update` commands leaves
\* the old or the new version active and whole, whichever of the unsynced
\* renames it keeps: versions/ is synced before bin/ is touched.
THEOREM OnePowerLossKeepsActive ==
  ASSUME Ops \subseteq {"update"}
  PROVE  Spec => [](faults <= 1 => ActiveIntact)
  <1> DEFINE K == (faults = 0 => Steady) /\ (faults <= 1 => ActiveIntact)
  <1>1. Init => K
    <2> SUFFICES ASSUME Init PROVE Steady /\ ActiveIntact
      OBVIOUS
    <2>1. ActiveIntact
      BY InitInv DEF UpdateInv
    <2>2. /\ \A p \in Procs : op[p] = "update" /\ pc[p] = "idle"
          /\ durable.selector = selector /\ durable.dir = dir
      BY DEF Init
    <2> QED
      BY <2>1, <2>2 DEF Steady, ActiveIntact
  <1>2. AftermathInv /\ K /\ [Next]_vars => K'
    <2>1. ASSUME AftermathInv, K, Next  PROVE K'
      <3>0. TypeOK /\ OneWriter /\ (\A p \in Procs : Stands(p))
        BY <2>1 DEF AftermathInv
      <3>1. /\ faults \in Nat /\ faults' \in {faults, faults + 1}
            /\ LosePower => faults' = faults + 1
        BY <2>1, <3>0, FaultsCount
      <3>2. ASSUME faults' = 0  PROVE Steady'
        <4>1. Steady /\ ActiveIntact
          BY <2>1, <3>1, <3>2
        <4> QED
          BY <4>1, <2>1, <3>2, NextSteady
      <3>3. ASSUME faults' <= 1, LosePower  PROVE ActiveIntact'
        <4>1. Steady /\ ActiveIntact
          BY <2>1, <3>1, <3>3
        <4> QED
          BY <4>1, <2>1, <3>3, SteadyActive
      <3>4. ASSUME faults' <= 1, ~LosePower  PROVE ActiveIntact'
        <4>1. UpdateInv
          BY <2>1, <3>0, <3>1, <3>4, StandsAll DEF UpdateInv
        <4> QED
          BY <4>1, <2>1, <3>4, NextActive
      <3> QED
        BY <3>2, <3>3, <3>4
    <2>2. K /\ UNCHANGED vars => K'
      BY DEF vars, Steady, Placing, ActiveIntact
    <2> QED
      BY <2>1, <2>2
  <1>3. K => (faults <= 1 => ActiveIntact)
    OBVIOUS
  <1> QED
    BY <1>1, <1>2, <1>3, AftermathHolds, PTL DEF Spec

\* A single fault, a power loss included, leaves no marker of v0.1.x that
\* removeRollbackLeftovers can only refuse: the marker goes, durably, before
\* anything it speaks of does.
THEOREM OneFaultWedgesNothing == Spec => []NoFaultWedges
  <1> DEFINE K == (faults = 0 => MarkerKept) /\ (faults <= 1 => ~Wedged)
  <1>1. Init => K
    BY DEF Init, InitialBase, LeftByActivation, MarkerIs, Wedged, MarkerKept
  <1>2. AftermathInv /\ K /\ [Next]_vars => K'
    <2>1. ASSUME AftermathInv, K, Next  PROVE K'
      <3>0. TypeOK
        BY <2>1 DEF AftermathInv
      <3>1. /\ faults \in Nat /\ faults' \in {faults, faults + 1}
            /\ LosePower => faults' = faults + 1
        BY <2>1, <3>0, FaultsCount
      <3>2. ASSUME faults' = 0  PROVE MarkerKept'
        BY <2>1, <3>1, <3>2, NextMarkerKept
      <3>3. ASSUME faults' <= 1, LosePower  PROVE ~Wedged'
        BY <2>1, <3>1, <3>3, MarkerReadable
      <3>4. ASSUME faults' <= 1, ~LosePower  PROVE ~Wedged'
        <4>1. ~Wedged
          BY <2>1, <3>1, <3>4
        <4> QED
          BY <4>1, <2>1, <3>4, MarkerStep DEF Wedged, MarkerIs
      <3> QED
        BY <3>2, <3>3, <3>4
    <2>2. K /\ UNCHANGED vars => K'
      BY DEF vars, MarkerKept, Wedged, MarkerIs
    <2> QED
      BY <2>1, <2>2
  <1>3. K => NoFaultWedges
    BY DEF NoFaultWedges
  <1> QED
    BY <1>1, <1>2, <1>3, AftermathHolds, PTL DEF Spec
=============================================================================
