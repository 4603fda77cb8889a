---------------------------- MODULE FolderChange ----------------------------
(***************************************************************************)
(* A change of the generated Folder (src/folder): every output, the         *)
(* preferences and the manifest are staged in .lazurio/transaction, renamed *)
(* one by one in a fixed order, and the journal is archived.  A change may  *)
(* stop at every step, by an error, a kill or a power loss, and is then     *)
(* resumed or, before it was prepared, retired.                             *)
(*                                                                          *)
(* The Folder's operation lock lets one command run at a time; the person   *)
(* edits files at any moment, and takes no lock.  What a file says is       *)
(* abstracted to the revision that rendered it and whether the person       *)
(* changed it since; its identity (dev, ino) is a number used once.         *)
(*                                                                          *)
(* Meanwhile the product may be updated: every command works with the       *)
(* templates of the executable it was started from.  (A supervised update   *)
(* refuses a Folder whose journal is pending; an unsupervised one, on the   *)
(* person's own computer, does not look at the Folder.)                     *)
(***************************************************************************)
EXTENDS Naturals

CONSTANTS
  N,          \* generated outputs
  Unowned,    \* outputs the first manifest does not own (schema 2)
  Templates,  \* template revisions 1 .. Templates are released in this order
  MaxInodes,  \* bound: staged generations and files the person puts in place
  MaxEdits,   \* bound: what the person does to the outputs
  MaxFaults   \* bound: errors, kills and power losses

ASSUME OutputsAssumption == N \in Nat \ {0}
ASSUME TemplatesAssumption == Templates \in Nat \ {0}
ASSUME UnownedAssumption == Unowned \subseteq 1 .. N
ASSUME BoundsAssumption ==
  MaxInodes \in Nat \ {0} /\ MaxEdits \in Nat /\ MaxFaults \in Nat

\* The fixed replacement order: outputs, preferences, manifest last.
Outputs == 1 .. N
Items == 1 .. N + 2
Manifest == N + 2

\* The staging order: before.json, preferences, manifest, outputs, prepared.json.
Prepared == N + 4

Inodes == 0 .. MaxInodes
Revisions == 1 .. MaxInodes
RevisionOrNone == 0 .. MaxInodes
Files == [rev : RevisionOrNone, ino : Inodes, edited : BOOLEAN]
Absent == [rev |-> 0, ino |-> 0, edited |-> FALSE]

\* partial: the staged file written last may still be incomplete.
Transactions == [id : Inodes, next : RevisionOrNone, before : [Items -> Inodes],
                 staged : 0 .. Prepared, partial : BOOLEAN, moved : 0 .. N + 2]
NoTransaction == [id |-> 0, next |-> 0, before |-> [i \in Items |-> 0],
                  staged |-> 0, partial |-> FALSE, moved |-> 0]
Disks == [active : [Items -> Files], tx : Transactions,
          archive : [Revisions -> Inodes], buddy : RevisionOrNone]

VARIABLES
  disk,       \* the Folder: files, transaction, archive, Buddy's layer
  survivors,  \* what a power loss may leave: the disk since the last sync
  pc,         \* the step the command takes next
  op,         \* the command that runs
  product,    \* the template revision of the active product version
  own,        \* the template revision of the executable that runs the command
  template,   \* template[k]: the revision that rendered generation k
  target,     \* its expected or target revision; 0: whatever is current
  item,       \* loop index of the replacements
  made,       \* the last inode number used
  answer,     \* how the last command ended
  known,      \* history: the highest revision a caller or reader was told
  unseen,     \* history: outputs the person touched since the last inspection
  edits, faults

executables == <<product, own, template>>
vars == <<disk, survivors, pc, op, target, item, made, answer, known, unseen,
          edits, faults, product, own, template>>

Rev(d) == d.active[Manifest].rev
Pending(d) == d.tx.id # 0
IsPrepared(d) == d.tx.staged = Prepared /\ ~d.tx.partial
Applied(d) == d.tx.moved = N + 2

Steps == {"idle", "plan", "mkdirSync", "open", "write", "verify", "inspect",
          "move", "moveSync", "settle", "finalize", "archive", "archiveSync",
          "sealed", "buddy", "resume", "retire", "retireSync"}
Commands == {"change", "resume", "retire"}
Answers == {"none", "failed", "blocked", "unchanged", "updated", "recovered",
            "retired"}

\* Every variable stays in its set, and what a power loss may leave is a Folder.
TypeOK ==
  /\ disk \in Disks
  /\ survivors \in SUBSET Disks
  /\ pc \in Steps
  /\ op \in Commands
  /\ target \in RevisionOrNone
  /\ item \in Items
  /\ made \in Revisions
  /\ answer \in Answers
  /\ known \in Revisions
  /\ unseen \in SUBSET Outputs
  /\ edits \in 0 .. MaxEdits
  /\ faults \in 0 .. MaxFaults
  /\ product \in 1 .. Templates
  /\ own \in 1 .. Templates
  /\ template \in [Inodes -> 1 .. Templates]

Init ==
  /\ disk = [active |-> [i \in Items |->
                           IF i \in Unowned THEN Absent
                           ELSE [rev |-> 1, ino |-> 1, edited |-> FALSE]],
             tx |-> NoTransaction,
             archive |-> [r \in Revisions |-> 0],
             buddy |-> 1]
  /\ survivors = {disk}
  /\ pc = "idle" /\ op = "change" /\ target = 0 /\ item = 1 /\ made = 1
  /\ answer = "none" /\ known = 1 /\ unseen = {}
  /\ edits = 0 /\ faults = 0
  /\ product = 1 /\ own = 1 /\ template = [k \in Inodes |-> 1]

-----------------------------------------------------------------------------
(* Helpers.                                                                 *)

\* The Folder's filesystem keeps the order of metadata changes (the lock      *)
\* refuses any other): a power loss undoes the changes since the last         *)
\* directory sync from the end.
Put(d) == disk' = d /\ survivors' = survivors \cup {d}
BugBarrier == UNCHANGED <<disk, survivors>>

\* A directory sync.
Barrier == survivors' = {disk} /\ UNCHANGED disk
SameDisk == UNCHANGED <<disk, survivors>>

Conclude(a) == pc' = "idle" /\ answer' = a
Inspected == unseen' = {}

\* The highest revision somebody relies on.
Tell(r) == known' = IF r > known THEN r ELSE known

\* An output the manifest owns has the recorded bytes; one it does not own is
\* not there at all.
Undrifted(d) == \A i \in Items : ~d.active[i].edited

\* The journal's view of one item: consumed stages are in place, the others
\* still have the file they had before.
Matches(d, i) ==
  /\ ~d.active[i].edited
  /\ d.active[i].ino = IF i <= d.tx.moved THEN d.tx.id ELSE d.tx.before[i]

Complete(d) == IsPrepared(d) /\ \A i \in Items : Matches(d, i)

\* inspectProgress of the pending transaction.  It plans the change again, with
\* its own templates, and compares every byte.
InspectOK(d) == Complete(d) /\ template[d.tx.id] = own

\* inspectProgress of the archive of revision r.
ArchiveOK(d, r) ==
  /\ d.archive[r] # 0
  /\ template[d.archive[r]] = own
  /\ \A i \in Items : ~d.active[i].edited /\ d.active[i].ino = d.archive[r]

-----------------------------------------------------------------------------
(* Commands.  Begin takes the operation lock, for an executable that may have *)
(* been started before the last update of the product.                      *)

Begin(o, t) ==
  /\ pc = "idle"
  /\ pc' = IF o = "change" THEN "plan" ELSE o
  /\ op' = o /\ target' = t /\ item' = 1 /\ answer' = "none"
  /\ own' \in 1 .. product
  /\ UNCHANGED <<disk, survivors, made, known, unseen, edits, faults, product,
                 template>>

\* The template revision the Folder's manifest records.
Rendered(d) == template[d.active[Manifest].ino]

BugMayChange == ~Pending(disk) /\ Undrifted(disk) /\ Rendered(disk) <= own
BugNewerTemplate ==
  ~Pending(disk) /\ target \in {0, Rev(disk)} /\ Undrifted(disk)
MayChange ==
  /\ ~Pending(disk) /\ target \in {0, Rev(disk)}
  /\ Rendered(disk) <= own
  /\ Undrifted(disk)

\* readFolderState and the planner: a pending journal, a stale revision, a newer
\* template and a drifted file refuse; nothing to change goes on to Buddy's layer.
PlanRefuses ==
  /\ pc = "plan" /\ ~MayChange
  /\ Conclude(IF Pending(disk) THEN "failed" ELSE "blocked")
  /\ UNCHANGED <<disk, survivors, op, target, item, made, known, unseen,
                 edits, faults, executables>>

PlanUnchanged ==
  /\ pc = "plan" /\ MayChange /\ Rendered(disk) = own
  /\ pc' = "buddy" /\ answer' = "unchanged" /\ Inspected
  /\ UNCHANGED <<disk, survivors, op, target, item, made, known, edits,
                 faults, executables>>

BugPlanChange ==
  /\ pc = "plan" /\ MayChange /\ made < MaxInodes
  /\ Put([disk EXCEPT !.tx =
            [NoTransaction EXCEPT
               !.id = made + 1, !.next = made + 1,
               !.before = [i \in Items |-> disk.active[i].ino]]])
  /\ made' = made + 1
  /\ template' = [template EXCEPT ![made + 1] = own]
  /\ pc' = "mkdirSync" /\ Inspected
  /\ UNCHANGED <<op, target, item, answer, known, edits, faults, product, own>>

\* The plan, the identities before it, and the exclusive mkdir.
PlanChange ==
  /\ pc = "plan" /\ MayChange /\ made < MaxInodes
  /\ Put([disk EXCEPT !.tx =
            [NoTransaction EXCEPT
               !.id = made + 1, !.next = Rev(disk) + 1,
               !.before = [i \in Items |-> disk.active[i].ino]]])
  /\ made' = made + 1
  /\ template' = [template EXCEPT ![made + 1] = own]
  /\ pc' = "mkdirSync" /\ Inspected
  /\ UNCHANGED <<op, target, item, answer, known, edits, faults, product, own>>

\* The directory syncs, each with the step that follows it.
Sync(from, to) ==
  /\ pc = from /\ pc' = to
  /\ Barrier
  /\ UNCHANGED <<op, target, item, made, answer, known, unseen, edits, faults,
                 executables>>

\* writeNew: the next file of the staging order is created, then written.
Open ==
  /\ pc = "open" /\ pc' = "write"
  /\ Put([disk EXCEPT !.tx.staged = @ + 1, !.tx.partial = TRUE])
  /\ UNCHANGED <<op, target, item, made, answer, known, unseen, edits, faults,
                 executables>>

\* After prepared.json the transaction directory is synced as well.
Write ==
  /\ pc = "write"
  /\ LET d == [disk EXCEPT !.tx.partial = FALSE]
     IN IF disk.tx.staged = Prepared
        THEN disk' = d /\ survivors' = {d} /\ pc' = "inspect"
        ELSE Put(d) /\ pc' = IF disk.tx.staged = N + 3 THEN "verify" ELSE "open"
  /\ UNCHANGED <<op, target, item, made, answer, known, unseen, edits, faults,
                 executables>>

\* Nothing changed during the preparation, or the attempt is left behind.
Verify ==
  /\ pc = "verify"
  /\ IF \A i \in Outputs : Matches(disk, i)
     THEN pc' = "open" /\ UNCHANGED answer
     ELSE Conclude("failed")
  /\ Inspected
  /\ UNCHANGED <<disk, survivors, op, target, item, made, known, edits,
                 faults, executables>>

-----------------------------------------------------------------------------
(* applyPreparationLocked                                                   *)

BugInspect ==
  /\ pc = "inspect"
  /\ pc' = IF item <= disk.tx.moved THEN "moveSync" ELSE "move"
  /\ Inspected
  /\ UNCHANGED <<disk, survivors, op, target, item, made, answer, known,
                 edits, faults, executables>>

BugInspectFresh ==
  /\ pc = "inspect"
  /\ IF InspectOK(disk) /\ item > disk.tx.moved
     THEN pc' = "move" /\ UNCHANGED answer
     ELSE Conclude("failed")
  /\ Inspected
  /\ UNCHANGED <<disk, survivors, op, target, item, made, known, edits,
                 faults, executables>>

\* One turn of the loop: the whole journal is validated before every rename.
Inspect ==
  /\ pc = "inspect"
  /\ IF InspectOK(disk)
     THEN /\ pc' = IF item <= disk.tx.moved THEN "moveSync" ELSE "move"
          /\ UNCHANGED answer
     ELSE Conclude("failed")
  /\ Inspected
  /\ UNCHANGED <<disk, survivors, op, target, item, made, known, edits,
                 faults, executables>>

BugMove ==
  /\ pc = "move" /\ pc' = "moveSync"
  /\ Put([disk EXCEPT
            !.active[Manifest + 1 - item] = [rev |-> disk.tx.next,
                                             ino |-> disk.tx.id, edited |-> FALSE],
            !.tx.moved = item])
  /\ UNCHANGED <<op, target, item, made, answer, known, unseen, edits, faults,
                 executables>>

\* rename replaces whatever is there at this moment.
Move ==
  /\ pc = "move" /\ pc' = "moveSync"
  /\ Put([disk EXCEPT
            !.active[item] = [rev |-> disk.tx.next, ino |-> disk.tx.id,
                              edited |-> FALSE],
            !.tx.moved = item])
  /\ UNCHANGED <<op, target, item, made, answer, known, unseen, edits, faults,
                 executables>>

BugMoveSync ==
  /\ pc = "moveSync"
  /\ item' = item + 1
  /\ pc' = IF item > Manifest THEN "settle" ELSE "inspect"
  /\ Barrier
  /\ UNCHANGED <<op, target, made, answer, known, unseen, edits, faults,
                 executables>>

MoveSync ==
  /\ pc = "moveSync"
  /\ IF item = Manifest THEN pc' = "settle" /\ UNCHANGED item
                        ELSE pc' = "inspect" /\ item' = item + 1
  /\ Barrier
  /\ UNCHANGED <<op, target, made, answer, known, unseen, edits, faults,
                 executables>>

Settle == Sync("settle", "finalize")

-----------------------------------------------------------------------------
(* finalizePreparationLocked, and Buddy's layer.                            *)

Finalize ==
  /\ pc = "finalize"
  /\ IF InspectOK(disk) /\ Applied(disk)
     THEN pc' = "archive" /\ UNCHANGED answer
     ELSE Conclude("failed")
  /\ Inspected
  /\ UNCHANGED <<disk, survivors, op, target, item, made, known, edits,
                 faults, executables>>

BugArchive ==
  /\ pc = "archive"
  /\ IF InspectOK(disk) /\ Applied(disk)
     THEN /\ Put([disk EXCEPT !.tx = NoTransaction,
                              !.archive[disk.tx.next - 1] = disk.tx.id])
          /\ pc' = "archiveSync" /\ UNCHANGED answer
     ELSE Conclude("failed") /\ SameDisk
  /\ Inspected
  /\ UNCHANGED <<op, target, item, made, known, edits, faults, executables>>

\* The journal is validated again and moved, never over an existing archive.
Archive ==
  /\ pc = "archive"
  /\ IF InspectOK(disk) /\ Applied(disk) /\ disk.archive[disk.tx.next] = 0
     THEN /\ Put([disk EXCEPT !.tx = NoTransaction,
                              !.archive[disk.tx.next] = disk.tx.id])
          /\ pc' = "archiveSync" /\ UNCHANGED answer
     ELSE Conclude("failed") /\ SameDisk
  /\ Inspected
  /\ UNCHANGED <<op, target, item, made, known, edits, faults, executables>>

ArchiveSync == Sync("archiveSync", "sealed")

\* The revision the command closes: the one it prepared, or was told to resume.
Goal == IF op = "resume" THEN target ELSE Rev(disk)

Sealed ==
  /\ pc = "sealed"
  /\ \/ ~ArchiveOK(disk, Goal) /\ Conclude("failed") /\ UNCHANGED known
     \/ /\ ArchiveOK(disk, Goal) /\ op = "change"
        /\ pc' = "buddy" /\ answer' = "updated" /\ UNCHANGED known
     \/ /\ ArchiveOK(disk, Goal) /\ op = "resume"
        /\ Conclude("recovered") /\ Tell(target)
  /\ Inspected
  /\ UNCHANGED <<disk, survivors, op, target, item, made, edits, faults,
                 executables>>

\* writeBuddyLayerLocked writes over whatever is there, and the command ends.
Buddy ==
  /\ pc = "buddy" /\ pc' = "idle"
  /\ LET d == [disk EXCEPT !.buddy = Rev(disk)]
     IN disk' = d /\ survivors' = IF d = disk THEN survivors ELSE {d}
  /\ Tell(Rev(disk))
  /\ UNCHANGED <<op, target, item, made, answer, unseen, edits, faults,
                 executables>>

-----------------------------------------------------------------------------
(* resumePreparationLocked and retireIncompletePreparation.                 *)

CanResume ==
  IF Pending(disk) THEN InspectOK(disk) /\ disk.tx.next = target
                   ELSE target # 0 /\ ArchiveOK(disk, target)

Resume ==
  /\ pc = "resume"
  /\ IF CanResume
     THEN /\ pc' = IF Pending(disk) THEN "inspect" ELSE "archiveSync"
          /\ UNCHANGED answer
     ELSE Conclude("failed")
  /\ Inspected
  /\ UNCHANGED <<disk, survivors, op, target, item, made, known, edits,
                 faults, executables>>

BugRetirable(d) == d.tx.staged >= 1

\* A prefix of the staging order without its prepared marker, over a Folder that
\* is exactly as it was before.
Retirable(d) ==
  /\ d.tx.staged \in 1 .. N + 3
  /\ d.tx.staged = 1 => ~d.tx.partial
  /\ \A i \in Items : Matches(d, i)

Retire ==
  /\ pc = "retire"
  /\ IF /\ Pending(disk) /\ Retirable(disk)
        /\ Rev(disk) = target /\ Rendered(disk) <= own
     THEN /\ Put([disk EXCEPT !.tx = NoTransaction])
          /\ pc' = "retireSync" /\ UNCHANGED answer
     ELSE /\ SameDisk
          /\ \/ Conclude("failed")
             \* a retry that finds its attempt in the history already
             \/ ~Pending(disk) /\ pc' = "retireSync" /\ UNCHANGED answer
  /\ Inspected
  /\ UNCHANGED <<op, target, item, made, known, edits, faults, executables>>

RetireSync ==
  /\ pc = "retireSync"
  /\ Conclude("retired") /\ Barrier
  /\ UNCHANGED <<op, target, item, made, known, unseen, edits, faults,
                 executables>>

-----------------------------------------------------------------------------
(* Readers, the person, and what goes wrong.                                *)

\* A command or the Launchpad reads the state under the lock.
Read ==
  /\ pc = "idle" /\ ~Pending(disk)
  /\ Tell(Rev(disk))
  /\ UNCHANGED <<disk, survivors, pc, op, target, item, made, answer, unseen,
                 edits, faults, executables>>

\* The person changes an output, in place or by putting another file there,
\* restores its bytes, or puts a file where an unowned output will be.
Saved(i, f) ==
  /\ f # disk.active[i]
  /\ Put([disk EXCEPT !.active[i] = f])
  /\ unseen' = unseen \cup {i}
  /\ UNCHANGED <<pc, op, target, item, answer, known, faults, executables>>

Person(i, f) == edits < MaxEdits /\ edits' = edits + 1 /\ Saved(i, f)

EditInPlace(i) ==
  /\ disk.active[i].rev # 0 /\ UNCHANGED made
  /\ \E e \in BOOLEAN : Person(i, [disk.active[i] EXCEPT !.edited = e])

PutFile(i) ==
  /\ made < MaxInodes /\ made' = made + 1
  /\ \E e \in BOOLEAN :
       /\ disk.active[i].rev = 0 => e
       /\ Person(i, [rev |-> disk.active[i].rev, ino |-> made + 1, edited |-> e])

\* Taking their own file away again is not counted as an edit.
RemoveForeign(i) ==
  /\ disk.active[i].rev = 0 /\ Saved(i, Absent) /\ UNCHANGED <<made, edits>>

\* The product is switched to a release with newer templates.
Upgrade ==
  /\ product < Templates /\ product' = product + 1
  /\ UNCHANGED <<disk, survivors, pc, op, target, item, made, answer, known,
                 unseen, edits, faults, own, template>>

\* An error or a kill: the disk stays as it is and the lock is free again.
Stop ==
  /\ pc # "idle" /\ faults < MaxFaults /\ faults' = faults + 1
  /\ Conclude("failed")
  /\ UNCHANGED <<disk, survivors, op, target, item, made, known, unseen,
                 edits, executables>>

LosePower ==
  /\ faults < MaxFaults /\ faults' = faults + 1
  /\ disk' \in survivors /\ survivors' = {disk'}
  /\ Conclude("failed")
  /\ UNCHANGED <<op, target, item, made, known, unseen, edits, executables>>

-----------------------------------------------------------------------------

Change == PlanRefuses \/ PlanUnchanged \/ PlanChange \/ Sync("mkdirSync", "open")
          \/ Open \/ Write \/ Verify
Apply == Inspect \/ Move \/ MoveSync \/ Settle
Close == Finalize \/ Archive \/ ArchiveSync \/ Sealed \/ Buddy
Recover == Resume \/ Retire \/ RetireSync
Step == Change \/ Apply \/ Close \/ Recover

Next ==
  \/ \E o \in Commands, t \in RevisionOrNone : Begin(o, t)
  \/ Step
  \/ Read
  \/ \E i \in Outputs : EditInPlace(i) \/ PutFile(i) \/ RemoveForeign(i)
  \/ Upgrade \/ Stop \/ LosePower

Spec == Init /\ [][Next]_vars

\* A command that runs goes on; nobody has to start one.
FairSpec == Spec /\ WF_vars(Step)

-----------------------------------------------------------------------------
(* Properties.  What is said of the disk holds of whatever a power loss may *)
(* leave of it as well: survivors contains the disk.                        *)

\* Without a prepared journal the whole Folder is of one revision, and nothing
\* of an attempt has been moved: a stop leaves the old Folder, or a journal.
Uniform(d) ==
  /\ d.tx.moved = 0
  /\ \A i \in Items :
       \/ d.active[i].rev = Rev(d)
       \/ i \in Unowned /\ Rev(d) = 1 /\ d.active[i].rev = 0
OneRevision == \A d \in survivors : ~IsPrepared(d) => Uniform(d)

\* While the person leaves the outputs alone, a prepared journal can be
\* completed, at whatever rename it stopped and whatever syncs were lost.
Undisturbed(d) ==
  \A i \in Outputs : /\ ~d.active[i].edited
                     /\ d.active[i].ino \in {d.tx.id, d.tx.before[i]}
Resumable ==
  \A d \in survivors : IsPrepared(d) /\ Undisturbed(d) => Complete(d)

\* The history holds exactly one journal for every revision the Folder went
\* through; the one that is pending has its place free.
HistoryIsExact ==
  \A d \in survivors : \A r \in Revisions :
    d.archive[r] # 0
      <=> r \in 2 .. (IF IsPrepared(d) THEN d.tx.next - 1 ELSE Rev(d))

\* A revision that a caller was answered or a reader was shown is never undone,
\* not even by a power loss.
KnownStands == \A d \in survivors : known <= Rev(d)

\* An answered change is the successor of the revision its caller expected:
\* no change between them is lost.
CompareAndSwap ==
  pc = "idle" /\ answer = "updated" /\ target # 0 => Rev(disk) = target + 1

\* What the person wrote is only ever replaced when it was written after the
\* last inspection of the command (docs: a cooperative filesystem).
PersonalBytes ==
  [][LosePower \/ \A i \in Outputs :
       disk.active[i].edited /\ disk'.active[i].rev # disk.active[i].rev
         => i \in unseen]_vars

\* From outside the Folder is one counter: a change is one step, whole or not
\* at all, and only what nobody was told can be undone.
AF == INSTANCE AtomicFolder WITH value <- Rev(disk)
ChangesAreAtomic == AF!Spec

\* A Folder that a newer template revision rendered is never rendered by an older
\* one, whenever the executables were started and switched (docs/update.md).
NeverOlder == [][LosePower \/ Rendered(disk)' >= Rendered(disk)]_vars

\* A prepared change is not stuck: whoever keeps resuming it, with the templates
\* that prepared it, completes it, unless the person disturbed its files.
CanInspect == template[disk.tx.id] = own
ResumeCompletes ==
  []<>(pc = "resume" /\ (Pending(disk) => CanInspect /\ target = disk.tx.next))
    => []<>~(IsPrepared(disk) /\ Undisturbed(disk))

\* "An interrupted change is completed with profile-resume"
\* (docs/environment-tools.md): wherever a change stopped, a resume with its
\* revision finds a journal it can complete.
InterruptedIsResumable ==
  pc = "resume" /\ Pending(disk) /\ Undisturbed(disk) /\ target = disk.tx.next
    => InspectOK(disk)
=============================================================================
