------------------------ MODULE FolderChange_proofs ------------------------
(***************************************************************************)
(* What a change of the Folder keeps, for any number of outputs, changes,   *)
(* edits, faults and template revisions.                                    *)
(*                                                                          *)
(* The argument is one invariant of a single disk, JournalInv, that every   *)
(* disk a power loss may leave satisfies, and a second one, Control, that   *)
(* ties the step of the command to the disk it works on.                    *)
(***************************************************************************)
EXTENDS FolderChange, TLAPS

\* The step of a command that has a journal, and those after the manifest.
Preparing == {"mkdirSync", "open", "write", "verify"}
Applying == {"inspect", "move", "moveSync", "settle", "finalize", "archive"}
Manifested == {"settle", "finalize", "archive", "archiveSync", "sealed", "buddy"}

\* Every number on a disk was given out, so the next one is new.
Bounded(d, m) ==
  /\ \A i \in Items : /\ d.active[i].rev <= m /\ d.active[i].ino <= m
                      /\ d.tx.before[i] <= m
  /\ d.tx.id <= m /\ d.tx.next <= m
  /\ \A r \in Revisions : d.archive[r] <= m

\* An item that was not replaced is of the revision before.
Old(d, i) == \/ d.active[i].rev = d.tx.next - 1
             \/ i \in Unowned /\ d.tx.next = 2 /\ d.active[i].rev = 0

\* A pending journal knows of every item whether it was replaced, and can tell
\* the two generations apart.
JournalInv(d, t) ==
  /\ d.tx.next >= 2
  /\ \A r \in Revisions : d.archive[r] # d.tx.id
  /\ \A i \in Items :
       /\ d.tx.before[i] # d.tx.id
       /\ i <= d.tx.moved => /\ d.active[i].rev = d.tx.next
                             /\ d.active[i].ino # d.tx.before[i]
       /\ i > d.tx.moved => Old(d, i) /\ d.active[i].ino # d.tx.id
       /\ i \notin Outputs => Matches(d, i)
  /\ t[d.tx.before[Manifest]] <= t[d.tx.id]

\* The archive has the journals of the revisions before, the manifest's among
\* them.
ArchiveInv(d) ==
  /\ \A r \in Revisions :
       d.archive[r] # 0
         <=> r \in 2 .. (IF IsPrepared(d) THEN d.tx.next - 1 ELSE Rev(d))
  /\ \A r \in Revisions :
       d.archive[r] # 0 /\ d.archive[r] = d.active[Manifest].ino => Rev(d) = r

DiskInv(d, m, t) ==
  /\ Bounded(d, m)
  /\ Rev(d) >= 1
  /\ IF Pending(d) THEN JournalInv(d, t) ELSE d.tx = NoTransaction
  /\ ~IsPrepared(d) => Uniform(d)
  /\ ArchiveInv(d)

\* What a power loss may leave of the disk.
SurvivorsInv ==
  /\ disk \in survivors
  /\ \A d \in survivors :
       /\ DiskInv(d, made, template)
       /\ known <= Rev(d) /\ Rev(d) <= Rev(disk)
       /\ disk.tx.moved # Manifest \/ pc \in Manifested => Rev(d) = Rev(disk)

\* The step of the command and the disk.
Control ==
  /\ pc \in {"plan", "resume"} \cup Preparing => item = 1
  /\ pc = "resume" => op = "resume"
  /\ pc \in {"plan"} \cup Preparing => op = "change"
  /\ pc \in Preparing => Pending(disk) /\ disk.tx.moved = 0
  /\ pc = "mkdirSync" => disk.tx.staged = 0
  /\ pc = "open" => disk.tx.staged < Prepared
  /\ pc = "write" => disk.tx.staged >= 1 /\ disk.tx.partial
  /\ pc = "verify" => disk.tx.staged = N + 3
  /\ pc = "inspect" => item <= disk.tx.moved + 1
  /\ pc = "move" => IsPrepared(disk) /\ item = disk.tx.moved + 1
  /\ pc = "moveSync" => item <= disk.tx.moved
  /\ pc \in Applying \cup {"archiveSync", "sealed"} /\ op = "resume" => target # 0

\* The change that was asked for is the one that is made.
Asked ==
  target # 0 =>
    /\ op = "change" /\ pc \in Preparing \cup Applying => disk.tx.next = target + 1
    /\ \/ op = "change" /\ pc \in {"archiveSync", "sealed"}
       \/ pc \in {"buddy", "idle"} /\ answer = "updated"
       => Rev(disk) = target + 1

\* What was inspected, and not touched since, is as it was inspected.
Seen == pc = "move" => \A i \in Outputs \ unseen : ~disk.active[i].edited

FolderInv == TypeOK /\ SurvivorsInv /\ Control /\ Asked /\ Seen

-----------------------------------------------------------------------------
(* Facts about the data.                                                    *)

LEMMA Constants ==
  /\ N \in Nat /\ N >= 1 /\ MaxInodes \in Nat /\ MaxInodes >= 1
  /\ Manifest \in Items /\ Manifest \notin Outputs /\ Manifest = N + 2
  /\ Outputs \subseteq Items /\ Unowned \subseteq Outputs
  /\ Prepared = N + 4
  BY OutputsAssumption, BoundsAssumption, UnownedAssumption
     DEF Manifest, Items, Outputs, Prepared

\* The fields of a disk.
LEMMA DiskFacts ==
  ASSUME NEW d \in Disks
  PROVE  /\ \A i \in Items :
              /\ d.active[i] \in Files
              /\ d.active[i].rev \in RevisionOrNone /\ d.active[i].ino \in Inodes
              /\ d.active[i].edited \in BOOLEAN
              /\ d.tx.before[i] \in Inodes
         /\ d.active \in [Items -> Files]
         /\ d.archive \in [Revisions -> Inodes]
         /\ \A r \in Revisions : d.archive[r] \in Inodes
         /\ d.tx \in Transactions
         /\ d.tx.id \in Inodes /\ d.tx.next \in RevisionOrNone
         /\ d.tx.staged \in 0 .. Prepared /\ d.tx.partial \in BOOLEAN
         /\ d.tx.moved \in 0 .. N + 2
         /\ d.tx.before \in [Items -> Inodes]
         /\ d.buddy \in RevisionOrNone
         /\ Rev(d) \in RevisionOrNone
  <1>1. /\ d.active \in [Items -> Files] /\ d.tx \in Transactions
        /\ d.archive \in [Revisions -> Inodes] /\ d.buddy \in RevisionOrNone
    BY DEF Disks
  <1>2. /\ d.tx.id \in Inodes /\ d.tx.next \in RevisionOrNone
        /\ d.tx.staged \in 0 .. Prepared /\ d.tx.partial \in BOOLEAN
        /\ d.tx.moved \in 0 .. N + 2
        /\ d.tx.before \in [Items -> Inodes]
    BY <1>1 DEF Transactions
  <1>3. \A i \in Items :
          /\ d.active[i] \in Files
          /\ d.active[i].rev \in RevisionOrNone /\ d.active[i].ino \in Inodes
          /\ d.active[i].edited \in BOOLEAN
    BY <1>1 DEF Files
  <1> QED
    BY <1>1, <1>2, <1>3, Constants DEF Rev

\* Replacing parts of a disk gives a disk.
LEMMA PutFacts ==
  ASSUME NEW d \in Disks
  PROVE  /\ \A i \in Items, f \in Files : [d EXCEPT !.active[i] = f] \in Disks
         /\ \A x \in Transactions : [d EXCEPT !.tx = x] \in Disks
         /\ \A x \in Transactions, r \in Revisions, k \in Inodes :
              [d EXCEPT !.tx = x, !.archive[r] = k] \in Disks
         /\ \A x \in Transactions, i \in Items, f \in Files :
              [d EXCEPT !.active[i] = f, !.tx = x] \in Disks
         /\ \A r \in RevisionOrNone : [d EXCEPT !.buddy = r] \in Disks
  BY DEF Disks

LEMMA NoTransactionFacts ==
  /\ NoTransaction \in Transactions
  /\ NoTransaction.id = 0 /\ NoTransaction.next = 0 /\ NoTransaction.moved = 0
  /\ NoTransaction.staged = 0 /\ ~NoTransaction.partial
  /\ NoTransaction.before = [i \in Items |-> 0]
  BY Constants DEF NoTransaction, Transactions, Inodes, RevisionOrNone

\* A journal that is prepared is pending.
LEMMA PreparedIsPending ==
  ASSUME NEW d \in Disks, NEW m, NEW t, DiskInv(d, m, t), IsPrepared(d)
  PROVE  Pending(d) /\ JournalInv(d, t)
  BY NoTransactionFacts, Constants DEF DiskInv, IsPrepared

-----------------------------------------------------------------------------
(* Every change of the disk keeps its invariant.                            *)

TemplateOf == [Inodes -> 1 .. Templates]

\* The disks the steps write.
Staged(d, k, b) == [d EXCEPT !.tx.staged = k, !.tx.partial = b]
Planned(d, k) ==
  [d EXCEPT !.tx = [NoTransaction EXCEPT
                      !.id = k, !.next = Rev(d) + 1,
                      !.before = [i \in Items |-> d.active[i].ino]]]
Replaced(d, i) ==
  [d EXCEPT !.active[i] = [rev |-> d.tx.next, ino |-> d.tx.id, edited |-> FALSE],
            !.tx.moved = i]
Archived(d) == [d EXCEPT !.tx = NoTransaction, !.archive[d.tx.next] = d.tx.id]
Retired(d) == [d EXCEPT !.tx = NoTransaction]
Edited(d, i, f) == [d EXCEPT !.active[i] = f]

\* A number that is given out disturbs no disk.
LEMMA GrowDisk ==
  ASSUME NEW d \in Disks, NEW m \in Revisions, NEW t \in TemplateOf,
         NEW u \in TemplateOf, m + 1 \in Revisions,
         \A k \in Inodes : k <= m => u[k] = t[k],
         DiskInv(d, m, t)
  PROVE  DiskInv(d, m + 1, u)
  <1> USE Constants
  <1>1. Bounded(d, m + 1)
    <2>1. m \in Nat /\ \A k \in Inodes \cup RevisionOrNone : k <= m => k <= m + 1
      BY DEF Inodes, Revisions, RevisionOrNone
    <2>2. /\ \A i \in Items : /\ d.active[i].rev \in RevisionOrNone
                              /\ d.active[i].ino \in Inodes
                              /\ d.tx.before[i] \in Inodes
          /\ d.tx.id \in Inodes /\ d.tx.next \in RevisionOrNone
          /\ \A r \in Revisions : d.archive[r] \in Inodes
      BY DiskFacts
    <2> QED
      BY <2>1, <2>2 DEF DiskInv, Bounded
  <1>2. ASSUME Pending(d) PROVE JournalInv(d, u)
    <2>1. /\ d.tx.before[Manifest] <= m /\ d.tx.before[Manifest] \in Inodes
          /\ d.tx.id <= m /\ d.tx.id \in Inodes
      BY DiskFacts DEF DiskInv, Bounded
    <2>2. t[d.tx.before[Manifest]] <= t[d.tx.id]
      BY <1>2 DEF DiskInv, JournalInv
    <2>3. u[d.tx.before[Manifest]] <= u[d.tx.id]
      BY <2>1, <2>2
    <2> QED
      BY <1>2, <2>3 DEF DiskInv, JournalInv
  <1> QED
    BY <1>1, <1>2 DEF DiskInv

\* Staging another file of a journal that is not prepared.
LEMMA StageDisk ==
  ASSUME NEW d \in Disks, NEW m \in Revisions, NEW t \in TemplateOf,
         DiskInv(d, m, t), Pending(d), d.tx.moved = 0,
         NEW k \in 0 .. Prepared, NEW b \in BOOLEAN, ~IsPrepared(d),
         NEW e, e = Staged(d, k, b)
  PROVE  e \in Disks /\ DiskInv(e, m, t) /\ Rev(e) = Rev(d)
  <1> USE Constants
  <1>1. /\ e.active = d.active /\ e.archive = d.archive /\ e.buddy = d.buddy
        /\ e.tx = [d.tx EXCEPT !.staged = k, !.partial = b]
    BY DEF Disks, Staged
  <1>2. /\ e.tx.id = d.tx.id /\ e.tx.next = d.tx.next
        /\ e.tx.before = d.tx.before /\ e.tx.moved = d.tx.moved
        /\ e.tx.staged = k /\ e.tx.partial = b /\ e.tx \in Transactions
    <2>1. d.tx \in Transactions
      BY DiskFacts
    <2>2. PICK x \in Transactions : x = d.tx
      BY <2>1
    <2>3. e.tx = [x EXCEPT !.staged = k, !.partial = b]
      BY <1>1, <2>2
    <2>4. e.tx.id = x.id /\ e.tx.next = x.next
      BY ONLY <2>3, x \in Transactions DEF Transactions
    <2>5. e.tx.before = x.before /\ e.tx.moved = x.moved
      BY ONLY <2>3, x \in Transactions DEF Transactions
    <2>6. e.tx.staged = k /\ e.tx.partial = b 
      BY ONLY <2>3, x \in Transactions DEF Transactions
    <2>7. e.tx \in Transactions
      BY ONLY <2>3, x \in Transactions, k \in 0 .. Prepared, b \in BOOLEAN DEF Transactions
    <2> QED
      BY <2>2, <2>4, <2>5, <2>6, <2>7
  <1>3. e \in Disks
    BY <1>1, <1>2 DEF Disks, Staged
  <1>4. Bounded(e, m) /\ Rev(e) = Rev(d) /\ Pending(e)
    BY <1>1, <1>2 DEF DiskInv, Bounded, Rev, Pending
  <1>5. JournalInv(e, t)
    BY <1>1, <1>2 DEF DiskInv, JournalInv, Old, Matches
  <1>6. Uniform(e)
    BY <1>1, <1>2 DEF DiskInv, Uniform, Rev
  <1>7. Rev(d) = d.tx.next - 1
    BY DEF DiskInv, JournalInv, Old, Rev
  <1>8. ArchiveInv(e)
    <2>1. (IF IsPrepared(e) THEN e.tx.next - 1 ELSE Rev(e)) = Rev(d)
      BY <1>2, <1>4, <1>7
    <2> QED
      BY <1>1, <1>4, <2>1 DEF DiskInv, ArchiveInv
  <1> QED
    BY <1>3, <1>4, <1>5, <1>6, <1>8 DEF DiskInv

\* The transaction of a new change.
LEMMA PlanDisk ==
  ASSUME NEW d \in Disks, NEW m \in Revisions, NEW t \in TemplateOf,
         NEW u \in TemplateOf, m + 1 \in Revisions,
         \A k \in Inodes : k <= m => u[k] = t[k],
         DiskInv(d, m, t), ~Pending(d), Undrifted(d),
         t[d.active[Manifest].ino] <= u[m + 1],
         NEW e, e = Planned(d, m + 1)
  PROVE  /\ e \in Disks /\ DiskInv(e, m + 1, u) /\ Rev(e) = Rev(d)
         /\ Pending(e) /\ e.tx.moved = 0 /\ e.tx.staged = 0
         /\ e.tx.next = Rev(d) + 1
  <1> USE Constants
  <1> DEFINE x == [NoTransaction EXCEPT
                     !.id = m + 1, !.next = Rev(d) + 1,
                     !.before = [i \in Items |-> d.active[i].ino]]
  <1>1. /\ Rev(d) \in 1 .. m /\ Rev(d) + 1 \in RevisionOrNone /\ m + 1 \in Inodes
        /\ m \in Nat
    <2>1. Rev(d) \in RevisionOrNone
      BY DiskFacts
    <2> QED
      BY <2>1 DEF DiskInv, Bounded, Rev, Revisions, RevisionOrNone, Inodes
  <1>2. /\ x.id = m + 1 /\ x.next = Rev(d) + 1 /\ x.moved = 0 /\ x.staged = 0
        /\ ~x.partial /\ x.before = [i \in Items |-> d.active[i].ino]
        /\ x \in Transactions
    <2>1. [i \in Items |-> d.active[i].ino] \in [Items -> Inodes]
      BY DiskFacts
    <2> QED
      BY <1>1, <2>1, NoTransactionFacts DEF Transactions
  <1>3. /\ e.active = d.active /\ e.archive = d.archive /\ e.buddy = d.buddy
        /\ e.tx = x
    BY DEF Disks, Planned
  <1>4. e \in Disks
    BY <1>2, <1>3 DEF Disks, Planned
  <1> HIDE DEF x
  <1>5. Rev(e) = Rev(d) /\ Pending(e) /\ ~IsPrepared(e)
    BY <1>1, <1>2, <1>3 DEF Rev, Pending, IsPrepared
  <1>6. Bounded(e, m + 1)
    <2>1. /\ \A k \in Inodes \cup RevisionOrNone : k <= m => k <= m + 1
          /\ m + 1 <= m + 1 /\ Rev(d) + 1 <= m + 1
      BY <1>1 DEF Inodes, Revisions, RevisionOrNone
    <2>2. /\ \A i \in Items : /\ d.active[i].rev \in RevisionOrNone
                              /\ d.active[i].ino \in Inodes
          /\ \A r \in Revisions : d.archive[r] \in Inodes
      BY DiskFacts
    <2>3. /\ \A i \in Items : d.active[i].rev <= m + 1 /\ d.active[i].ino <= m + 1
          /\ \A r \in Revisions : d.archive[r] <= m + 1
      BY <2>1, <2>2 DEF DiskInv, Bounded
    <2>4. \A i \in Items : e.tx.before[i] <= m + 1
      BY <2>3, <1>2, <1>3
    <2> QED
      BY <2>1, <2>3, <2>4, <1>2, <1>3 DEF Bounded
  <1>7. ~IsPrepared(d) /\ Uniform(d)
    BY NoTransactionFacts DEF DiskInv, IsPrepared
  <1>8. Uniform(e)
    BY <1>2, <1>3, <1>5, <1>7 DEF Uniform
  <1>9. JournalInv(e, u)
    <2>1. \A r \in Revisions : e.archive[r] # e.tx.id
      BY <1>1, <1>2, <1>3 DEF DiskInv, Bounded, Inodes
    <2>2. \A i \in Items : /\ e.tx.before[i] = d.active[i].ino
                            /\ d.active[i].ino <= m /\ d.active[i].ino \in Inodes
      BY <1>2, <1>3, DiskFacts DEF DiskInv, Bounded
    <2>3. \A i \in Items : e.tx.before[i] # e.tx.id /\ e.active[i].ino # e.tx.id
      <3>1. \A k \in Inodes : k <= m => k # m + 1
        BY <1>1 DEF Inodes
      <3> QED
        BY <3>1, <2>2, <1>2, <1>3
    <2>4. \A i \in Items : Old(e, i)
      <3>1. e.tx.next - 1 = Rev(d) /\ (Rev(d) = 1 => e.tx.next = 2)
        BY <1>1, <1>2, <1>3
      <3> QED
        BY <3>1, <1>3, <1>7 DEF Old, Uniform
    <2>5. \A i \in Items : Matches(e, i)
      <3>1. \A i \in Items : ~(i <= e.tx.moved)
        BY <1>2, <1>3 DEF Items
      <3> QED
        BY <3>1, <2>2, <1>3 DEF Matches, Undrifted
    <2>6. u[e.tx.before[Manifest]] <= u[e.tx.id]
      BY <2>2, <1>2, <1>3
    <2> QED
      <3>1. \A i \in Items : ~(i <= e.tx.moved)
        BY <1>2, <1>3 DEF Items
      <3>2. e.tx.next >= 2
        BY <1>1, <1>2, <1>3
      <3> QED
        BY <3>1, <3>2, <2>1, <2>3, <2>4, <2>5, <2>6 DEF JournalInv
  <1>10. ArchiveInv(e)
    BY <1>3, <1>5, <1>7 DEF DiskInv, ArchiveInv
  <1> QED
    BY <1>2, <1>3, <1>4, <1>5, <1>6, <1>8, <1>9, <1>10 DEF DiskInv

\* One rename of a prepared journal.
LEMMA MoveDisk ==
  ASSUME NEW d \in Disks, NEW m \in Revisions, NEW t \in TemplateOf,
         DiskInv(d, m, t), IsPrepared(d),
         NEW i \in Items, i = d.tx.moved + 1,
         NEW e, e = Replaced(d, i)
  PROVE  /\ e \in Disks /\ DiskInv(e, m, t) /\ IsPrepared(e)
         /\ e.tx.moved = i /\ e.tx.next = d.tx.next
         /\ i # Manifest => Rev(e) = Rev(d)
         /\ i = Manifest => Rev(e) = Rev(d) + 1
         /\ \A j \in Items : j # i => e.active[j] = d.active[j]
         /\ t[d.active[Manifest].ino] <= t[e.active[Manifest].ino]
  <1> USE Constants
  <1> DEFINE f == [rev |-> d.tx.next, ino |-> d.tx.id, edited |-> FALSE]
  <1>1. /\ f.rev = d.tx.next /\ f.ino = d.tx.id /\ ~f.edited
        /\ f \in Files /\ d.tx.id \in Inodes /\ d.tx.next \in Nat
    BY DiskFacts DEF Files, RevisionOrNone
  <1>2. /\ e.active = [d.active EXCEPT ![i] = f] /\ e.archive = d.archive
        /\ e.buddy = d.buddy /\ e.tx = [d.tx EXCEPT !.moved = i]
    BY DEF Disks, Replaced
  <1> HIDE DEF f
  <1>3. /\ e.tx.id = d.tx.id /\ e.tx.next = d.tx.next
        /\ e.tx.before = d.tx.before /\ e.tx.moved = i
        /\ e.tx.staged = d.tx.staged /\ e.tx.partial = d.tx.partial
        /\ e.tx \in Transactions
    <2>1. d.tx \in Transactions
      BY DiskFacts
    <2>2. PICK x \in Transactions : x = d.tx
      BY <2>1
    <2>3. e.tx = [x EXCEPT !.moved = i]
      BY <1>2, <2>2
    <2>4. e.tx.id = x.id /\ e.tx.next = x.next /\ e.tx.before = x.before
      BY ONLY <2>3, x \in Transactions DEF Transactions
    <2>5. e.tx.moved = i /\ e.tx.staged = x.staged /\ e.tx.partial = x.partial
      BY ONLY <2>3, x \in Transactions DEF Transactions
    <2>6. i \in 0 .. N + 2
      BY DEF Items
    <2>7. e.tx \in Transactions
      BY ONLY <2>3, <2>6, x \in Transactions DEF Transactions
    <2> QED
      BY <2>2, <2>4, <2>5, <2>7
  <1>4. /\ e.active[i] = f
        /\ \A j \in Items : j # i => e.active[j] = d.active[j]
        /\ e.active \in [Items -> Files]
    BY <1>1, <1>2, DiskFacts
  <1>5. e \in Disks
    BY <1>2, <1>3, <1>4 DEF Disks, Replaced
  <1>6. JournalInv(d, t) /\ Pending(d)
    BY PreparedIsPending
  <1>7. /\ IsPrepared(e) /\ Pending(e)
        /\ i # Manifest => Rev(e) = Rev(d)
        /\ i = Manifest => Rev(e) = d.tx.next
    BY <1>1, <1>3, <1>4, <1>6 DEF IsPrepared, Pending, Rev
  <1>8. i = Manifest => d.tx.next = Rev(d) + 1
    <2>1. i = Manifest => i > d.tx.moved
      BY DiskFacts
    <2>2. i = Manifest => d.active[Manifest].rev = d.tx.next - 1
      BY <2>1, <1>6 DEF JournalInv, Old
    <2>3. d.active[Manifest].rev \in Nat
      BY DiskFacts DEF RevisionOrNone
    <2> QED
      BY <2>2, <2>3, <1>1 DEF Rev
  <1>9. Bounded(e, m)
    <2>1. Bounded(d, m)
      BY DEF DiskInv
    <2>2. \A j \in Items : e.active[j].rev <= m /\ e.active[j].ino <= m
      BY <2>1, <1>1, <1>4 DEF Bounded
    <2>3. /\ \A j \in Items : e.tx.before[j] <= m
          /\ e.tx.id <= m /\ e.tx.next <= m
          /\ \A r \in Revisions : e.archive[r] <= m
      BY <2>1, <1>2, <1>3 DEF Bounded
    <2> QED
      BY <2>2, <2>3 DEF Bounded
  <1>10. JournalInv(e, t)
    <2>1. \A j \in Items : j <= e.tx.moved =>
            /\ e.active[j].rev = e.tx.next
            /\ e.active[j].ino # e.tx.before[j]
      <3>1. \A j \in Items : j <= i /\ j # i => j <= d.tx.moved
        BY DiskFacts DEF Items
      <3> QED
        BY <3>1, <1>1, <1>3, <1>4, <1>6 DEF JournalInv
    <2>2. \A j \in Items : j > e.tx.moved => Old(e, j) /\ e.active[j].ino # e.tx.id
      <3>1. \A j \in Items : j > i => j > d.tx.moved /\ j # i
        BY DiskFacts DEF Items
      <3> QED
        BY <3>1, <1>3, <1>4, <1>6 DEF JournalInv, Old
    <2>3. \A j \in Items \ Outputs : Matches(e, j)
      <3>1. \A j \in Items : j # i => (j <= i <=> j <= d.tx.moved)
        BY DiskFacts DEF Items
      <3>2. \A j \in Items : j <= e.tx.moved <=> j <= i
        BY <1>3
      <3>3. i <= e.tx.moved
        BY <1>3 DEF Items
      <3>4. Matches(e, i)
        BY <3>3, <1>1, <1>3, <1>4 DEF Matches
      <3>5. \A j \in Items \ Outputs : j # i => Matches(e, j)
        BY <3>1, <3>2, <1>3, <1>4, <1>6 DEF Matches, JournalInv
      <3> QED
        BY <3>4, <3>5
    <2> QED
      <3>1. /\ e.tx.next >= 2 /\ t[e.tx.before[Manifest]] <= t[e.tx.id]
            /\ \A r \in Revisions : e.archive[r] # e.tx.id
            /\ \A j \in Items : e.tx.before[j] # e.tx.id
        <4>1. e.tx.next = d.tx.next /\ e.tx.id = d.tx.id /\ e.tx.before = d.tx.before
              /\ e.archive = d.archive
          BY <1>2, <1>3
        <4>2. /\ d.tx.next >= 2 /\ t[d.tx.before[Manifest]] <= t[d.tx.id]
              /\ \A r \in Revisions : d.archive[r] # d.tx.id
              /\ \A j \in Items : d.tx.before[j] # d.tx.id
          BY <1>6 DEF JournalInv
        <4> QED
          BY ONLY <4>1, <4>2
      <3> QED
        BY <2>1, <2>2, <2>3, <3>1 DEF JournalInv
  <1>11. ArchiveInv(e)
    <2>1. IsPrepared(e) /\ IsPrepared(d) /\ e.tx.next = d.tx.next
      BY <1>3, <1>7
    <2>2. i # Manifest => e.active[Manifest] = d.active[Manifest] /\ Rev(e) = Rev(d)
      BY <1>4, <1>7
    <2>3. i = Manifest => \A r \in Revisions : e.archive[r] # e.active[Manifest].ino
      BY <1>1, <1>2, <1>4, <1>6 DEF JournalInv
    <2> QED
      BY <2>1, <2>2, <2>3, <1>2 DEF DiskInv, ArchiveInv
  <1>12. Rev(e) >= 1
    <2>1. Rev(d) >= 1 /\ d.tx.next >= 2
      BY <1>6 DEF DiskInv, JournalInv
    <2> QED
      BY <2>1, <1>1, <1>7
  <1>13. t[d.active[Manifest].ino] <= t[e.active[Manifest].ino]
    <2>1. CASE i = Manifest
      <3>1. d.active[Manifest].ino = d.tx.before[Manifest]
        <4>1. ~(Manifest <= d.tx.moved)
          BY <2>1, DiskFacts
        <4> QED
          BY <4>1, <1>6 DEF JournalInv, Matches
      <3> QED
        BY <2>1, <3>1, <1>1, <1>4, <1>6 DEF JournalInv
    <2>2. CASE i # Manifest
      <3>1. t[d.active[Manifest].ino] \in 1 .. Templates
        BY DiskFacts DEF TemplateOf
      <3> QED
        BY <2>2, <3>1, <1>4
    <2> QED
      BY <2>1, <2>2
  <1> QED
    BY <1>3, <1>4, <1>5, <1>7, <1>8, <1>9, <1>10, <1>11, <1>12, <1>13 DEF DiskInv

\* A journal that is complete, archived.
LEMMA ArchiveDisk ==
  ASSUME NEW d \in Disks, NEW m \in Revisions, NEW t \in TemplateOf,
         DiskInv(d, m, t), Complete(d), Applied(d),
         NEW e, e = Archived(d)
  PROVE  /\ e \in Disks /\ DiskInv(e, m, t) /\ ~Pending(e) /\ Rev(e) = Rev(d)
         /\ e.active = d.active /\ e.tx.moved = 0 /\ Rev(d) = d.tx.next
  <1> USE Constants
  <1>1. JournalInv(d, t) /\ Pending(d) /\ IsPrepared(d)
    BY PreparedIsPending DEF Complete
  <1>2. d.tx.next \in Revisions /\ d.tx.id \in Inodes /\ d.tx.next >= 2
    <2>1. d.tx.next \in RevisionOrNone /\ d.tx.id \in Inodes
      BY DiskFacts
    <2> QED
      BY <2>1, <1>1 DEF JournalInv, Revisions, RevisionOrNone
  <1>3. /\ e.active = d.active /\ e.tx = NoTransaction /\ e.buddy = d.buddy
        /\ e.archive = [d.archive EXCEPT ![d.tx.next] = d.tx.id]
    BY DEF Disks, Archived
  <1>4. /\ e.archive[d.tx.next] = d.tx.id
        /\ \A r \in Revisions : r # d.tx.next => e.archive[r] = d.archive[r]
        /\ e.archive \in [Revisions -> Inodes]
    BY <1>2, <1>3, DiskFacts
  <1>5. e \in Disks
    BY <1>3, <1>4, NoTransactionFacts DEF Disks, Archived
  <1>6. ~Pending(e) /\ ~IsPrepared(e) /\ Rev(e) = Rev(d)
    BY <1>3, NoTransactionFacts DEF Pending, IsPrepared, Rev
  <1>7. \A i \in Items : d.active[i].rev = d.tx.next
    <2>1. \A i \in Items : i <= d.tx.moved
      BY DEF Applied, Items
    <2> QED
      BY <2>1, <1>1 DEF JournalInv
  <1>8. Rev(d) = d.tx.next
    BY <1>7 DEF Rev
  <1>9. Uniform(e)
    BY <1>3, <1>6, <1>7, <1>8, NoTransactionFacts DEF Uniform
  <1>10. Bounded(e, m)
    <2>1. /\ m \in Nat /\ d.tx.id <= m /\ \A r \in Revisions : d.archive[r] <= m
      BY DEF DiskInv, Bounded, Revisions
    <2>2. \A r \in Revisions : e.archive[r] <= m
      BY <2>1, <1>4
    <2>3. \A i \in Items : d.active[i].rev <= m /\ d.active[i].ino <= m
      BY DEF DiskInv, Bounded
    <2>4. \A i \in Items : NoTransaction.before[i] <= m
      BY <2>1, NoTransactionFacts
    <2> QED
      BY <2>1, <2>2, <2>3, <2>4, <1>3, NoTransactionFacts DEF Bounded
  <1>11. ArchiveInv(e)
    <2>1. d.active[Manifest].ino = d.tx.id
      BY DEF Complete, Matches, Applied
    <2>2. \A r \in Revisions :
            r \in 2 .. d.tx.next <=> r \in 2 .. d.tx.next - 1 \/ r = d.tx.next
      BY <1>2 DEF Revisions
    <2>3. \A r \in Revisions : d.archive[r] # 0 <=> r \in 2 .. d.tx.next - 1
      BY <1>1 DEF DiskInv, ArchiveInv
    <2>4. \A r \in Revisions : e.archive[r] # 0 <=> r \in 2 .. d.tx.next
      BY <2>2, <2>3, <1>1, <1>4 DEF Pending
    <2>5. \A r \in Revisions : e.archive[r] = d.tx.id => r = d.tx.next
      BY <1>1, <1>4 DEF JournalInv
    <2> QED
      BY <2>1, <2>4, <2>5, <1>3, <1>6, <1>8 DEF ArchiveInv
  <1> QED
    BY <1>3, <1>5, <1>6, <1>8, <1>9, <1>10, <1>11, NoTransactionFacts DEF DiskInv

\* An attempt that was not prepared, retired.
LEMMA RetireDisk ==
  ASSUME NEW d \in Disks, NEW m \in Revisions, NEW t \in TemplateOf,
         DiskInv(d, m, t), ~IsPrepared(d),
         NEW e, e = Retired(d)
  PROVE  e \in Disks /\ DiskInv(e, m, t) /\ Rev(e) = Rev(d) /\ e.tx.moved = 0
  <1> USE Constants
  <1>1. /\ e.active = d.active /\ e.tx = NoTransaction /\ e.buddy = d.buddy
        /\ e.archive = d.archive
    BY DEF Disks, Retired
  <1>2. e \in Disks
    BY <1>1, NoTransactionFacts DEF Disks, Retired
  <1>3. ~Pending(e) /\ ~IsPrepared(e) /\ Rev(e) = Rev(d)
    BY <1>1, NoTransactionFacts DEF Pending, IsPrepared, Rev
  <1>4. Uniform(e)
    BY <1>1, <1>3, NoTransactionFacts DEF DiskInv, Uniform
  <1>5. Bounded(e, m)
    <2>1. m \in Nat
      BY DEF Revisions
    <2>2. \A i \in Items : NoTransaction.before[i] <= m
      BY <2>1, NoTransactionFacts
    <2> QED
      BY <2>1, <2>2, <1>1, NoTransactionFacts DEF DiskInv, Bounded
  <1>6. ArchiveInv(e)
    BY <1>1, <1>3 DEF DiskInv, ArchiveInv
  <1> QED
    BY <1>1, <1>2, <1>3, <1>4, <1>5, <1>6, NoTransactionFacts DEF DiskInv

\* Buddy's layer is of no other part's concern.
LEMMA BuddyDisk ==
  ASSUME NEW d \in Disks, NEW m \in Revisions, NEW t \in TemplateOf,
         DiskInv(d, m, t), NEW r \in RevisionOrNone,
         NEW e, e = [d EXCEPT !.buddy = r]
  PROVE  /\ e \in Disks /\ DiskInv(e, m, t) /\ Rev(e) = Rev(d)
         /\ e.active = d.active /\ e.tx = d.tx
  <1>1. /\ e.active = d.active /\ e.tx = d.tx /\ e.archive = d.archive
        /\ e \in Disks
    BY DEF Disks
  <1>2. Rev(e) = Rev(d) /\ (Pending(e) <=> Pending(d)) /\ (IsPrepared(e) <=> IsPrepared(d))
    BY <1>1 DEF Rev, Pending, IsPrepared
  <1>3. JournalInv(d, t) => JournalInv(e, t)
    BY <1>1 DEF JournalInv, Old, Matches
  <1>4. Bounded(e, m) /\ ArchiveInv(e) /\ (Uniform(d) => Uniform(e))
    BY <1>1, <1>2 DEF DiskInv, Bounded, ArchiveInv, Uniform
  <1> QED
    BY <1>1, <1>2, <1>3, <1>4 DEF DiskInv

\* What the person does to an output: it stays of its revision, and its number
\* is its own, a new one, or none where nothing was generated.
LEMMA EditDisk ==
  ASSUME NEW d \in Disks, NEW m \in Revisions, NEW t \in TemplateOf,
         DiskInv(d, m, t), NEW n \in Revisions, m <= n,
         DiskInv(d, n, t),
         NEW i \in Outputs, NEW f \in Files, f.rev = d.active[i].rev,
         \/ f.ino = d.active[i].ino
         \/ f.ino = n /\ m < n
         \/ f.ino = 0 /\ f.rev = 0,
         NEW e, e = Edited(d, i, f)
  PROVE  /\ e \in Disks /\ DiskInv(e, n, t) /\ Rev(e) = Rev(d)
         /\ e.tx = d.tx /\ e.active[i] = f
         /\ \A j \in Items : j # i => e.active[j] = d.active[j]
  <1> USE Constants
  <1>1. /\ e.active = [d.active EXCEPT ![i] = f] /\ e.tx = d.tx
        /\ e.archive = d.archive /\ e.buddy = d.buddy
    BY DEF Disks, Edited
  <1>2. /\ e.active[i] = f /\ \A j \in Items : j # i => e.active[j] = d.active[j]
        /\ e.active \in [Items -> Files] /\ i \in Items /\ i # Manifest
    BY <1>1, DiskFacts
  <1>3. e \in Disks
    BY <1>1, <1>2, DiskFacts DEF Disks, Edited
  <1>4. /\ Rev(e) = Rev(d) /\ (Pending(e) <=> Pending(d))
        /\ (IsPrepared(e) <=> IsPrepared(d))
    BY <1>1, <1>2 DEF Rev, Pending, IsPrepared
  <1>5. \A j \in Items : e.active[j].rev = d.active[j].rev
    BY <1>2
  <1>6. Bounded(e, n)
    <2>1. f.ino <= n
      BY DEF DiskInv, Bounded, Revisions
    <2> QED
      BY <2>1, <1>1, <1>2, <1>5 DEF DiskInv, Bounded
  <1>7. ASSUME Pending(d) PROVE JournalInv(e, t)
    <2>1. JournalInv(d, t)
      BY <1>7 DEF DiskInv
    <2>2. /\ d.tx.before[i] <= m /\ d.tx.before[i] \in Inodes
          /\ d.tx.id <= m /\ d.tx.id \in Inodes
      BY <1>2, DiskFacts DEF DiskInv, Bounded
    <2>3. i <= d.tx.moved => f.ino # d.tx.before[i]
      <3>1. ASSUME i <= d.tx.moved PROVE f.rev # 0
        BY <3>1, <2>1, <1>2 DEF JournalInv
      <3>2. f.ino = n /\ m < n => f.ino # d.tx.before[i]
        BY <2>2 DEF Revisions, Inodes
      <3> QED
        BY <3>1, <3>2, <2>1, <1>2 DEF JournalInv
    <2>4. i > d.tx.moved => f.ino # d.tx.id
      <3>1. f.ino = n /\ m < n => f.ino # d.tx.id
        BY <2>2 DEF Revisions, Inodes
      <3>2. f.ino = 0 => f.ino # d.tx.id
        BY <1>7 DEF Pending
      <3> QED
        BY <3>1, <3>2, <2>1, <1>2 DEF JournalInv
    <2>5. \A j \in Items : j <= e.tx.moved => /\ e.active[j].rev = e.tx.next
                                             /\ e.active[j].ino # e.tx.before[j]
      BY <2>1, <2>3, <1>1, <1>2, <1>5 DEF JournalInv
    <2>6. \A j \in Items : j > e.tx.moved => Old(e, j) /\ e.active[j].ino # e.tx.id
      BY <2>1, <2>4, <1>1, <1>2, <1>5 DEF JournalInv, Old
    <2>7. ASSUME NEW j \in Items, j \notin Outputs  PROVE Matches(e, j)
      <3>1. Matches(d, j) /\ j # i
        BY <2>1, <2>7 DEF JournalInv
      <3> QED
        BY <3>1, <1>1, <1>2 DEF Matches
    <2> QED
      BY <2>1, <2>5, <2>6, <2>7, <1>1 DEF JournalInv
  <1>8. ~IsPrepared(e) => Uniform(e)
    BY <1>1, <1>4, <1>5 DEF DiskInv, Uniform
  <1>9. ArchiveInv(e)
    BY <1>1, <1>2, <1>4 DEF DiskInv, ArchiveInv
  <1> QED
    BY <1>1, <1>2, <1>3, <1>4, <1>6, <1>7, <1>8, <1>9 DEF DiskInv

\* A journal whose outputs nobody disturbed is complete.
LEMMA CompleteDisk ==
  ASSUME NEW d \in Disks, NEW m \in Revisions, NEW t \in TemplateOf,
         DiskInv(d, m, t), IsPrepared(d), Undisturbed(d)
  PROVE  Complete(d)
  <1>1. JournalInv(d, t)
    BY PreparedIsPending
  <1>2. ASSUME NEW i \in Outputs PROVE Matches(d, i)
    <2>1. i \in Items /\ (i <= d.tx.moved \/ i > d.tx.moved)
      BY <1>2, Constants, DiskFacts DEF Items
    <2> QED
      BY <2>1, <1>1 DEF Matches, Undisturbed, JournalInv
  <1> QED
    BY <1>1, <1>2 DEF Complete, JournalInv

-----------------------------------------------------------------------------
(* What a power loss may leave, step by step.                               *)

LEMMA DiskHolds ==
  ASSUME TypeOK, SurvivorsInv
  PROVE  /\ disk \in Disks /\ DiskInv(disk, made, template) /\ known <= Rev(disk)
         /\ Rev(disk) \in Revisions /\ template \in TemplateOf
         /\ made \in Revisions /\ survivors \subseteq Disks
  <1>1. disk \in Disks /\ DiskInv(disk, made, template) /\ known <= Rev(disk)
    BY DEF TypeOK, SurvivorsInv
  <1>2. Rev(disk) \in Revisions
    BY <1>1, DiskFacts, Constants DEF DiskInv, Revisions, RevisionOrNone
  <1> QED
    BY <1>1, <1>2 DEF TypeOK, TemplateOf

\* No number is given out, and the disk stays.
LEMMA SameSurvivors ==
  ASSUME SurvivorsInv, UNCHANGED <<disk, survivors, made, template, known>>,
         pc' \in Manifested => pc \in Manifested \/ disk.tx.moved # Manifest
  PROVE  SurvivorsInv'
  BY DEF SurvivorsInv

\* A directory sync: the disk is all that is left.
LEMMA SyncedSurvivors ==
  ASSUME TypeOK, SurvivorsInv, Barrier, UNCHANGED <<made, template, known>>
  PROVE  SurvivorsInv'
  BY DiskHolds DEF SurvivorsInv, Barrier

\* A revision is told that no power loss takes back.
LEMMA ToldSurvivors ==
  ASSUME TypeOK, SurvivorsInv, UNCHANGED <<disk, survivors, made, template>>,
         disk.tx.moved # Manifest \/ pc \in Manifested,
         known' \in {known, Rev(disk)}
  PROVE  SurvivorsInv'
  <1>1. \A d \in survivors : Rev(d) = Rev(disk)
    BY DEF SurvivorsInv
  <1>2. Rev(disk) \in Revisions
    BY DiskHolds
  <1> QED
    BY <1>1, <1>2 DEF SurvivorsInv, Revisions

\* A change that leaves the revision.
LEMMA PutSurvivors ==
  ASSUME SurvivorsInv, UNCHANGED known,
         survivors' \subseteq survivors \cup {disk'}, disk' \in survivors',
         \A d \in survivors : DiskInv(d, made', template'),
         DiskInv(disk', made', template'), Rev(disk') = Rev(disk),
         Rev(disk) \in Revisions,
         disk'.tx.moved # Manifest \/ pc' \in Manifested
           => disk.tx.moved # Manifest \/ pc \in Manifested
  PROVE  SurvivorsInv'
  <1> SUFFICES ASSUME NEW d \in survivors'
               PROVE  /\ DiskInv(d, made', template')
                      /\ known <= Rev(d) /\ Rev(d) <= Rev(disk')
                      /\ disk'.tx.moved # Manifest \/ pc' \in Manifested
                           => Rev(d) = Rev(disk')
    BY DEF SurvivorsInv
  <1>1. CASE d \in survivors
    BY <1>1 DEF SurvivorsInv
  <1>2. CASE d = disk'
    BY <1>2 DEF SurvivorsInv, Revisions
  <1> QED
    BY <1>1, <1>2

\* The survivors when a number is given out.
LEMMA GrownSurvivors ==
  ASSUME TypeOK, SurvivorsInv, made' = made + 1, made' \in Revisions,
         template' \in TemplateOf,
         \A k \in Inodes : k <= made => template'[k] = template[k]
  PROVE  \A d \in survivors : DiskInv(d, made', template')
  BY DiskHolds, GrowDisk DEF SurvivorsInv

-----------------------------------------------------------------------------
(* Every step keeps the invariant: first the steps that write nothing.      *)

LEMMA InitInv == Init => FolderInv
  <1> SUFFICES ASSUME Init PROVE FolderInv
    OBVIOUS
  <1> USE Constants, NoTransactionFacts DEF Init
  <1>1. /\ disk \in Disks /\ disk.tx = NoTransaction
        /\ disk.archive = [r \in Revisions |-> 0]
        /\ \A i \in Items : disk.active[i] = IF i \in Unowned THEN Absent
                                 ELSE [rev |-> 1, ino |-> 1, edited |-> FALSE]
    <2>1. /\ Absent \in Files /\ [rev |-> 1, ino |-> 1, edited |-> FALSE] \in Files
          /\ 0 \in Inodes /\ 1 \in RevisionOrNone
      BY DEF Absent, Files, RevisionOrNone, Inodes
    <2> QED
      BY <2>1 DEF Disks
  <1>2. disk.active[Manifest] = [rev |-> 1, ino |-> 1, edited |-> FALSE]
    BY <1>1
  <1>3. DiskInv(disk, made, template)
    <2>1. Rev(disk) = 1 /\ ~Pending(disk) /\ ~IsPrepared(disk)
      BY <1>1, <1>2 DEF Rev, Pending, IsPrepared
    <2>2. Uniform(disk)
      BY <1>1, <2>1 DEF Uniform, Absent
    <2>3. Bounded(disk, made)
      BY <1>1 DEF Bounded, Absent
    <2>4. ArchiveInv(disk)
      <3>1. \A r \in Revisions : disk.archive[r] = 0 /\ r \notin 2 .. 1
        BY <1>1 DEF Revisions
      <3> QED
        BY <2>1, <3>1 DEF ArchiveInv
    <2> QED
      BY <1>1, <2>1, <2>2, <2>3, <2>4 DEF DiskInv
  <1>4. TypeOK
    <2>1. template \in [Inodes -> 1 .. Templates]
      BY TemplatesAssumption
    <2> QED
      BY <1>1, <2>1, TemplatesAssumption, BoundsAssumption
         DEF TypeOK, Steps, Commands, Answers, RevisionOrNone, Revisions, Items
  <1>5. SurvivorsInv
    BY <1>2, <1>3 DEF SurvivorsInv, Rev
  <1> QED
    BY <1>4, <1>5 DEF FolderInv, Control, Asked, Seen, Preparing, Applying

\* Commands begin, and refuse or find nothing to change.
LEMMA BeginInv ==
  ASSUME FolderInv, NEW o \in Commands, NEW t \in RevisionOrNone, Begin(o, t)
  PROVE  FolderInv'
  <1> USE DEF FolderInv, executables, Begin, Commands
  <1>1. TypeOK'
    BY Constants, TemplatesAssumption DEF TypeOK, Steps, Commands, Answers, RevisionOrNone, Items
  <1>2. SurvivorsInv'
    BY SameSurvivors DEF Manifested
  <1>3. Control'
    BY DEF Control, Preparing, Applying, Manifested
  <1>4. Asked'
    BY DEF Asked, Preparing, Applying, Manifested
  <1>5. Seen'
    BY DEF Seen
  <1> QED
    BY <1>1, <1>2, <1>3, <1>4, <1>5

LEMMA PlanRefusesInv ==
  ASSUME FolderInv, PlanRefuses
  PROVE  FolderInv'
  <1> USE DEF FolderInv, executables, PlanRefuses, Conclude, Inspected
  <1>1. TypeOK'
    BY DEF TypeOK, Steps, Commands, Answers
  <1>2. SurvivorsInv'
    BY SameSurvivors DEF Manifested
  <1>3. Control'
    BY DEF Control, Preparing, Applying, Manifested
  <1>4. Asked'
    BY DEF Asked, Preparing, Applying, Manifested
  <1>5. Seen'
    BY DEF Seen
  <1> QED
    BY <1>1, <1>2, <1>3, <1>4, <1>5

LEMMA PlanUnchangedInv ==
  ASSUME FolderInv, PlanUnchanged
  PROVE  FolderInv'
  <1> USE DEF FolderInv, executables, PlanUnchanged, MayChange, Conclude, Inspected
  <1>1. TypeOK'
    BY DEF TypeOK, Steps, Commands, Answers
  <1>2. SurvivorsInv'
    BY SameSurvivors, DiskHolds, NoTransactionFacts, Constants DEF Manifested, DiskInv, Pending
  <1>3. Control'
    BY DEF Control, Preparing, Applying, Manifested
  <1>4. Asked'
    BY DEF Asked, Preparing, Applying, Manifested
  <1>5. Seen'
    BY DEF Seen
  <1> QED
    BY <1>1, <1>2, <1>3, <1>4, <1>5

LEMMA VerifyInv ==
  ASSUME FolderInv, Verify
  PROVE  FolderInv'
  <1> USE DEF FolderInv, executables, Verify, Conclude, Inspected
  <1>1. TypeOK'
    BY DEF TypeOK, Steps, Commands, Answers
  <1>2. SurvivorsInv'
    BY SameSurvivors DEF Manifested
  <1>3. Control'
    BY Constants DEF Control, Preparing, Applying, Manifested
  <1>4. Asked'
    BY DEF Asked, Preparing, Applying, Manifested
  <1>5. Seen'
    BY DEF Seen
  <1> QED
    BY <1>1, <1>2, <1>3, <1>4, <1>5

LEMMA InspectInv ==
  ASSUME FolderInv, Inspect
  PROVE  FolderInv'
  <1> USE DEF FolderInv, executables, Inspect, Conclude, Inspected
  <1>1. TypeOK'
    BY DEF TypeOK, Steps, Commands, Answers
  <1>2. SurvivorsInv'
    BY SameSurvivors DEF Manifested
  <1>3. Control'
    <2>1. item \in Nat /\ disk.tx.moved \in Nat
      BY DiskHolds, DiskFacts, Constants DEF TypeOK, Items
    <2>2. item <= disk.tx.moved + 1
      BY DEF Control
    <2>3. ~(item <= disk.tx.moved) => item = disk.tx.moved + 1
      BY <2>1, <2>2
    <2>4. pc' = "move" => IsPrepared(disk) /\ item = disk.tx.moved + 1
      BY <2>3 DEF InspectOK, Complete
    <2> QED
      BY <2>4 DEF Control, Preparing, Applying, Manifested
  <1>4. Asked'
    BY DEF Asked, Preparing, Applying, Manifested
  <1>5. Seen'
    BY Constants DEF Seen, InspectOK, Complete, Matches
  <1> QED
    BY <1>1, <1>2, <1>3, <1>4, <1>5

LEMMA FinalizeInv ==
  ASSUME FolderInv, Finalize
  PROVE  FolderInv'
  <1> USE DEF FolderInv, executables, Finalize, Conclude, Inspected
  <1>1. TypeOK'
    BY DEF TypeOK, Steps, Commands, Answers
  <1>2. SurvivorsInv'
    BY SameSurvivors DEF Manifested
  <1>3. Control'
    BY DEF Control, Preparing, Applying, Manifested
  <1>4. Asked'
    BY DEF Asked, Preparing, Applying, Manifested
  <1>5. Seen'
    BY DEF Seen
  <1> QED
    BY <1>1, <1>2, <1>3, <1>4, <1>5

\* The archive a command closes is that of the Folder's revision.
LEMMA ArchivedRevision ==
  ASSUME TypeOK, SurvivorsInv, NEW r \in Revisions, ArchiveOK(disk, r)
  PROVE  Rev(disk) = r
  <1>1. disk.active[Manifest].ino = disk.archive[r] /\ disk.archive[r] # 0
    BY Constants DEF ArchiveOK
  <1> QED
    BY <1>1, DiskHolds DEF DiskInv, ArchiveInv

LEMMA SealedInv ==
  ASSUME FolderInv, Sealed
  PROVE  FolderInv' /\ known' \in {known, Rev(disk)}
  <1> USE DEF FolderInv, executables, Sealed, Conclude, Inspected
  <1>1. known' \in {known, Rev(disk)}
    <2>1. CASE known' = known
      BY <2>1
    <2>2. CASE known' # known
      <3>1. ArchiveOK(disk, target) /\ op = "resume" /\ Tell(target)
        BY <2>2 DEF Goal
      <3>2. target \in Revisions
        BY <3>1, BoundsAssumption DEF Control, TypeOK, RevisionOrNone, Revisions
      <3> QED
        BY <3>1, <3>2, ArchivedRevision DEF Tell
    <2> QED
      BY <2>1, <2>2
  <1>2. TypeOK'
    BY <1>1, DiskHolds DEF TypeOK, Steps, Commands, Answers
  <1>3. SurvivorsInv'
    BY <1>1, ToldSurvivors DEF Manifested
  <1>4. Control'
    BY DEF Control, Preparing, Applying, Manifested
  <1>5. Asked'
    BY DEF Asked, Preparing, Applying, Manifested
  <1>6. Seen'
    BY DEF Seen
  <1> QED
    BY <1>1, <1>2, <1>3, <1>4, <1>5, <1>6

LEMMA ResumeInv ==
  ASSUME FolderInv, Resume
  PROVE  FolderInv'
  <1> USE DEF FolderInv, executables, Resume, Conclude, Inspected
  <1>1. TypeOK'
    BY DEF TypeOK, Steps, Commands, Answers
  <1>2. disk.tx.moved \in Nat /\ (~Pending(disk) => disk.tx.moved = 0)
    BY DiskHolds, DiskFacts, NoTransactionFacts, Constants DEF DiskInv
  <1>3. SurvivorsInv'
    BY <1>2, Constants, SameSurvivors DEF Manifested
  <1>4. CanResume => target # 0
    <2>1. Pending(disk) => disk.tx.next >= 2
      BY DiskHolds DEF DiskInv, JournalInv
    <2> QED
      BY <2>1 DEF CanResume
  <1>5. Control'
    <2>1. item = 1
      BY DEF Control
    <2> QED
      BY <1>2, <1>4, <2>1 DEF Control, Preparing, Applying, Manifested
  <1>6. op = "resume"
    BY DEF Control
  <1>7. Asked'
    BY <1>6 DEF Asked, Preparing, Applying, Manifested
  <1>8. Seen'
    BY DEF Seen
  <1> QED
    BY <1>1, <1>3, <1>5, <1>7, <1>8

LEMMA ReadInv ==
  ASSUME FolderInv, Read
  PROVE  FolderInv'
  <1> USE DEF FolderInv, executables, Read
  <1>1. known' \in {known, Rev(disk)}
    BY DEF Tell
  <1>2. TypeOK'
    BY <1>1, DiskHolds DEF TypeOK
  <1>3. disk.tx.moved # Manifest
    BY DiskHolds, NoTransactionFacts, Constants DEF DiskInv
  <1>4. SurvivorsInv'
    BY <1>1, <1>3, ToldSurvivors
  <1>5. Control' /\ Asked' /\ Seen'
    BY DEF Control, Asked, Seen, Preparing, Applying
  <1> QED
    BY <1>2, <1>4, <1>5

LEMMA UpgradeInv ==
  ASSUME FolderInv, Upgrade
  PROVE  FolderInv'
  <1> USE DEF FolderInv, executables, Upgrade
  <1>1. TypeOK'
    BY TemplatesAssumption DEF TypeOK, Steps, Commands, Answers
  <1>2. SurvivorsInv'
    BY SameSurvivors DEF Manifested
  <1>3. Control'
    BY DEF Control, Preparing, Applying, Manifested
  <1>4. Asked'
    BY DEF Asked, Preparing, Applying, Manifested
  <1>5. Seen'
    BY DEF Seen
  <1> QED
    BY <1>1, <1>2, <1>3, <1>4, <1>5

LEMMA StopInv ==
  ASSUME FolderInv, Stop
  PROVE  FolderInv'
  <1> USE DEF FolderInv, executables, Stop, Conclude, Inspected
  <1>1. TypeOK'
    BY BoundsAssumption DEF TypeOK, Steps, Commands, Answers
  <1>2. SurvivorsInv'
    BY SameSurvivors DEF Manifested
  <1>3. Control'
    BY DEF Control, Preparing, Applying, Manifested
  <1>4. Asked'
    BY DEF Asked, Preparing, Applying, Manifested
  <1>5. Seen'
    BY DEF Seen
  <1> QED
    BY <1>1, <1>2, <1>3, <1>4, <1>5

LEMMA LosePowerInv ==
  ASSUME FolderInv, LosePower
  PROVE  FolderInv'
  <1> USE DEF FolderInv, executables, LosePower, Conclude
  <1>1. TypeOK'
    <2>1. disk' \in Disks /\ survivors' \in SUBSET Disks
      BY DEF TypeOK
    <2>2. faults' \in 0 .. MaxFaults
      BY BoundsAssumption DEF TypeOK
    <2> QED
      BY <2>1, <2>2 DEF TypeOK, Steps, Answers
  <1>2. SurvivorsInv'
    <2>1. Rev(disk') <= Rev(disk')
      BY <1>1, DiskFacts DEF TypeOK, RevisionOrNone
    <2> QED
      BY <2>1 DEF SurvivorsInv
  <1>3. Control' /\ Asked' /\ Seen'
    BY DEF Control, Asked, Seen, Preparing, Applying
  <1> QED
    BY <1>1, <1>2, <1>3

-----------------------------------------------------------------------------
(* The directory syncs.                                                     *)

LEMMA MkdirSyncInv ==
  ASSUME FolderInv, Sync("mkdirSync", "open")
  PROVE  FolderInv'
  <1> USE DEF FolderInv, executables, Sync
  <1>1. TypeOK'
    BY Constants DEF TypeOK, Steps, Answers, Barrier, Items
  <1>2. SurvivorsInv'
    BY SyncedSurvivors
  <1>3. Control'
    <2>1. disk.tx.moved \in Nat /\ item \in Nat
      BY DiskHolds, DiskFacts, Constants DEF TypeOK, Items
    <2> QED
      BY <2>1, Constants DEF Control, Barrier, Preparing, Applying
  <1>4. Asked' /\ Seen'
    BY DEF Asked, Seen, Barrier, Preparing, Applying
  <1> QED
    BY <1>1, <1>2, <1>3, <1>4

LEMMA MoveSyncInv ==
  ASSUME FolderInv, MoveSync
  PROVE  FolderInv'
  <1> USE DEF FolderInv, executables, MoveSync
  <1>1. TypeOK'
    BY Constants DEF TypeOK, Steps, Answers, Barrier, Items
  <1>2. SurvivorsInv'
    BY SyncedSurvivors
  <1>3. Control'
    <2>1. disk.tx.moved \in Nat /\ item \in Nat
      BY DiskHolds, DiskFacts, Constants DEF TypeOK, Items
    <2> QED
      BY <2>1, Constants DEF Control, Barrier, Preparing, Applying
  <1>4. Asked' /\ Seen'
    BY DEF Asked, Seen, Barrier, Preparing, Applying
  <1> QED
    BY <1>1, <1>2, <1>3, <1>4

LEMMA SettleInv ==
  ASSUME FolderInv, Settle
  PROVE  FolderInv'
  <1> USE DEF FolderInv, executables, Settle, Sync
  <1>1. TypeOK'
    BY Constants DEF TypeOK, Steps, Answers, Barrier, Items
  <1>2. SurvivorsInv'
    BY SyncedSurvivors
  <1>3. Control'
    <2>1. disk.tx.moved \in Nat /\ item \in Nat
      BY DiskHolds, DiskFacts, Constants DEF TypeOK, Items
    <2> QED
      BY <2>1, Constants DEF Control, Barrier, Preparing, Applying
  <1>4. Asked' /\ Seen'
    BY DEF Asked, Seen, Barrier, Preparing, Applying
  <1> QED
    BY <1>1, <1>2, <1>3, <1>4

LEMMA ArchiveSyncInv ==
  ASSUME FolderInv, ArchiveSync
  PROVE  FolderInv'
  <1> USE DEF FolderInv, executables, ArchiveSync, Sync
  <1>1. TypeOK'
    BY Constants DEF TypeOK, Steps, Answers, Barrier, Items
  <1>2. SurvivorsInv'
    BY SyncedSurvivors
  <1>3. Control'
    <2>1. disk.tx.moved \in Nat /\ item \in Nat
      BY DiskHolds, DiskFacts, Constants DEF TypeOK, Items
    <2> QED
      BY <2>1, Constants DEF Control, Barrier, Preparing, Applying
  <1>4. Asked' /\ Seen'
    BY DEF Asked, Seen, Barrier, Preparing, Applying
  <1> QED
    BY <1>1, <1>2, <1>3, <1>4

LEMMA RetireSyncInv ==
  ASSUME FolderInv, RetireSync
  PROVE  FolderInv'
  <1> USE DEF FolderInv, executables, RetireSync, Conclude
  <1>1. TypeOK'
    BY Constants DEF TypeOK, Steps, Answers, Barrier, Items
  <1>2. SurvivorsInv'
    BY SyncedSurvivors
  <1>3. Control'
    <2>1. disk.tx.moved \in Nat /\ item \in Nat
      BY DiskHolds, DiskFacts, Constants DEF TypeOK, Items
    <2> QED
      BY <2>1, Constants DEF Control, Barrier, Preparing, Applying
  <1>4. Asked' /\ Seen'
    BY DEF Asked, Seen, Barrier, Preparing, Applying
  <1> QED
    BY <1>1, <1>2, <1>3, <1>4

-----------------------------------------------------------------------------
(* The steps that change the disk.                                          *)

LEMMA PlanChangeInv ==
  ASSUME FolderInv, PlanChange
  PROVE  FolderInv'
  <1> USE DEF FolderInv
  <1>0. made + 1 \in Revisions /\ own \in 1 .. Templates
    BY BoundsAssumption DEF TypeOK, PlanChange, Revisions
  <1>1. /\ disk \in Disks /\ DiskInv(disk, made, template) /\ template \in TemplateOf
        /\ made \in Revisions /\ made + 1 \in Revisions /\ Rev(disk) \in Revisions
        /\ own \in 1 .. Templates
    BY <1>0, DiskHolds
  <1>2. /\ template' \in TemplateOf
        /\ \A k \in Inodes : k <= made => template'[k] = template[k]
        /\ template'[made + 1] = own
    <2>1. made + 1 \in Inodes /\ \A k \in Inodes : k <= made => k # made + 1
      BY <1>1 DEF Revisions, Inodes
    <2> QED
      BY <1>1, <2>1 DEF PlanChange, TemplateOf
  <1>3. ~Pending(disk) /\ Undrifted(disk) /\ template[disk.active[Manifest].ino] <= own
    BY DEF PlanChange, MayChange, Rendered
  <1>4. /\ disk' = Planned(disk, made + 1)
        /\ survivors' = survivors \cup {disk'} /\ made' = made + 1 /\ known' = known
    BY DEF PlanChange, Put, Planned
  <1>5. /\ disk' \in Disks /\ DiskInv(disk', made', template')
        /\ Rev(disk') = Rev(disk) /\ Pending(disk') /\ disk'.tx.moved = 0
        /\ disk'.tx.staged = 0 /\ disk'.tx.next = Rev(disk) + 1
    BY <1>1, <1>2, <1>3, <1>4, PlanDisk
  <1>6. TypeOK'
    BY <1>1, <1>2, <1>4, <1>5
       DEF TypeOK, PlanChange, Put, Inspected, Steps, TemplateOf
  <1>7. SurvivorsInv'
    <2>1. \A d \in survivors : DiskInv(d, made', template')
      BY <1>1, <1>2, <1>4, GrownSurvivors
    <2>2. disk.tx.moved # Manifest
      BY <1>1, <1>3, NoTransactionFacts, Constants DEF DiskInv
    <2> QED
      BY <1>1, <1>4, <1>5, <2>1, <2>2, PutSurvivors
  <1>8. Control'
    BY <1>5 DEF PlanChange, Control, Preparing, Applying
  <1>9. Asked'
    BY <1>5 DEF PlanChange, MayChange, Asked, Preparing, Applying
  <1>10. Seen'
    BY DEF PlanChange, Seen
  <1> QED
    BY <1>6, <1>7, <1>8, <1>9, <1>10

\* Open and Write go one step along the staging order.
LEMMA StageInv ==
  ASSUME FolderInv, NEW k \in 0 .. Prepared, NEW b \in BOOLEAN,
         pc \in {"open", "write"},
         disk' = Staged(disk, k, b),
         survivors' \subseteq survivors \cup {disk'}, disk' \in survivors',
         UNCHANGED <<op, target, item, made, answer, known, unseen, edits, faults,
                     executables>>,
         pc' \in {"open", "write", "verify", "inspect"},
         pc' = "open" => k < Prepared,
         pc' = "verify" => k = N + 3,
         pc' = "write" => k >= 1 /\ b
  PROVE  FolderInv'
  <1> USE DEF FolderInv, executables
  <1>1. /\ disk \in Disks /\ DiskInv(disk, made, template) /\ template \in TemplateOf
        /\ made \in Revisions /\ Rev(disk) \in Revisions
    BY DiskHolds
  <1>2. Pending(disk) /\ disk.tx.moved = 0 /\ ~IsPrepared(disk) /\ item = 1
    <2>1. disk.tx.staged < Prepared => disk.tx.staged # Prepared
      BY <1>1, DiskFacts, Constants
    <2> QED
      BY <2>1 DEF Control, Preparing, IsPrepared
  <1>3. disk' \in Disks /\ DiskInv(disk', made, template) /\ Rev(disk') = Rev(disk)
    BY <1>1, <1>2, StageDisk
  <1>4. /\ disk'.tx.id = disk.tx.id /\ disk'.tx.next = disk.tx.next
        /\ disk'.tx.moved = 0 /\ disk'.tx.staged = k /\ disk'.tx.partial = b
    <2>1. PICK x \in Transactions : x = disk.tx
      BY <1>1, DiskFacts
    <2>2. disk'.tx = [x EXCEPT !.staged = k, !.partial = b]
      BY <1>1, <2>1 DEF Disks, Staged
    <2>3. disk'.tx.id = x.id /\ disk'.tx.next = x.next /\ disk'.tx.moved = x.moved
      BY ONLY <2>2, x \in Transactions DEF Transactions
    <2>4. disk'.tx.staged = k /\ disk'.tx.partial = b
      BY ONLY <2>2, x \in Transactions DEF Transactions
    <2> QED
      BY <1>2, <2>1, <2>3, <2>4
  <1>5. TypeOK'
    BY <1>3 DEF TypeOK, Steps
  <1>6. SurvivorsInv'
    <2>1. \A d \in survivors : DiskInv(d, made', template')
      BY DEF SurvivorsInv
    <2>2. disk.tx.moved # Manifest
      BY <1>2, Constants
    <2> QED
      BY <1>1, <1>3, <2>1, <2>2, PutSurvivors
  <1>7. Control'
    <2>1. item' = 1 /\ item' <= disk'.tx.moved + 1 /\ Pending(disk')
      BY <1>2, <1>4 DEF Pending
    <2>2. op = "change" /\ pc' \notin {"mkdirSync", "move", "moveSync", "resume", "archiveSync", "sealed"}
      BY DEF Control, Preparing
    <2>3. pc' = "inspect" /\ op' = "resume" => target' # 0
      BY DEF Control, Preparing
    <2> QED
      BY <1>4, <2>1, <2>2, <2>3 DEF Control, Preparing, Applying
  <1>8. Asked'
    BY <1>4 DEF Asked, Preparing, Applying
  <1>9. Seen'
    BY DEF Seen
  <1> QED
    BY <1>5, <1>6, <1>7, <1>8, <1>9

LEMMA OpenInv ==
  ASSUME FolderInv, Open
  PROVE  FolderInv'
  <1>1. disk.tx.staged \in 0 .. Prepared /\ disk.tx.staged < Prepared
    BY DiskHolds, DiskFacts DEF FolderInv, Control, Open
  <1>2. /\ disk.tx.staged + 1 \in 0 .. Prepared /\ disk.tx.staged + 1 >= 1
    BY <1>1, Constants
  <1>3. disk' = Staged(disk, disk.tx.staged + 1, TRUE)
    BY DEF Open, Put, Staged
  <1> QED
    BY <1>2, <1>3, StageInv DEF Open, Put

LEMMA WriteInv ==
  ASSUME FolderInv, Write
  PROVE  FolderInv'
  <1>1. disk.tx.staged \in 0 .. Prepared
    BY DiskHolds, DiskFacts DEF FolderInv
  <1>2. disk.tx.staged # Prepared => disk.tx.staged < Prepared
    BY <1>1, Constants
  <1>3. disk' = [disk EXCEPT !.tx.partial = FALSE]
    BY DEF Write, Put
  <1>4. disk' = Staged(disk, disk.tx.staged, FALSE)
    <2>1. PICK x \in Transactions : x = disk.tx
      BY DiskHolds, DiskFacts DEF FolderInv
    <2>2. [x EXCEPT !.partial = FALSE] = [x EXCEPT !.staged = x.staged, !.partial = FALSE]
      BY <2>1 DEF Transactions
    <2>3. /\ disk' = [disk EXCEPT !.tx = [x EXCEPT !.partial = FALSE]]
          /\ Staged(disk, disk.tx.staged, FALSE)
               = [disk EXCEPT !.tx = [x EXCEPT !.staged = x.staged, !.partial = FALSE]]
      BY <1>3, <2>1, DiskHolds DEF FolderInv, Disks, Staged
    <2> QED
      BY <2>2, <2>3
  <1>5. survivors' \subseteq survivors \cup {disk'} /\ disk' \in survivors'
    BY DEF Write, Put
  <1>6. /\ pc' \in {"open", "verify", "inspect"}
        /\ pc' = "open" => disk.tx.staged < Prepared
        /\ pc' = "verify" => disk.tx.staged = N + 3
    BY <1>2 DEF Write
  <1> QED
    BY <1>1, <1>4, <1>5, <1>6, StageInv DEF Write

LEMMA MoveInv ==
  ASSUME FolderInv, Move
  PROVE  /\ FolderInv'
         /\ item # Manifest => Rev(disk') = Rev(disk)
         /\ item = Manifest => Rev(disk') = Rev(disk) + 1
         /\ template[disk.active[Manifest].ino] <= template[disk'.active[Manifest].ino]
         /\ UNCHANGED <<known, template>>
  <1> USE DEF FolderInv, executables
  <1>1. /\ disk \in Disks /\ DiskInv(disk, made, template) /\ template \in TemplateOf
        /\ made \in Revisions /\ Rev(disk) \in Revisions
    BY DiskHolds
  <1>2. item \in Items /\ IsPrepared(disk) /\ item = disk.tx.moved + 1
    BY DEF TypeOK, Control, Move
  <1>3. /\ disk' = Replaced(disk, item) /\ survivors' = survivors \cup {disk'}
        /\ pc' = "moveSync"
        /\ UNCHANGED <<op, target, item, made, answer, known, unseen, edits, faults,
                       product, own, template>>
    BY DEF Move, Put, Replaced
  <1>4. /\ disk' \in Disks /\ DiskInv(disk', made, template)
        /\ disk'.tx.moved = item /\ disk'.tx.next = disk.tx.next
        /\ item # Manifest => Rev(disk') = Rev(disk)
        /\ item = Manifest => Rev(disk') = Rev(disk) + 1
        /\ template[disk.active[Manifest].ino] <= template[disk'.active[Manifest].ino]
    BY <1>1, <1>2, <1>3, MoveDisk
  <1>5. TypeOK'
    BY <1>3, <1>4 DEF TypeOK, Steps
  <1>6. SurvivorsInv'
    <2>1. disk.tx.moved # Manifest /\ (item = Manifest \/ item # Manifest)
      BY <1>1, <1>2, DiskFacts, Constants DEF Items
    <2>2. \A d \in survivors : Rev(d) = Rev(disk) /\ DiskInv(d, made, template)
                              /\ known <= Rev(d)
      BY <2>1 DEF SurvivorsInv
    <2>3. Rev(disk) <= Rev(disk) + 1 /\ Rev(disk) <= Rev(disk) /\ Rev(disk) + 1 <= Rev(disk) + 1
          /\ known <= Rev(disk) /\ known <= Rev(disk) + 1
      BY <1>1, DiskHolds DEF Revisions, TypeOK
    <2>4. pc' \notin Manifested
      BY <1>3 DEF Manifested
    <2>5. \A d \in survivors' :
            /\ DiskInv(d, made, template) /\ known <= Rev(d) /\ Rev(d) <= Rev(disk')
            /\ item # Manifest => Rev(d) = Rev(disk')
      BY <2>2, <2>3, <1>3, <1>4
    <2> QED
      BY <2>4, <2>5, <1>3, <1>4 DEF SurvivorsInv
  <1>7. Control'
    <2>1. item <= disk'.tx.moved
      BY <1>2, <1>4, Constants DEF Items
    <2> QED
      BY <1>3, <2>1 DEF Move, Control, Preparing, Applying
  <1>8. Asked' /\ Seen'
    BY <1>3, <1>4 DEF Move, Asked, Seen, Preparing, Applying
  <1> QED
    BY <1>3, <1>4, <1>5, <1>6, <1>7, <1>8

LEMMA ArchiveStepInv ==
  ASSUME FolderInv, Archive
  PROVE  FolderInv' /\ disk'.active = disk.active /\ UNCHANGED <<known, template>>
  <1> USE DEF FolderInv, executables
  <1>1. CASE UNCHANGED <<disk, survivors>> /\ pc' = "idle" /\ answer' = "failed"
    <2> USE <1>1 DEF Archive, Inspected
    <2>1. TypeOK'
      BY DEF TypeOK, Steps, Answers
    <2>2. SurvivorsInv'
      BY SameSurvivors DEF Manifested
    <2>3. Control' /\ Asked' /\ Seen'
      BY DEF Control, Asked, Seen, Preparing, Applying
    <2> QED
      BY <2>1, <2>2, <2>3
  <1>2. CASE /\ InspectOK(disk) /\ Applied(disk)
             /\ disk' = Archived(disk) /\ survivors' = survivors \cup {disk'}
             /\ pc' = "archiveSync" /\ UNCHANGED answer
    <2>1. /\ disk \in Disks /\ DiskInv(disk, made, template) /\ template \in TemplateOf
          /\ made \in Revisions /\ Rev(disk) \in Revisions
      BY DiskHolds
    <2>2. /\ disk' \in Disks /\ DiskInv(disk', made, template) /\ Rev(disk') = Rev(disk)
          /\ disk'.active = disk.active /\ Rev(disk) = disk.tx.next
      BY <1>2, <2>1, ArchiveDisk DEF InspectOK
    <2> USE <1>2 DEF Archive, Inspected
    <2>3. TypeOK'
      BY <2>2 DEF TypeOK, Steps
    <2>4. SurvivorsInv'
      <3>1. \A d \in survivors : DiskInv(d, made', template')
        BY DEF SurvivorsInv
      <3>2. pc \in Manifested
        BY DEF Manifested
      <3> QED
        BY <2>1, <2>2, <3>1, <3>2, PutSurvivors
    <2>5. Control' /\ Asked' /\ Seen'
      BY <2>2 DEF Control, Asked, Seen, Preparing, Applying
    <2> QED
      BY <2>2, <2>3, <2>4, <2>5
  <1> QED
    BY <1>1, <1>2 DEF Archive, Archived, Put, SameDisk, Conclude

LEMMA BuddyInv ==
  ASSUME FolderInv, Buddy
  PROVE  /\ FolderInv' /\ disk'.active = disk.active
         /\ known' \in {known, Rev(disk)} /\ UNCHANGED template
  <1> USE DEF FolderInv, executables
  <1>1. /\ disk \in Disks /\ DiskInv(disk, made, template) /\ template \in TemplateOf
        /\ made \in Revisions /\ Rev(disk) \in Revisions /\ Rev(disk) \in RevisionOrNone
    BY DiskHolds, DiskFacts
  <1>2. /\ disk' = [disk EXCEPT !.buddy = Rev(disk)]
        /\ survivors' \subseteq survivors \cup {disk'} /\ disk' \in survivors'
    BY DEF Buddy, SurvivorsInv
  <1>3. /\ disk' \in Disks /\ DiskInv(disk', made, template) /\ Rev(disk') = Rev(disk)
        /\ disk'.active = disk.active /\ disk'.tx = disk.tx
    BY <1>1, <1>2, BuddyDisk
  <1>4. known' \in {known, Rev(disk)}
    BY DEF Buddy, Tell
  <1>5. TypeOK'
    <2>1. survivors' \subseteq Disks
      BY <1>2, <1>3 DEF TypeOK
    <2> QED
      BY <2>1, <1>1, <1>3, <1>4 DEF TypeOK, Buddy, Steps
  <1>6. SurvivorsInv'
    <2>1. \A d \in survivors' : DiskInv(d, made, template) /\ Rev(d) = Rev(disk)
      BY <1>2, <1>3 DEF SurvivorsInv, Buddy, Manifested
    <2>2. known <= Rev(disk) /\ Rev(disk) <= Rev(disk)
      BY <1>1, DiskHolds DEF Revisions
    <2> QED
      BY <2>1, <2>2, <1>2, <1>3, <1>4 DEF SurvivorsInv, Buddy
  <1>7. Control' /\ Asked' /\ Seen'
    BY <1>3 DEF Buddy, Control, Asked, Seen, Preparing, Applying
  <1> QED
    BY <1>3, <1>4, <1>5, <1>6, <1>7 DEF Buddy

LEMMA RetireInv ==
  ASSUME FolderInv, Retire
  PROVE  FolderInv' /\ disk'.active = disk.active /\ UNCHANGED <<known, template>>
  <1> USE DEF FolderInv, executables
  <1>1. CASE SameDisk
    <2> USE <1>1 DEF SameDisk, Conclude, Retire, Inspected
    <2>1. TypeOK'
      BY DEF TypeOK, Steps, Answers
    <2>2. SurvivorsInv'
      BY SameSurvivors DEF Manifested
    <2>3. Control'
      BY DEF Control, Preparing, Applying
    <2>4. Asked' /\ Seen'
      BY DEF Asked, Seen, Preparing, Applying
    <2> QED
      BY <2>1, <2>2, <2>3, <2>4
  <1>2. CASE /\ Retirable(disk)
             /\ disk' = Retired(disk) /\ survivors' = survivors \cup {disk'}
             /\ pc' = "retireSync" /\ UNCHANGED answer
    <2>1. /\ disk \in Disks /\ DiskInv(disk, made, template) /\ template \in TemplateOf
          /\ made \in Revisions /\ Rev(disk) \in Revisions
      BY DiskHolds
    <2>2. ~IsPrepared(disk)
      BY <1>2, <2>1, DiskFacts, Constants DEF Retirable, IsPrepared
    <2>3. /\ disk' \in Disks /\ DiskInv(disk', made, template) /\ Rev(disk') = Rev(disk)
      BY <1>2, <2>1, <2>2, RetireDisk
    <2>4. disk'.active = disk.active
      BY <1>2, <2>1 DEF Disks, Retired
    <2>5. disk.tx.moved # Manifest
      BY <2>1, <2>2, Constants DEF DiskInv, Uniform
    <2> USE <1>2 DEF Retire, Inspected
    <2>6. TypeOK'
      BY <2>3 DEF TypeOK, Steps
    <2>7. SurvivorsInv'
      <3>1. \A d \in survivors : DiskInv(d, made', template')
        BY DEF SurvivorsInv
      <3> QED
        BY <2>1, <2>3, <2>5, <3>1, PutSurvivors
    <2>8. Control' /\ Asked' /\ Seen'
      BY DEF Control, Asked, Seen, Preparing, Applying
    <2> QED
      BY <2>4, <2>6, <2>7, <2>8
  <1> QED
    BY <1>1, <1>2 DEF Retire, Retired, Put

\* What the person does to an output.
LEMMA PersonInv ==
  ASSUME FolderInv, NEW i \in Outputs, NEW f \in Files, Saved(i, f),
         edits' = edits \/ (edits < MaxEdits /\ edits' = edits + 1),
         f.rev = disk.active[i].rev,
         \/ f.ino = disk.active[i].ino /\ made' = made
         \/ f.ino = made + 1 /\ made' = made + 1 /\ made < MaxInodes
         \/ f.ino = 0 /\ f.rev = 0 /\ made' = made
  PROVE  /\ FolderInv' /\ Rev(disk') = Rev(disk)
         /\ disk'.active[Manifest] = disk.active[Manifest]
         /\ \A j \in Outputs : disk'.active[j].rev = disk.active[j].rev
         /\ UNCHANGED <<known, template>>
  <1> USE DEF FolderInv, executables
  <1>1. /\ disk \in Disks /\ DiskInv(disk, made, template) /\ template \in TemplateOf
        /\ made \in Revisions /\ Rev(disk) \in Revisions
    BY DiskHolds
  <1>2. /\ disk' = Edited(disk, i, f) /\ survivors' = survivors \cup {disk'}
        /\ unseen' = unseen \cup {i}
        /\ UNCHANGED <<pc, op, target, item, answer, known, faults, product, own,
                       template>>
    BY DEF Saved, Put, Edited
  <1>3. made' \in Revisions /\ made <= made' /\ made \in Nat
    BY <1>1, BoundsAssumption DEF Revisions
  <1>4. \A d \in survivors : DiskInv(d, made', template')
    <2>1. CASE made' = made
      BY <2>1, <1>2 DEF SurvivorsInv
    <2>2. CASE made' = made + 1
      BY <2>2, <1>1, <1>2, <1>3, GrownSurvivors
    <2> QED
      BY <2>1, <2>2
  <1>5. DiskInv(disk, made', template)
    BY <1>2, <1>4 DEF SurvivorsInv
  <1>6. \/ f.ino = disk.active[i].ino
        \/ f.ino = made' /\ made < made'
        \/ f.ino = 0 /\ f.rev = 0
    BY <1>3
  <1>7. /\ disk' \in Disks /\ DiskInv(disk', made', template) /\ Rev(disk') = Rev(disk)
        /\ disk'.tx = disk.tx /\ disk'.active[i] = f
        /\ \A j \in Items : j # i => disk'.active[j] = disk.active[j]
    BY <1>1, <1>2, <1>3, <1>5, <1>6, EditDisk
  <1>8. TypeOK'
    <2>1. edits' \in 0 .. MaxEdits
      BY <1>2, BoundsAssumption DEF TypeOK
    <2> QED
      BY <2>1, <1>2, <1>3, <1>7 DEF TypeOK
  <1>9. SurvivorsInv'
    BY <1>1, <1>2, <1>4, <1>7, PutSurvivors
  <1>10. Control' /\ Asked'
    <2>1. (Pending(disk') <=> Pending(disk)) /\ (IsPrepared(disk') <=> IsPrepared(disk))
      BY <1>7 DEF Pending, IsPrepared
    <2> QED
      BY <2>1, <1>2, <1>7 DEF Control, Asked
  <1>11. Seen'
    BY <1>2, <1>7, Constants DEF Seen
  <1> QED
    BY <1>2, <1>7, <1>8, <1>9, <1>10, <1>11, Constants

LEMMA EditInv ==
  ASSUME FolderInv, NEW i \in Outputs, EditInPlace(i) \/ PutFile(i) \/ RemoveForeign(i)
  PROVE  /\ FolderInv' /\ Rev(disk') = Rev(disk)
         /\ disk'.active[Manifest] = disk.active[Manifest]
         /\ \A j \in Outputs : disk'.active[j].rev = disk.active[j].rev
         /\ UNCHANGED <<known, template>>
  <1>1. disk.active[i] \in Files /\ made \in Revisions
    BY DiskHolds, DiskFacts, Constants DEF FolderInv
  <1>2. CASE EditInPlace(i)
    <2>1. PICK e \in BOOLEAN : Person(i, [disk.active[i] EXCEPT !.edited = e])
      BY <1>2 DEF EditInPlace
    <2>2. PICK f \in Files : f = [disk.active[i] EXCEPT !.edited = e]
      BY <1>1 DEF Files
    <2>3. f.rev = disk.active[i].rev /\ f.ino = disk.active[i].ino
      BY <1>1, <2>2 DEF Files
    <2> QED
      BY <1>2, <2>1, <2>2, <2>3, PersonInv DEF EditInPlace, Person
  <1>3. CASE PutFile(i)
    <2>1. PICK e \in BOOLEAN :
            Person(i, [rev |-> disk.active[i].rev, ino |-> made + 1, edited |-> e])
      BY <1>3 DEF PutFile
    <2>2. PICK f \in Files :
            f = [rev |-> disk.active[i].rev, ino |-> made + 1, edited |-> e]
      <3>1. made + 1 \in Inodes
        BY <1>1, <1>3, BoundsAssumption DEF PutFile, Revisions, Inodes
      <3>2. disk.active[i].rev \in RevisionOrNone
        BY <1>1 DEF Files
      <3> QED
        BY <3>1, <3>2 DEF Files
    <2>3. f.rev = disk.active[i].rev /\ f.ino = made + 1
      BY <2>2
    <2> QED
      BY <1>3, <2>1, <2>2, <2>3, PersonInv DEF PutFile, Person
  <1>4. CASE RemoveForeign(i)
    <2>1. Absent \in Files /\ Absent.rev = 0 /\ Absent.ino = 0
      BY BoundsAssumption DEF Absent, Files, RevisionOrNone, Inodes
    <2> QED
      BY <1>4, <2>1, PersonInv DEF RemoveForeign
  <1> QED
    BY <1>2, <1>3, <1>4

-----------------------------------------------------------------------------
(* Every step, and what it does to the Folder and to what was told of it.   *)

\* The files and what rendered them stay; a revision may be told.
Quiet ==
  /\ disk'.active = disk.active
  /\ known' \in {known, Rev(disk)}
  /\ template'[disk.active[Manifest].ino] = template[disk.active[Manifest].ino]

Effect ==
  \/ LosePower
  \/ /\ Rendered(disk)' >= Rendered(disk)
     /\ \A i \in Outputs :
          disk.active[i].edited /\ disk'.active[i].rev # disk.active[i].rev
            => i \in unseen
     /\ \/ Rev(disk') = Rev(disk) /\ known' \in {known, Rev(disk)}
        \/ Rev(disk') = Rev(disk) + 1 /\ known' = known

LEMMA QuietEffect ==
  ASSUME FolderInv, Quiet
  PROVE  Effect
  <1>1. template[disk.active[Manifest].ino] \in 1 .. Templates
    BY DiskHolds, DiskFacts, Constants DEF FolderInv, TemplateOf
  <1> QED
    BY <1>1 DEF Quiet, Effect, Rendered, Rev

LEMMA MoveEffect ==
  ASSUME FolderInv, Move
  PROVE  FolderInv' /\ Effect
  <1>1. /\ Rendered(disk)' >= Rendered(disk)
    <2>1. /\ template[disk.active[Manifest].ino] \in 1 .. Templates
          /\ template'[disk'.active[Manifest].ino] \in 1 .. Templates
      BY MoveInv, DiskFacts, Constants DEF FolderInv, TypeOK
    <2> QED
      BY <2>1, MoveInv DEF Rendered
  <1>2. \A i \in Outputs :
          disk.active[i].edited /\ disk'.active[i].rev # disk.active[i].rev
            => i \in unseen
    <2>1. \A j \in Items : j # item => disk'.active[j] = disk.active[j]
      BY DiskHolds DEF FolderInv, Move, Put, Disks
    <2>2. \A i \in Outputs \ unseen : ~disk.active[i].edited
      BY DEF FolderInv, Seen, Move
    <2> QED
      BY <2>1, <2>2, Constants
  <1>3. \/ Rev(disk') = Rev(disk) /\ known' \in {known, Rev(disk)}
        \/ Rev(disk') = Rev(disk) + 1 /\ known' = known
    BY MoveInv
  <1> QED
    BY <1>1, <1>2, <1>3, MoveInv DEF Effect

LEMMA EditEffect ==
  ASSUME FolderInv, NEW i \in Outputs, EditInPlace(i) \/ PutFile(i) \/ RemoveForeign(i)
  PROVE  FolderInv' /\ Effect
  <1>1. template[disk.active[Manifest].ino] \in 1 .. Templates
    BY DiskHolds, DiskFacts, Constants DEF FolderInv, TemplateOf
  <1>2. /\ FolderInv' /\ Rev(disk') = Rev(disk)
        /\ disk'.active[Manifest] = disk.active[Manifest]
        /\ \A j \in Outputs : disk'.active[j].rev = disk.active[j].rev
        /\ UNCHANGED <<known, template>>
    BY EditInv
  <1> QED
    BY <1>1, <1>2 DEF Effect, Rendered

LEMMA StageQuiet ==
  ASSUME FolderInv, Open \/ Write
  PROVE  Quiet
  <1>1. disk \in Disks
    BY DEF FolderInv, TypeOK
  <1>2. disk'.active = disk.active
    BY <1>1 DEF Open, Write, Put, Disks
  <1> QED
    BY <1>2 DEF Open, Write, Quiet, executables

LEMMA PlanQuiet ==
  ASSUME FolderInv, PlanChange
  PROVE  Quiet
  <1>1. disk \in Disks /\ Bounded(disk, made) /\ made \in Revisions
    BY DiskHolds DEF FolderInv, DiskInv
  <1>2. disk'.active = disk.active
    BY <1>1 DEF PlanChange, Put, Disks
  <1>3. disk.active[Manifest].ino # made + 1
    BY <1>1, DiskFacts, Constants DEF Bounded, Inodes, Revisions
  <1>4. template'[disk.active[Manifest].ino] = template[disk.active[Manifest].ino]
    BY <1>1, <1>3, DiskFacts, Constants DEF PlanChange, FolderInv, TypeOK
  <1> QED
    BY <1>2, <1>4 DEF PlanChange, Quiet

\* A step that leaves the disk, what was told and what was rendered.
LEMMA StillQuiet ==
  ASSUME UNCHANGED <<disk, known, template>>
  PROVE  Quiet
  BY DEF Quiet

LEMMA StepEffect ==
  ASSUME FolderInv, Step
  PROVE  FolderInv' /\ Effect
  <1>1. CASE PlanRefuses
    BY <1>1, PlanRefusesInv, StillQuiet, QuietEffect DEF PlanRefuses, executables
  <1>2. CASE PlanUnchanged
    BY <1>2, PlanUnchangedInv, StillQuiet, QuietEffect DEF PlanUnchanged, executables
  <1>3. CASE PlanChange
    BY <1>3, PlanChangeInv, PlanQuiet, QuietEffect
  <1>4. CASE Sync("mkdirSync", "open")
    BY <1>4, MkdirSyncInv, StillQuiet, QuietEffect DEF Sync, Barrier, executables
  <1>5. CASE Open
    BY <1>5, OpenInv, StageQuiet, QuietEffect
  <1>6. CASE Write
    BY <1>6, WriteInv, StageQuiet, QuietEffect
  <1>7. CASE Verify
    BY <1>7, VerifyInv, StillQuiet, QuietEffect DEF Verify, executables
  <1>8. CASE Inspect
    BY <1>8, InspectInv, StillQuiet, QuietEffect DEF Inspect, executables
  <1>9. CASE Move
    BY <1>9, MoveEffect
  <1>10. CASE MoveSync
    BY <1>10, MoveSyncInv, StillQuiet, QuietEffect DEF MoveSync, Barrier, executables
  <1>11. CASE Settle
    BY <1>11, SettleInv, StillQuiet, QuietEffect DEF Settle, Sync, Barrier, executables
  <1>12. CASE Finalize
    BY <1>12, FinalizeInv, StillQuiet, QuietEffect DEF Finalize, executables
  <1>13. CASE Archive
    BY <1>13, ArchiveStepInv, QuietEffect DEF Quiet
  <1>14. CASE ArchiveSync
    BY <1>14, ArchiveSyncInv, StillQuiet, QuietEffect
       DEF ArchiveSync, Sync, Barrier, executables
  <1>15. CASE Sealed
    BY <1>15, SealedInv, QuietEffect DEF Sealed, Quiet, executables
  <1>16. CASE Buddy
    BY <1>16, BuddyInv, QuietEffect DEF Quiet
  <1>17. CASE Resume
    BY <1>17, ResumeInv, StillQuiet, QuietEffect DEF Resume, executables
  <1>18. CASE Retire
    BY <1>18, RetireInv, QuietEffect DEF Quiet
  <1>19. CASE RetireSync
    BY <1>19, RetireSyncInv, StillQuiet, QuietEffect DEF RetireSync, Barrier, executables
  <1> QED
    BY <1>1, <1>2, <1>3, <1>4, <1>5, <1>6, <1>7, <1>8, <1>9, <1>10, <1>11, <1>12, <1>13,
       <1>14, <1>15, <1>16, <1>17, <1>18, <1>19
       DEF Step, Change, Apply, Close, Recover

LEMMA NextEffect ==
  ASSUME FolderInv, [Next]_vars
  PROVE  FolderInv' /\ Effect
  <1>1. ASSUME NEW o \in Commands, NEW t \in RevisionOrNone, Begin(o, t)
        PROVE  FolderInv' /\ Effect
    BY <1>1, BeginInv, StillQuiet, QuietEffect DEF Begin
  <1>2. CASE Step
    BY <1>2, StepEffect
  <1>3. CASE Read
    BY <1>3, ReadInv, QuietEffect DEF Read, Tell, Quiet, executables
  <1>4. ASSUME NEW i \in Outputs, EditInPlace(i) \/ PutFile(i) \/ RemoveForeign(i)
        PROVE  FolderInv' /\ Effect
    BY <1>4, EditEffect
  <1>5. CASE Upgrade
    BY <1>5, UpgradeInv, StillQuiet, QuietEffect DEF Upgrade
  <1>6. CASE Stop
    BY <1>6, StopInv, StillQuiet, QuietEffect DEF Stop, executables
  <1>7. CASE LosePower
    BY <1>7, LosePowerInv DEF Effect
  <1>8. CASE UNCHANGED vars
    <2>1. Effect
      BY <1>8, StillQuiet, QuietEffect DEF vars
    <2>2. FolderInv'
      BY <1>8 DEF vars, FolderInv, TypeOK, SurvivorsInv, Control, Asked, Seen
    <2> QED
      BY <2>1, <2>2
  <1> QED
    BY <1>1, <1>2, <1>3, <1>4, <1>5, <1>6, <1>7, <1>8 DEF Next

\* The invariant holds in every behaviour.
THEOREM Invariance == Spec => []FolderInv
  <1>1. FolderInv /\ [Next]_vars => FolderInv'
    BY NextEffect
  <1> QED
    BY InitInv, <1>1, PTL DEF Spec

-----------------------------------------------------------------------------
(* The theorems.                                                            *)

\* Type correctness.
THEOREM TypeCorrect == Spec => []TypeOK
  BY Invariance, PTL DEF FolderInv

\* Without a prepared journal the Folder is of one revision, whatever a power
\* loss left of it.
THEOREM FolderIsWhole == Spec => []OneRevision
  <1>1. FolderInv => OneRevision
    BY DEF FolderInv, SurvivorsInv, DiskInv, OneRevision
  <1> QED
    BY Invariance, <1>1, PTL

\* A prepared journal can be completed while nobody disturbs the outputs,
\* wherever it stopped and whatever a power loss took back.
THEOREM PreparedIsResumable == Spec => []Resumable
  <1>1. FolderInv => Resumable
    <2> SUFFICES ASSUME FolderInv, NEW d \in survivors, IsPrepared(d), Undisturbed(d)
                 PROVE  Complete(d)
      BY DEF Resumable
    <2>1. d \in Disks /\ DiskInv(d, made, template)
      BY DEF FolderInv, TypeOK, SurvivorsInv
    <2>2. made \in Revisions /\ template \in TemplateOf
      BY DiskHolds DEF FolderInv
    <2> QED
      BY <2>1, <2>2, CompleteDisk
  <1> QED
    BY Invariance, <1>1, PTL

\* The history has exactly one journal for every revision the Folder went through.
THEOREM HistoryExact == Spec => []HistoryIsExact
  <1>1. FolderInv => HistoryIsExact
    BY DEF FolderInv, SurvivorsInv, DiskInv, ArchiveInv, HistoryIsExact
  <1> QED
    BY Invariance, <1>1, PTL

\* A revision that was told is never undone, not even by a power loss.
THEOREM ToldRevisionStands == Spec => []KnownStands
  <1>1. FolderInv => KnownStands
    BY DEF FolderInv, SurvivorsInv, KnownStands
  <1> QED
    BY Invariance, <1>1, PTL

\* An answered change is the successor of the revision its caller expected.
THEOREM ChangesCompareAndSwap == Spec => []CompareAndSwap
  <1>1. FolderInv => CompareAndSwap
    BY DEF FolderInv, Asked, CompareAndSwap
  <1> QED
    BY Invariance, <1>1, PTL

\* Bytes of the person are replaced only when they were written after the last
\* inspection.
THEOREM PersonalBytesStay == Spec => PersonalBytes
  <1>1. FolderInv /\ [Next]_vars =>
          [LosePower \/ \A i \in Outputs :
             disk.active[i].edited /\ disk'.active[i].rev # disk.active[i].rev
               => i \in unseen]_vars
    BY NextEffect DEF Effect
  <1> QED
    BY Invariance, <1>1, PTL DEF Spec, PersonalBytes

\* A Folder is never rendered by older templates than before.
THEOREM TemplatesGoForward == Spec => NeverOlder
  <1>1. FolderInv /\ [Next]_vars =>
          [LosePower \/ Rendered(disk)' >= Rendered(disk)]_vars
    BY NextEffect DEF Effect
  <1> QED
    BY Invariance, <1>1, PTL DEF Spec, NeverOlder

\* The change transaction implements the atomic counter.
THEOREM Refinement == Spec => ChangesAreAtomic
  <1>1. Init => AF!Init
    BY InitInv, Constants DEF Init, AF!Init, Rev
  <1>2. FolderInv /\ [Next]_vars => [AF!Next]_AF!vars
    <2> SUFFICES ASSUME FolderInv, [Next]_vars
                 PROVE  \/ Rev(disk') = Rev(disk) + 1 /\ known' = known
                        \/ /\ known' = Rev(disk) /\ known' > known
                           /\ Rev(disk') = Rev(disk)
                        \/ Rev(disk') \in known .. Rev(disk) /\ known' = known
                        \/ Rev(disk') = Rev(disk) /\ known' = known
      BY DEF AF!Next, AF!Change, AF!Tell, AF!LosePower, AF!vars, Rev
    <2>1. /\ known \in Nat /\ Rev(disk) \in Nat /\ known <= Rev(disk)
      BY DiskHolds DEF FolderInv, TypeOK, Revisions
    <2>2. CASE LosePower
      <3>1. disk' \in Disks /\ known <= Rev(disk') /\ Rev(disk') <= Rev(disk) /\ known' = known
        BY <2>2 DEF LosePower, FolderInv, TypeOK, SurvivorsInv
      <3>2. Rev(disk') \in Nat
        BY <3>1, DiskFacts DEF RevisionOrNone
      <3> QED
        BY <2>1, <3>1, <3>2
    <2>3. CASE ~LosePower
      <3>1. \/ Rev(disk') = Rev(disk) /\ known' \in {known, Rev(disk)}
            \/ Rev(disk') = Rev(disk) + 1 /\ known' = known
        BY <2>3, NextEffect DEF Effect
      <3> QED
        BY <2>1, <3>1
    <2> QED
      BY <2>2, <2>3
  <1> QED
    BY Invariance, <1>1, <1>2, PTL DEF Spec, ChangesAreAtomic, AF!Spec
=============================================================================
