---------------------------- MODULE ContentSync ----------------------------
(* Content synchronisation of one Organization: the run under the Folder's  *)
(* content lock, the checkouts it moves to their published commit, clones   *)
(* or removes when access has ended, the journal of a removal, the record   *)
(* the next run reads, an installation and the starts that clone a module's *)
(* data mounts, beside people who work in the checkouts and an Admin who    *)
(* gives and takes access.                                                  *)
(* A commit is a set of changes: 1 .. n were published, 0 is the person's.  *)
(* Of a checkout there is the branch the Organization declares, one other   *)
(* branch and whether its files are clean.  Not in this module: links and   *)
(* linked worktrees, restricted and guest slots, several Organizations, the *)
(* steps within the root's own synchronization, and power losses.           *)
\* Mutants: definitions named Bug... are plausible mistakes in the definition
\* that follows them; nothing uses them.
EXTENDS Naturals

CONSTANTS
  Modules,    \* the slots of modules
  Mounts,     \* the slots of their data mounts
  Parent,     \* the module of a data mount
  MaxPub,     \* bound: the commits published on a branch
  MaxEdits,   \* bound: what people, starts and GitHub change
  MaxFaults   \* bound: requests and writes that fail, and runs that are killed

ASSUME Slotted ==
  /\ Modules \cap Mounts = {} /\ Parent \in [Mounts -> Modules]
  /\ MaxPub \in Nat \ {0}
  /\ MaxEdits \in Nat /\ MaxFaults \in Nat

Slots == Modules \cup Mounts
ModuleOf(s) == IF s \in Mounts THEN Parent[s] ELSE s
Below(s) == {d \in Mounts : Parent[d] = s}
Changes == 0..MaxPub

VARIABLES
  pub,       \* GitHub: how many commits each branch has published
  access,    \* GitHub: the slots this identity may read
  copy,      \* disk: the checkout at each slot
  journal,   \* disk: the removal of a slot: no, named, moved
  marks,     \* record: the first proof of a slot: no, new, or old enough
  run,       \* the run that holds the content lock
  step,      \* where the run is with each slot
  verified,  \* the slots whose remote it read
  fetched,   \* how many commits its fetch or clone of a slot brought
  providing, \* the modules whose start is about to clone their data mounts
  proofs,    \* history: the proofs in a row, by every answer a run gave
  cut,       \* history: the slots whose other answer was never recorded
  edits, faults

githubVars == <<pub, access>>
diskVars == <<copy, journal>>
slotVars == <<step, verified, fetched>>
historyVars == <<proofs, cut>>
countVars == <<edits, faults>>
vars == <<githubVars, diskVars, marks, run, slotVars, providing,
          historyVars, countVars>>

NoRun == [kind |-> "none", phase |-> "idle", kids |-> {}, proof |-> "unasked",
          stopped |-> FALSE, marked |-> {}, cleared |-> {}]
NoCopy == [on |-> FALSE, declared |-> TRUE, main |-> {}, other |-> {}, dirty |-> FALSE]
Clone(n) == [on |-> TRUE, declared |-> TRUE, main |-> 1..n, other |-> 1..n, dirty |-> FALSE]

Head(c) == IF c.declared THEN c.main ELSE c.other
Marked == {s \in Slots : marks[s] # "no"}
Idle == run.phase = "idle"
Kids == run.kids \cap (IF run.phase = "module" THEN Modules
                       ELSE IF run.phase = "data" THEN Mounts ELSE {})
\* The directory of a module that holds nothing but a data mount.
Occupied(s) == \E d \in Below(s) : copy[d].on
OwnState(s) == ~copy[s].declared \/ copy[s].dirty
Fault == faults < MaxFaults /\ faults' = faults + 1
Edit == edits < MaxEdits /\ edits' = edits + 1

-----------------------------------------------------------------------------
(* People and GitHub                                                         *)

Works(s, c) ==
  /\ Edit /\ copy[s].on
  /\ copy' = [copy EXCEPT ![s] = c]
  /\ UNCHANGED <<githubVars, journal, marks, run, slotVars,
                 providing, historyVars, faults>>
Commit(s) ==
  Works(s, IF copy[s].declared THEN [copy[s] EXCEPT !.main = @ \cup {0}]
                               ELSE [copy[s] EXCEPT !.other = @ \cup {0}])
Touch(s) == Works(s, [copy[s] EXCEPT !.dirty = ~@])
Checkout(s) == Works(s, [copy[s] EXCEPT !.declared = ~@])

Push(s) ==
  /\ Edit /\ pub[s] < MaxPub
  /\ pub' = [pub EXCEPT ![s] = @ + 1]
  /\ UNCHANGED <<access, diskVars, marks, run, slotVars, providing,
                 historyVars, faults>>

Access(s) ==
  /\ Edit
  /\ access' = IF s \in access THEN access \ {s} ELSE access \cup {s}
  /\ UNCHANGED <<pub, diskVars, marks, run, slotVars, providing,
                 historyVars, faults>>

\* removalConfirmAfterMs pass.
HalfHour(s) ==
  /\ marks[s] = "new" \/ proofs[s] = "fresh"
  /\ marks' = [marks EXCEPT ![s] = IF @ = "new" THEN "old" ELSE @]
  /\ proofs' = [proofs EXCEPT ![s] = IF @ = "fresh" THEN "aged" ELSE @]
  /\ UNCHANGED <<githubVars, diskVars, run, slotVars, providing, cut, countVars>>

\* A module's start finds a data mount absent and GitHub lets it be read.
Starts(m) ==
  /\ Edit /\ m \in Modules \ providing /\ copy[m].on
  /\ \E d \in Below(m) : ~copy[d].on /\ d \in access
  /\ providing' = providing \cup {m}
  /\ UNCHANGED <<githubVars, diskVars, marks, run, slotVars, historyVars,
                 faults>>

\* provideRepository of each absent mount: under the content lock, or
\* refused; the directories down to the mount are made.
Provides(m) ==
  /\ m \in providing
  /\ providing' = providing \ {m}
  /\ \E W \in SUBSET {d \in Below(m) \cap access : ~copy[d].on /\ Idle} :
       copy' = [s \in Slots |-> IF s \in W THEN Clone(pub[s]) ELSE copy[s]]
  /\ UNCHANGED <<githubVars, journal, marks, run, slotVars, historyVars,
                 countVars>>

-----------------------------------------------------------------------------
(* The run                                                                   *)

\* syncContent of everything or of one repository, or an installation.
Begin(kind, W) ==
  /\ Idle
  /\ run' = [NoRun EXCEPT !.kind = kind, !.kids = W,
                          !.phase = IF kind = "install" THEN "module" ELSE "resume"]
  /\ UNCHANGED <<githubVars, diskVars, marks, slotVars, providing, historyVars,
                 countVars>>
Rest ==
  /\ run' = NoRun
  /\ step' = [s \in Slots |-> "todo"] /\ verified' = {}
  /\ fetched' = [s \in Slots |-> 0]
Everything == Begin("all", Slots)
One(s) == Begin("one", {s} \cup Below(s))
Install == Begin("install", Slots)

Shorter(j) == IF j = "moved" THEN "named" ELSE "no"
Reachable(s) == s \in Modules \/ copy[ModuleOf(s)].on \/ copy[s].on

\* resumeRemovals: the moved copy, then its journal; one whose directory is
\* not there any more stays, and so does one that cannot be deleted.
BugResumable(s) == journal[s] = "named" /\ Reachable(s)
Resumable(s) == journal[s] # "no" /\ Reachable(s)
Resume(s) ==
  /\ run.phase = "resume" /\ Resumable(s)
  /\ journal' = [journal EXCEPT ![s] = Shorter(@)]
  /\ UNCHANGED <<githubVars, copy, marks, run, slotVars,
                 providing, historyVars, countVars>>

\* The root goes on, with its declaration read or not; what a run of
\* everything finds undeclared has no proof any more.
Root ==
  /\ run.phase = "resume"
  /\ \/ /\ run' = [run EXCEPT !.phase = "module"] /\ UNCHANGED proofs
        /\ IF \E s \in Slots : Resumable(s) THEN Fault ELSE UNCHANGED faults
     \/ /\ Fault
        /\ run' = [run EXCEPT !.phase = "record", !.kids = {},
                              !.cleared = IF run.kind = "all" THEN Marked ELSE {}]
        /\ proofs' = IF run.kind = "all" THEN [s \in Slots |-> "none"] ELSE proofs
  /\ UNCHANGED <<githubVars, diskVars, marks, slotVars, providing, cut,
                 edits>>

\* The root did not end on its published commit.
RootStops ==
  /\ run.phase = "resume" /\ Fault
  /\ run' = [run EXCEPT !.phase = "record", !.kids = {}, !.stopped = TRUE, !.cleared = Marked]
  /\ proofs' = [s \in Slots |-> "none"]
  /\ UNCHANGED <<githubVars, diskVars, marks, slotVars, providing, cut,
                 edits>>

At(s, where) == s \in Kids /\ step[s] = where
Go(s, to) == step' = [step EXCEPT ![s] = to] /\ UNCHANGED <<verified, run, proofs>>
\* What the run answers for a slot; a proof is what Judge makes of it.
Tell(s, what) ==
  /\ verified' = IF what = "read" THEN verified \cup {s} ELSE verified
  /\ IF run.kind = "install" THEN step' = [step EXCEPT ![s] = "done"] /\ UNCHANGED <<run, proofs>>
     ELSE IF what \in {"own", "denied"}
     THEN step' = [step EXCEPT ![s] = "judge"] /\ UNCHANGED <<run, proofs>>
     ELSE /\ step' = [step EXCEPT ![s] = "done"]
          /\ run' = [run EXCEPT !.cleared = @ \cup {s}]
          /\ proofs' = [proofs EXCEPT ![s] = "none"]

\* A mount is cloned only below a module this run verified.
BugVerified(s) == s \in Modules \/ s \in access
Verified(s) == s \in Modules \/ ModuleOf(s) \in verified

\* Equal, ahead or diverged: nothing to move.
BugKnown(s, n) == copy[s].main \subseteq 1..n \/ 0 \in copy[s].main
Known(s, n) == 1..n \subseteq copy[s].main \/ 0 \in copy[s].main

\* Before any network read the checkout's own state, then the remote's
\* branch: refused, not answered, nothing to do, or a commit to fetch.
Check(s) ==
  /\ At(s, "todo")
  /\ \/ /\ copy[s].on /\ run.kind = "install"
        /\ Tell(s, "read") /\ UNCHANGED faults
     \/ copy[s].on /\ run.kind # "install" /\ Fault /\ Tell(s, "unread")
     \/ /\ copy[s].on /\ run.kind # "install" /\ OwnState(s)
        /\ Tell(s, "own") /\ UNCHANGED faults
     \/ /\ copy[s].on /\ run.kind # "install" /\ ~OwnState(s) /\ UNCHANGED faults
        /\ \/ s \notin access /\ Tell(s, "denied")
           \/ s \in access /\ Known(s, pub[s]) /\ Tell(s, "read")
           \/ s \in access /\ ~1..pub[s] \subseteq copy[s].main /\ Go(s, "fetch")
     \/ /\ ~copy[s].on /\ UNCHANGED faults
        /\ IF Occupied(s) THEN Tell(s, "unread")
           ELSE IF Verified(s) THEN Go(s, "clone") ELSE Tell(s, "absent")
  /\ UNCHANGED <<githubVars, diskVars, marks, fetched, providing, cut,
                 edits>>

\* The fetch, and the checkout as it is after it.
Fetch(s) ==
  /\ At(s, "fetch")
  /\ \/ s \notin access /\ Tell(s, "denied") /\ UNCHANGED <<fetched, faults>>
     \/ Fault /\ Tell(s, "unread") /\ UNCHANGED fetched
     \/ /\ s \in access /\ UNCHANGED faults
        /\ fetched' = [fetched EXCEPT ![s] = pub[s]]
        /\ IF ~copy[s].on THEN Tell(s, "unread")
           ELSE IF OwnState(s) THEN Tell(s, "own")
           ELSE IF Known(s, pub[s]) THEN Tell(s, "read") ELSE Go(s, "merge")
  /\ UNCHANGED <<githubVars, diskVars, marks, providing, cut, edits>>

\* git merge --ff-only, in the branch that is checked out by then; with
\* changed files git may refuse.
BugMerge(s) ==
  /\ At(s, "merge")
  /\ copy' = IF copy[s].declared THEN [copy EXCEPT ![s].main = 1..fetched[s]]
                                 ELSE [copy EXCEPT ![s].other = 1..fetched[s]]
  /\ Tell(s, "read")
  /\ UNCHANGED <<githubVars, journal, marks, fetched, providing,
                 cut, countVars>>
Merge(s) ==
  /\ At(s, "merge")
  /\ \/ /\ copy[s].on /\ Head(copy[s]) \subseteq 1..fetched[s]
        /\ copy' = IF copy[s].declared THEN [copy EXCEPT ![s].main = 1..fetched[s]]
                                       ELSE [copy EXCEPT ![s].other = 1..fetched[s]]
        /\ Tell(s, "read")
     \/ /\ ~copy[s].on \/ copy[s].dirty \/ ~Head(copy[s]) \subseteq 1..fetched[s]
        /\ UNCHANGED copy /\ Tell(s, "unread")
  /\ UNCHANGED <<githubVars, journal, marks, fetched, providing,
                 cut, countVars>>

\* An absent slot: GitHub is asked, then a temporary sibling is filled.
CloneStarts(s) ==
  /\ At(s, "clone")
  /\ \/ s \notin access /\ Tell(s, "absent") /\ UNCHANGED <<fetched, faults>>
     \/ Fault /\ Tell(s, "unread") /\ UNCHANGED fetched
     \/ /\ s \in access /\ Go(s, "publish") /\ UNCHANGED faults
        /\ fetched' = [fetched EXCEPT ![s] = pub[s]]
  /\ UNCHANGED <<githubVars, copy, journal, marks, providing, cut, edits>>
Publish(s) ==
  /\ At(s, "publish")
  /\ copy' = [copy EXCEPT ![s] = Clone(fetched[s])]
  /\ Tell(s, "read")
  /\ UNCHANGED <<githubVars, journal, marks, fetched, providing, cut,
                 countVars>>

-----------------------------------------------------------------------------
(* Access that ended                                                         *)

Proved(p) == CASE p = "none" -> "fresh" [] p = "aged" -> "twice" [] OTHER -> p
Keep(s, proof) ==
  /\ step' = [step EXCEPT ![s] = "done"]
  /\ run' = [run EXCEPT !.proof = proof, !.marked = @ \cup {s}]
Doubt(s, proof) ==
  /\ step' = [step EXCEPT ![s] = "done"]
  /\ run' = [run EXCEPT !.proof = proof, !.cleared = @ \cup {s}]
  /\ proofs' = [proofs EXCEPT ![s] = "none"]

\* The identity is proved once for a run; then GitHub's answer for the slot:
\* anything but a 404 keeps the copy unmarked.
JudgeKeeps(s) ==
  /\ At(s, "judge")
  /\ \/ run.proof = "no" /\ Doubt(s, "no") /\ UNCHANGED faults
     \/ run.proof = "unasked" /\ Fault /\ Doubt(s, "no")
     \/ run.proof # "no" /\ Doubt(s, "yes") /\ (IF s \in access THEN UNCHANGED faults ELSE Fault)
  /\ UNCHANGED <<githubVars, diskVars, marks, verified, fetched, providing,
                 cut, edits>>

\* A proof: the first one marks, one too soon keeps the mark, one later removes.
Judge(s) ==
  /\ At(s, "judge") /\ run.proof # "no" /\ s \notin access
  /\ proofs' = [proofs EXCEPT ![s] = Proved(@)]
  /\ IF marks[s] = "old"
     THEN step' = [step EXCEPT ![s] = "retire"] /\ run' = [run EXCEPT !.proof = "yes"]
     ELSE Keep(s, "yes")
  /\ UNCHANGED <<githubVars, diskVars, marks, verified, fetched, providing, cut, countVars>>

\* retire stops what runs of the module; it refuses beside a start under way
\* and where the module is not one.
Retirable(s) == ModuleOf(s) \notin providing /\ copy[ModuleOf(s)].on
Retire(s) ==
  /\ At(s, "retire")
  /\ \/ Retirable(s) /\ Go(s, "name") /\ UNCHANGED faults
     \/ Keep(s, "yes") /\ UNCHANGED <<verified, proofs>>
        /\ (IF Retirable(s) THEN Fault ELSE UNCHANGED faults)
  /\ UNCHANGED <<githubVars, diskVars, marks, fetched, providing, cut,
                 edits>>

\* removeCopy: the journal, the rename with everything below, the deletion.
Name(s) ==
  /\ At(s, "name")
  /\ IF copy[s].on
     THEN journal' = [journal EXCEPT ![s] = "named"] /\ Go(s, "rename")
     ELSE Keep(s, "yes") /\ UNCHANGED <<journal, verified, proofs>>
  /\ UNCHANGED <<githubVars, copy, marks, fetched, providing,
                 cut, countVars>>
Rename(s) ==
  /\ At(s, "rename")
  /\ copy' = [t \in Slots |-> IF t \in {s} \cup Below(s) THEN NoCopy ELSE copy[t]]
  /\ journal' = [t \in Slots |-> IF t = s THEN "moved"
                                 ELSE IF t \in Below(s) /\ journal[t] = "moved" THEN "named"
                                 ELSE journal[t]]
  /\ Go(s, "delete")
  /\ UNCHANGED <<githubVars, marks, fetched, providing, cut, countVars>>
RenameFails(s) ==
  /\ At(s, "rename") /\ Fault
  /\ journal' = [journal EXCEPT ![s] = "no"]
  /\ Keep(s, "yes")
  /\ UNCHANGED <<githubVars, copy, marks, verified, fetched, providing, historyVars, edits>>
Delete(s) ==
  /\ At(s, "delete")
  /\ \/ /\ journal' = [journal EXCEPT ![s] = Shorter(@)] /\ UNCHANGED faults
        /\ Go(s, IF journal[s] = "moved" THEN "delete" ELSE "done")
     \/ Fault /\ Go(s, "done") /\ UNCHANGED journal
  /\ UNCHANGED <<githubVars, copy, marks, fetched, providing, cut, edits>>

-----------------------------------------------------------------------------
(* The end of a run                                                          *)

Turn ==
  /\ run.phase \in {"module", "data"} /\ \A s \in Kids : step[s] = "done"
  /\ IF run.phase = "data" /\ run.kind = "install" THEN Rest
     ELSE /\ run' = [run EXCEPT !.phase = IF @ = "module" THEN "data" ELSE "record"]
          /\ UNCHANGED slotVars
  /\ UNCHANGED <<githubVars, diskVars, marks, providing, historyVars, countVars>>

\* recordSync: the first proofs of this run, and of the last record those of
\* the slots it did not answer, unless it was a run of everything or the
\* root stopped it.  A first proof counts from when it was judged, which may
\* be half an hour ago.
Remember(anew) ==
  marks' = [s \in Slots |-> IF s \in run.marked
                             THEN CASE marks[s] # "no" -> marks[s]
                                    [] proofs[s] = "aged" -> "old"
                                    [] OTHER -> "new"
                             ELSE IF s \in run.kids \/ anew THEN "no" ELSE marks[s]]

BugRecord ==
  /\ run.phase = "record"
  /\ Remember(run.kind = "all")
  /\ Rest
  /\ UNCHANGED <<githubVars, diskVars, providing, historyVars, countVars>>
Record ==
  /\ run.phase = "record"
  /\ Remember(run.kind = "all" \/ run.stopped)
  /\ Rest
  /\ UNCHANGED <<githubVars, diskVars, providing, historyVars, countVars>>

\* A run that is killed, or cannot write the record: its answers are lost.
EndsUnrecorded ==
  /\ Rest /\ cut' = cut \cup (run.cleared \cap Marked)
  /\ UNCHANGED <<githubVars, diskVars, marks, providing, proofs, edits>>
RecordFails == run.phase = "record" /\ Fault /\ EndsUnrecorded
Kill == ~Idle /\ Fault /\ EndsUnrecorded

-----------------------------------------------------------------------------
Init ==
  /\ pub = [s \in Slots |-> 1] /\ access = Slots
  /\ copy = [s \in Slots |-> NoCopy]
  /\ journal = [s \in Slots |-> "no"]
  /\ marks = [s \in Slots |-> "no"] /\ run = NoRun
  /\ step = [s \in Slots |-> "todo"] /\ verified = {}
  /\ fetched = [s \in Slots |-> 0] /\ providing = {}
  /\ proofs = [s \in Slots |-> "none"] /\ cut = {}
  /\ edits = 0 /\ faults = 0

Outside ==
  \E s \in Slots : \/ Commit(s) \/ Touch(s) \/ Checkout(s) \/ Push(s) \/ Access(s)
                   \/ Starts(s) \/ Provides(s) \/ HalfHour(s)
Runs == Everything \/ Install \/ \E s \in Slots : One(s)
Work ==
  \/ Root \/ RootStops \/ Turn \/ Record \/ RecordFails
  \/ \E s \in Slots :
       \/ Resume(s) \/ Check(s) \/ Fetch(s) \/ Merge(s) \/ CloneStarts(s) \/ Publish(s)
       \/ JudgeKeeps(s) \/ Judge(s) \/ Retire(s) \/ Name(s) \/ Rename(s)
       \/ RenameFails(s) \/ Delete(s)
Next == Outside \/ Runs \/ Work \/ Kill

Spec == Init /\ [][Next]_vars

\* The hourly round finds the lock free at times, a run goes on, time passes
\* and a start ends; nobody owes an edit, a fault or a kill.
Fairness ==
  /\ SF_vars(Everything) /\ WF_vars(Work)
  /\ \A s \in Slots : WF_vars(HalfHour(s)) /\ WF_vars(Provides(s))
FairSpec == Spec /\ Fairness

-----------------------------------------------------------------------------
(* Properties                                                                *)

TypeOK ==
  /\ pub \in [Slots -> 1..MaxPub] /\ access \subseteq Slots
  /\ copy \in [Slots -> [on : BOOLEAN, declared : BOOLEAN, main : SUBSET Changes,
                         other : SUBSET Changes, dirty : BOOLEAN]]
  /\ journal \in [Slots -> {"no", "named", "moved"}]
  /\ marks \in [Slots -> {"no", "new", "old"}]
  /\ run \in [kind : {"none", "all", "one", "install"},
              phase : {"idle", "resume", "module", "data", "record"},
              kids : SUBSET Slots, proof : {"unasked", "yes", "no"},
              stopped : BOOLEAN, marked : SUBSET Slots, cleared : SUBSET Slots]
  /\ step \in [Slots -> {"todo", "fetch", "merge", "clone", "publish", "judge", "retire",
                         "name", "rename", "delete", "done"}]
  /\ verified \subseteq Slots
  /\ fetched \in [Slots -> 0..MaxPub] /\ providing \subseteq Modules
  /\ proofs \in [Slots -> {"none", "fresh", "aged", "twice"}] /\ cut \subseteq Slots
  /\ edits \in 0..MaxEdits /\ faults \in 0..MaxFaults

\* A run clones a data mount only into the checkout of its module, whose
\* remote it read, and that stands for as long as the clone takes.
MountsBelowModules ==
  \A d \in Mounts : step[d] \in {"clone", "publish"} =>
    Parent[d] \in verified /\ copy[Parent[d]].on

\* What holds in every state: the types, and where mounts are cloned.
ContentInv == TypeOK /\ MountsBelowModules

\* access-ended.ts: a copy goes "in two synchronizations in a row" that proved
\* the end of its access, half an hour apart, whatever other answers runs
\* gave between them; save those of a run that could not record them.
RemovedOnProofs ==
  [][\A s \in Slots : (journal[s] = "named" /\ journal'[s] = "moved")
                        => proofs[s] = "twice" \/ s \in cut]_vars

\* A synchronization loses no work: a branch never loses a commit, changed
\* files stay the person's, and a checkout goes only by a removal of it or
\* of the module above it.
WorkStays ==
  [][\A s \in Slots : copy[s].on =>
       IF copy'[s].on
       THEN /\ copy[s].main \subseteq copy'[s].main /\ copy[s].other \subseteq copy'[s].other
            /\ copy[s].dirty /\ edits' = edits => copy'[s].dirty
       ELSE \E t \in {s, ModuleOf(s)} : journal[t] = "named" /\ journal'[t] = "moved"]_vars

\* A data mount that a start cloned where its module had just gone.
Alone(s) == s \in Mounts /\ copy[s].on /\ ~copy[Parent[s]].on

\* A copy whose access ended for good leaves, and its deletion finishes.
EndedCopiesLeave ==
  \A s \in Slots :
    []<>(s \in access \/ Alone(s) \/ (~copy[s].on /\ journal[s] # "moved"))

\* "Access given back clones the module afresh", and a checkout that nobody
\* works in follows its published branch.
CopiesFollow ==
  \A s \in Slots :
    []<>((ModuleOf(s) \in access /\ s \in access /\ ~Occupied(s) /\ ~OwnState(ModuleOf(s)))
           => copy[s].on /\ (OwnState(s) \/ 0 \in copy[s].main \/ 1..pub[s] \subseteq copy[s].main))
=============================================================================
