------------------------- MODULE ContentSync_proofs -------------------------
(* Theorems about ContentSync, for any number of modules, data mounts,      *)
(* commits, edits, faults and kills.                                        *)
EXTENDS ContentSync, TLAPS

-----------------------------------------------------------------------------
(* The inductive invariant.                                                 *)

Steps == {"todo", "fetch", "merge", "clone", "publish", "judge", "retire",
          "name", "rename", "delete", "done"}
Copies == [on : BOOLEAN, declared : BOOLEAN, main : SUBSET Changes,
           other : SUBSET Changes, dirty : BOOLEAN]
RunRecords == [kind : {"none", "all", "one", "install"},
               phase : {"idle", "resume", "module", "data", "record"},
               kids : SUBSET Slots, proof : {"unasked", "yes", "no"},
               stopped : BOOLEAN, marked : SUBSET Slots, cleared : SUBSET Slots]

\* Before its first slot a run has answered nothing.
Resting ==
  run.phase \in {"idle", "resume"} =>
    /\ run.marked = {} /\ run.cleared = {}
    /\ \A s \in Slots : step[s] = "todo"

\* An installation only clones.
Installing ==
  run.kind = "install" =>
    /\ run.phase \in {"module", "data"}
    /\ run.marked = {} /\ run.cleared = {}
    /\ \A s \in Slots : step[s] \in {"todo", "clone", "publish", "done"}

\* A slot that is being cloned has no checkout, one that is being renamed its
\* journal.
Placed ==
  \A s \in Slots :
    /\ step[s] \in {"clone", "publish"} => ~copy[s].on
    /\ step[s] = "rename" => journal[s] = "named"

\* What a run read stands, and mounts are cloned below it.
VerifiedStand ==
  /\ \A m \in verified \cap Modules : step[m] = "done" /\ copy[m].on
  /\ \A d \in Mounts : step[d] \in {"clone", "publish"} => Parent[d] \in verified

\* What the run will record of a slot is what it last answered.
Answered ==
  /\ \A s \in run.marked : step[s] = "done" /\ (proofs[s] # "none" \/ s \in cut)
  /\ \A s \in run.cleared : step[s] = "done" \/ run.phase = "record"
  /\ run.cleared \subseteq run.kids \/ run.kind = "all" \/ run.stopped
  /\ run.marked \cap run.cleared = {}

\* A mark stands for a proof that nothing answered against.
Backed ==
  \A s \in Slots :
    /\ marks[s] = "new" => proofs[s] # "none" \/ s \in cut \cup run.cleared
    /\ marks[s] = "old" => proofs[s] \in {"aged", "twice"} \/ s \in cut \cup run.cleared
    /\ step[s] \in {"retire", "name", "rename"} => proofs[s] = "twice" \/ s \in cut

IInv ==
  /\ TypeOK /\ Resting /\ Installing /\ Placed /\ VerifiedStand /\ Answered /\ Backed

Answers == Resting /\ Installing /\ Answered /\ Backed
TypeRun ==
  /\ run \in RunRecords /\ step \in [Slots -> Steps] /\ verified \in SUBSET Slots
  /\ proofs \in [Slots -> {"none", "fresh", "aged", "twice"}]

-----------------------------------------------------------------------------
(* What an answer, and a step of a slot, leave of the run's bookkeeping.    *)

LEMMA Typed == TypeOK => TypeRun
  BY DEF TypeOK, TypeRun, RunRecords, Steps

\* A slot the run is at has not been answered yet.
LEMMA Unanswered ==
  ASSUME TypeRun, Answers, NEW s \in Slots, NEW w \in Steps \ {"done"}, At(s, w)
  PROVE  /\ run.phase \in {"module", "data"} /\ s \in run.kids
         /\ step[s] = w /\ s \notin run.marked /\ s \notin run.cleared
         /\ run.kind = "install" => w \in {"todo", "clone", "publish"}
  BY DEF TypeRun, Answers, Answered, Resting, Installing, At, Kids, RunRecords, Steps

LEMMA GoKeeps ==
  ASSUME TypeRun, Answers, NEW s \in Slots, NEW w \in Steps \ {"done"}, At(s, w),
         NEW to \in Steps, Go(s, to), UNCHANGED <<marks, cut>>,
         run.kind = "install" => to \in {"clone", "publish", "done"},
         to \in {"retire", "name", "rename"} => proofs[s] = "twice" \/ s \in cut
  PROVE  TypeRun' /\ Answers' /\ step' = [step EXCEPT ![s] = to] /\ verified' = verified
  <1>1. /\ run.phase \in {"module", "data"} /\ s \notin run.marked /\ s \notin run.cleared
    BY Unanswered
  <1>2. step' = [step EXCEPT ![s] = to] /\ UNCHANGED <<verified, run, proofs>>
    BY DEF Go
  <1>3. TypeRun'
    BY <1>2 DEF TypeRun
  <1>4. Resting' /\ Installing'
    BY <1>1, <1>2 DEF TypeRun, Answers, Resting, Installing
  <1>5. Answered'
    BY <1>1, <1>2 DEF TypeRun, Answers, Answered
  <1>6. Backed'
    BY <1>2 DEF TypeRun, Answers, Backed
  <1> QED
    BY <1>2, <1>3, <1>4, <1>5, <1>6 DEF Answers

LEMMA TellKeeps ==
  ASSUME TypeRun, Answers, NEW s \in Slots, NEW w \in Steps \ {"done"}, At(s, w),
         NEW what, Tell(s, what), UNCHANGED <<marks, cut>>
  PROVE  /\ TypeRun' /\ Answers'
         /\ \E to \in {"judge", "done"} : step' = [step EXCEPT ![s] = to]
         /\ verified' = verified \/ (verified' = verified \cup {s} /\ what = "read")
         /\ what = "read" => step'[s] = "done"
  <1>1. /\ run.phase \in {"module", "data"} /\ s \in run.kids
        /\ s \notin run.marked /\ s \notin run.cleared
    BY Unanswered
  <1>2. verified' = verified \/ (verified' = verified \cup {s} /\ what = "read")
    BY DEF Tell
  <1>3. CASE run.kind = "install"
    <2>1. step' = [step EXCEPT ![s] = "done"] /\ UNCHANGED <<run, proofs>>
      BY <1>3 DEF Tell
    <2>2. TypeRun'
      BY <1>2, <2>1 DEF TypeRun, Steps
    <2>3. Answers'
      BY <1>1, <2>1 DEF TypeRun, Answers, Resting, Installing, Answered, Backed
    <2> QED
      BY <1>2, <2>1, <2>2, <2>3 DEF TypeRun
  <1>4. CASE run.kind # "install" /\ what \in {"own", "denied"}
    <2>1. step' = [step EXCEPT ![s] = "judge"] /\ UNCHANGED <<run, proofs>>
      BY <1>4 DEF Tell
    <2>2. TypeRun'
      BY <1>2, <2>1 DEF TypeRun, Steps
    <2>3. Answers'
      BY <1>1, <1>4, <2>1 DEF TypeRun, Answers, Resting, Installing, Answered, Backed
    <2> QED
      BY <1>2, <1>4, <2>1, <2>2, <2>3 DEF TypeRun
  <1>5. CASE run.kind # "install" /\ what \notin {"own", "denied"}
    <2>1. /\ step' = [step EXCEPT ![s] = "done"]
          /\ run' = [run EXCEPT !.cleared = @ \cup {s}]
          /\ proofs' = [proofs EXCEPT ![s] = "none"]
      BY <1>5 DEF Tell
    <2>2. TypeRun'
      BY <1>2, <2>1 DEF TypeRun, Steps, RunRecords
    <2>3. Resting' /\ Installing'
      BY <1>1, <1>5, <2>1 DEF TypeRun, Answers, Resting, Installing, RunRecords
    <2>4. Answered'
      BY <1>1, <2>1 DEF TypeRun, Answers, Answered, RunRecords
    <2>5. Backed'
      BY <2>1 DEF TypeRun, Answers, Backed, RunRecords
    <2> QED
      BY <1>2, <2>1, <2>2, <2>3, <2>4, <2>5 DEF TypeRun, Answers
  <1> QED
    BY <1>3, <1>4, <1>5

LEMMA KeepKeeps ==
  ASSUME TypeRun, Answers, NEW s \in Slots, NEW w \in {"judge", "retire", "name", "rename"},
         At(s, w), NEW p \in {"yes", "no"}, Keep(s, p), UNCHANGED <<marks, cut, verified>>,
         \/ proofs' = proofs
         \/ \E q \in {"fresh", "aged", "twice"} : proofs' = [proofs EXCEPT ![s] = q],
         proofs'[s] # "none" \/ s \in cut,
         marks[s] = "old" => proofs'[s] \in {"aged", "twice"} \/ s \in cut
  PROVE  TypeRun' /\ Answers' /\ step' = [step EXCEPT ![s] = "done"]
  <1>1. /\ run.phase \in {"module", "data"} /\ s \notin run.cleared /\ run.kind # "install"
    BY Unanswered DEF Steps
  <1>2. /\ step' = [step EXCEPT ![s] = "done"]
        /\ run' = [run EXCEPT !.proof = p, !.marked = @ \cup {s}]
    BY DEF Keep
  <1>3. TypeRun'
    <2>1. run' \in RunRecords
      BY <1>2 DEF TypeRun, RunRecords
    <2>2. step' \in [Slots -> Steps] /\ verified' \in SUBSET Slots
      BY <1>2 DEF TypeRun, Steps
    <2>3. proofs' \in [Slots -> {"none", "fresh", "aged", "twice"}]
      BY DEF TypeRun
    <2> QED
      BY <2>1, <2>2, <2>3 DEF TypeRun
  <1>4. Resting' /\ Installing'
    BY <1>1, <1>2 DEF TypeRun, Answers, Resting, Installing, RunRecords
  <1>5. Answered'
    BY <1>1, <1>2 DEF TypeRun, Answers, Answered, RunRecords
  <1>6. Backed'
    BY <1>2 DEF TypeRun, Answers, Backed, RunRecords
  <1> QED
    BY <1>2, <1>3, <1>4, <1>5, <1>6 DEF Answers

LEMMA DoubtKeeps ==
  ASSUME TypeRun, Answers, NEW s \in Slots, At(s, "judge"), NEW p \in {"yes", "no"},
         Doubt(s, p), UNCHANGED <<marks, cut, verified>>
  PROVE  TypeRun' /\ Answers' /\ step' = [step EXCEPT ![s] = "done"]
  <1>1. /\ run.phase \in {"module", "data"} /\ s \in run.kids
        /\ s \notin run.marked /\ run.kind # "install"
    BY Unanswered DEF Steps
  <1>2. /\ step' = [step EXCEPT ![s] = "done"]
        /\ run' = [run EXCEPT !.proof = p, !.cleared = @ \cup {s}]
        /\ proofs' = [proofs EXCEPT ![s] = "none"]
    BY DEF Doubt
  <1>3. TypeRun'
    BY <1>2 DEF TypeRun, Steps, RunRecords
  <1>4. Resting' /\ Installing'
    BY <1>1, <1>2 DEF TypeRun, Answers, Resting, Installing, RunRecords
  <1>5. Answered'
    BY <1>1, <1>2 DEF TypeRun, Answers, Answered, RunRecords
  <1>6. Backed'
    BY <1>2 DEF TypeRun, Answers, Backed, RunRecords
  <1> QED
    BY <1>2, <1>3, <1>4, <1>5, <1>6 DEF Answers

-----------------------------------------------------------------------------
(* What is outside the run.                                                 *)

TypeWorld ==
  /\ pub \in [Slots -> 1 .. MaxPub] /\ access \in SUBSET Slots
  /\ copy \in [Slots -> Copies]
  /\ journal \in [Slots -> {"no", "named", "moved"}]
  /\ marks \in [Slots -> {"no", "new", "old"}]
  /\ fetched \in [Slots -> 0 .. MaxPub] /\ providing \in SUBSET Modules
  /\ cut \in SUBSET Slots
  /\ edits \in 0 .. MaxEdits /\ faults \in 0 .. MaxFaults
Ground == Placed /\ VerifiedStand

LEMMA Parts == IInv => TypeWorld /\ TypeRun /\ Answers /\ Ground
  BY DEF IInv, TypeOK, TypeWorld, TypeRun, Answers, Ground, Copies, RunRecords, Steps
LEMMA Whole == (TypeWorld /\ TypeRun /\ Answers /\ Ground)' => IInv'
  BY DEF IInv, TypeOK, TypeWorld, TypeRun, Answers, Ground, Copies, RunRecords, Steps

\* A clone holds what was published.
LEMMA Cloned == ASSUME NEW n \in 0 .. MaxPub PROVE Clone(n) \in Copies /\ Clone(n).on
  BY Slotted DEF Clone, Copies, Changes

LEMMA Absent == NoCopy \in Copies /\ ~NoCopy.on
  BY DEF NoCopy, Copies, Changes

\* The run's part does not move.
LEMMA RunStands ==
  ASSUME TypeRun, Answers, UNCHANGED <<run, step, verified, proofs, marks, cut>>
  PROVE  TypeRun' /\ Answers'
  BY DEF TypeRun, Answers, Resting, Installing, Answered, Backed

LEMMA OutsideKeeps == ASSUME IInv, Outside PROVE IInv'
  <1>1. TypeWorld /\ TypeRun /\ Answers /\ Ground
    BY Parts
  <1> SUFFICES ASSUME NEW s \in Slots,
                      \/ Commit(s) \/ Touch(s) \/ Checkout(s) \/ Push(s) \/ Access(s)
                      \/ Starts(s) \/ Provides(s) \/ HalfHour(s)
               PROVE  TypeWorld' /\ TypeRun' /\ Answers' /\ Ground'
    BY Whole DEF Outside
  <1>2. ASSUME NEW c \in Copies, Works(s, c), c.on
        PROVE  TypeWorld' /\ TypeRun' /\ Answers' /\ Ground'
    <2>1. /\ copy' = [copy EXCEPT ![s] = c] /\ copy[s].on
          /\ edits < MaxEdits /\ edits' = edits + 1
          /\ UNCHANGED <<githubVars, journal, marks, run, slotVars, providing, historyVars, faults>>
      BY <1>2 DEF Works, Edit
    <2>2. TypeWorld'
      BY <1>1, <2>1, Slotted DEF TypeWorld, githubVars, slotVars, historyVars
    <2>3. TypeRun' /\ Answers'
      BY <1>1, <2>1, RunStands DEF slotVars, historyVars
    <2>4. Ground'
      BY <1>1, <1>2, <2>1 DEF Ground, Placed, VerifiedStand, TypeWorld, slotVars
    <2> QED
      BY <2>2, <2>3, <2>4
  <1>3. copy[s] \in Copies
    BY <1>1 DEF TypeWorld
  <1>4. CASE Commit(s)
    <2> DEFINE c == IF copy[s].declared THEN [copy[s] EXCEPT !.main = @ \cup {0}]
                                        ELSE [copy[s] EXCEPT !.other = @ \cup {0}]
    <2>1. Works(s, c) /\ copy[s].on
      BY <1>4 DEF Commit, Works
    <2>2. c \in Copies /\ c.on
      BY <1>3, <2>1, Slotted DEF Copies, Changes
    <2> QED
      BY <1>2, <2>1, <2>2
  <1>5. CASE Touch(s)
    <2> DEFINE c == [copy[s] EXCEPT !.dirty = ~@]
    <2>1. Works(s, c) /\ copy[s].on
      BY <1>5 DEF Touch, Works
    <2>2. c \in Copies /\ c.on
      BY <1>3, <2>1 DEF Copies
    <2> QED
      BY <1>2, <2>1, <2>2
  <1>6. CASE Checkout(s)
    <2> DEFINE c == [copy[s] EXCEPT !.declared = ~@]
    <2>1. Works(s, c) /\ copy[s].on
      BY <1>6 DEF Checkout, Works
    <2>2. c \in Copies /\ c.on
      BY <1>3, <2>1 DEF Copies
    <2> QED
      BY <1>2, <2>1, <2>2
  <1>7. CASE Push(s) \/ Access(s) \/ Starts(s)
    <2>1. UNCHANGED <<diskVars, marks, run, slotVars, historyVars, faults>>
      BY <1>7 DEF Push, Access, Starts
    <2>2. edits' \in 0 .. MaxEdits
      BY <1>1, <1>7, Slotted DEF TypeWorld, Push, Access, Starts, Edit
    <2>3. pub' \in [Slots -> 1 .. MaxPub]
      BY <1>1, <1>7, Slotted DEF TypeWorld, Push, Access, Starts, githubVars
    <2>4. access' \in SUBSET Slots /\ providing' \in SUBSET Modules
      BY <1>1, <1>7 DEF TypeWorld, Push, Access, Starts, githubVars
    <2>5. TypeWorld'
      BY <1>1, <2>1, <2>2, <2>3, <2>4 DEF TypeWorld, diskVars, slotVars, historyVars
    <2>6. TypeRun' /\ Answers'
      BY <1>1, <2>1, RunStands DEF slotVars, historyVars
    <2>7. Ground'
      BY <1>1, <2>1 DEF Ground, Placed, VerifiedStand, diskVars, slotVars
    <2> QED
      BY <2>5, <2>6, <2>7
  <1>8. CASE Provides(s)
    <2>1. /\ s \in providing /\ providing' = providing \ {s}
          /\ UNCHANGED <<githubVars, journal, marks, run, slotVars, historyVars, countVars>>
      BY <1>8 DEF Provides
    <2>2. PICK W \in SUBSET {d \in Below(s) \cap access : ~copy[d].on /\ Idle} :
                 copy' = [t \in Slots |-> IF t \in W THEN Clone(pub[t]) ELSE copy[t]]
      BY <1>8 DEF Provides
    <2>3. \A t \in Slots : Clone(pub[t]) \in Copies /\ Clone(pub[t]).on
      BY <1>1, Cloned, Slotted DEF TypeWorld
    <2>4. copy' \in [Slots -> Copies]
      BY <1>1, <2>2, <2>3 DEF TypeWorld
    <2>5. TypeWorld'
      BY <1>1, <2>1, <2>4 DEF TypeWorld, githubVars, slotVars, historyVars, countVars
    <2>6. TypeRun' /\ Answers'
      BY <1>1, <2>1, RunStands DEF slotVars, historyVars
    <2>7. \A t \in Slots : copy[t].on => copy'[t].on
      BY <1>1, <2>2, <2>3 DEF TypeWorld
    <2>8. Idle => \A t \in Slots : step[t] = "todo"
      BY <1>1 DEF Answers, Resting, Idle
    <2>9. \A t \in Slots : step[t] \in {"clone", "publish"} => ~copy'[t].on
      BY <1>1, <2>2, <2>8 DEF Ground, Placed, TypeWorld
    <2>10. Ground'
      BY <1>1, <2>1, <2>7, <2>9 DEF Ground, Placed, VerifiedStand, TypeRun, Slots, slotVars
    <2> QED
      BY <2>5, <2>6, <2>10
  <1>9. CASE HalfHour(s)
    <2>1. /\ marks' = [marks EXCEPT ![s] = IF @ = "new" THEN "old" ELSE @]
          /\ proofs' = [proofs EXCEPT ![s] = IF @ = "fresh" THEN "aged" ELSE @]
          /\ UNCHANGED <<githubVars, diskVars, run, slotVars, providing, cut, countVars>>
      BY <1>9 DEF HalfHour
    <2>2. TypeWorld' /\ TypeRun'
      BY <1>1, <2>1 DEF TypeWorld, TypeRun, githubVars, diskVars, slotVars, countVars
    <2>3. Answers'
      BY <1>1, <2>1 DEF TypeWorld, TypeRun, Answers, Resting, Installing, Answered, Backed, slotVars
    <2>4. Ground'
      BY <1>1, <2>1 DEF Ground, Placed, VerifiedStand, diskVars, slotVars
    <2> QED
      BY <2>2, <2>3, <2>4
  <1> QED
    BY <1>4, <1>5, <1>6, <1>7, <1>8, <1>9

-----------------------------------------------------------------------------
(* The run's beginning and end.                                             *)

LEMMA BeginKeeps ==
  ASSUME IInv, NEW kind \in {"all", "one", "install"}, NEW W \in SUBSET Slots, Begin(kind, W)
  PROVE  IInv'
  <1>1. TypeWorld /\ TypeRun /\ Answers /\ Ground
    BY Parts
  <1>2. /\ Idle
        /\ run' = [NoRun EXCEPT !.kind = kind, !.kids = W,
                                !.phase = IF kind = "install" THEN "module" ELSE "resume"]
        /\ UNCHANGED <<githubVars, diskVars, marks, slotVars, providing, historyVars, countVars>>
    BY DEF Begin
  <1>3. TypeWorld' /\ TypeRun'
    BY <1>1, <1>2 DEF TypeWorld, TypeRun, RunRecords, NoRun, githubVars, diskVars, slotVars,
                      historyVars, countVars
  <1>4. run.marked = {} /\ run.cleared = {} /\ \A s \in Slots : step[s] = "todo"
    BY <1>1, <1>2 DEF Answers, Resting, Idle
  <1>5. /\ run'.marked = {} /\ run'.cleared = {} /\ run'.kind = kind
        /\ run'.phase = IF kind = "install" THEN "module" ELSE "resume"
    BY <1>2 DEF NoRun
  <1>6. Answers'
    BY <1>1, <1>2, <1>4, <1>5 DEF Answers, Resting, Installing, Answered, Backed, slotVars, historyVars
  <1>7. Ground'
    BY <1>1, <1>2 DEF Ground, Placed, VerifiedStand, diskVars, slotVars
  <1> QED
    BY <1>3, <1>6, <1>7, Whole

LEMMA RunsKeep == ASSUME IInv, Runs PROVE IInv'
  <1>1. CASE Everything
    BY <1>1, BeginKeeps DEF Everything
  <1>2. CASE Install
    BY <1>2, BeginKeeps DEF Install
  <1>3. ASSUME NEW s \in Slots, One(s) PROVE IInv'
    <2>1. {s} \cup Below(s) \in SUBSET Slots
      BY DEF Below, Slots
    <2> QED
      BY <1>3, <2>1, BeginKeeps DEF One
  <1> QED
    BY <1>1, <1>2, <1>3 DEF Runs

\* Rest leaves nothing of the run.
LEMMA RestFacts ==
  ASSUME Rest
  PROVE  /\ run' \in RunRecords /\ run'.phase = "idle" /\ run'.kind = "none"
         /\ run'.marked = {} /\ run'.cleared = {}
         /\ step' = [s \in Slots |-> "todo"] /\ verified' = {}
         /\ fetched' = [s \in Slots |-> 0]
  BY DEF Rest, NoRun, RunRecords

LEMMA RestKeeps ==
  ASSUME TypeWorld, TypeRun, Ground, Rest, proofs' = proofs, UNCHANGED <<copy, journal>>,
         \A s \in Slots :
           /\ marks'[s] = "new" => proofs[s] # "none" \/ s \in cut'
           /\ marks'[s] = "old" => proofs[s] \in {"aged", "twice"} \/ s \in cut'
  PROVE  TypeRun' /\ Answers' /\ Ground'
  <1>1. TypeRun'
    BY RestFacts DEF TypeRun, Steps
  <1>2. Answers'
    BY RestFacts DEF Answers, Resting, Installing, Answered, Backed
  <1>3. Ground'
    BY RestFacts, Slotted DEF Ground, Placed, VerifiedStand, Slots
  <1> QED
    BY <1>1, <1>2, <1>3

LEMMA EndsUnrecordedKeeps ==
  ASSUME IInv, EndsUnrecorded, faults' \in 0 .. MaxFaults
  PROVE  IInv'
  <1>1. TypeWorld /\ TypeRun /\ Answers /\ Ground
    BY Parts
  <1>2. /\ Rest /\ cut' = cut \cup (run.cleared \cap Marked)
        /\ UNCHANGED <<githubVars, diskVars, marks, providing, proofs, edits>>
    BY DEF EndsUnrecorded
  <1>3. TypeWorld'
    BY <1>1, <1>2, RestFacts, Slotted DEF TypeWorld, Marked, githubVars, diskVars
  <1>4. \A s \in Slots :
           /\ marks[s] = "new" => proofs[s] # "none" \/ s \in cut'
           /\ marks[s] = "old" => proofs[s] \in {"aged", "twice"} \/ s \in cut'
    BY <1>1, <1>2 DEF Answers, Backed, Marked
  <1>5. TypeRun' /\ Answers' /\ Ground'
    BY <1>1, <1>2, <1>4, RestKeeps DEF diskVars
  <1> QED
    BY <1>3, <1>5, Whole

LEMMA FaultCounts == ASSUME TypeWorld, Fault PROVE faults' \in 0 .. MaxFaults
  BY Slotted DEF TypeWorld, Fault

LEMMA KillKeeps == ASSUME IInv, Kill \/ RecordFails PROVE IInv'
  BY Parts, FaultCounts, EndsUnrecordedKeeps DEF Kill, RecordFails

\* The record keeps a mark only for what no answer cleared.
LEMMA RecordKeeps == ASSUME IInv, Record PROVE IInv'
  <1>1. TypeWorld /\ TypeRun /\ Answers /\ Ground
    BY Parts
  <1>2. /\ Remember(run.kind = "all" \/ run.stopped) /\ Rest
        /\ UNCHANGED <<githubVars, diskVars, providing, historyVars, countVars>>
    BY DEF Record
  <1>3. marks' = [s \in Slots |-> IF s \in run.marked
                                   THEN CASE marks[s] # "no" -> marks[s]
                                          [] proofs[s] = "aged" -> "old"
                                          [] OTHER -> "new"
                                   ELSE IF s \in run.kids \/ run.kind = "all" \/ run.stopped
                                        THEN "no" ELSE marks[s]]
    BY <1>2 DEF Remember
  <1>4. TypeWorld'
    BY <1>1, <1>2, <1>3, RestFacts, Slotted DEF TypeWorld, githubVars, diskVars, historyVars, countVars
  <1>5. ASSUME NEW s \in Slots, s \in run.marked
        PROVE  /\ marks'[s] = "new" => proofs[s] # "none" \/ s \in cut
               /\ marks'[s] = "old" => proofs[s] \in {"aged", "twice"} \/ s \in cut
    BY <1>1, <1>3, <1>5 DEF Answers, Answered, Backed
  <1>6. ASSUME NEW s \in Slots, s \notin run.marked
        PROVE  /\ marks'[s] = "new" => proofs[s] # "none" \/ s \in cut
               /\ marks'[s] = "old" => proofs[s] \in {"aged", "twice"} \/ s \in cut
    BY <1>1, <1>3, <1>6 DEF Answers, Answered, Backed
  <1>7. TypeRun' /\ Answers' /\ Ground'
    BY <1>1, <1>2, <1>5, <1>6, RestKeeps DEF diskVars, historyVars
  <1> QED
    BY <1>4, <1>7, Whole

LEMMA TurnKeeps == ASSUME IInv, Turn PROVE IInv'
  <1>1. TypeWorld /\ TypeRun /\ Answers /\ Ground
    BY Parts
  <1>2. /\ run.phase \in {"module", "data"}
        /\ UNCHANGED <<githubVars, diskVars, marks, providing, historyVars, countVars>>
    BY DEF Turn
  <1>3. CASE run.phase = "data" /\ run.kind = "install"
    <2>1. Rest
      BY <1>3 DEF Turn
    <2>2. TypeWorld'
      BY <1>1, <1>2, <2>1, RestFacts, Slotted DEF TypeWorld, githubVars, diskVars, historyVars, countVars
    <2>3. \A s \in Slots :
           /\ marks'[s] = "new" => proofs[s] # "none" \/ s \in cut'
           /\ marks'[s] = "old" => proofs[s] \in {"aged", "twice"} \/ s \in cut'
      BY <1>1, <1>2, <1>3 DEF Answers, Installing, Backed, historyVars
    <2>4. TypeRun' /\ Answers' /\ Ground'
      BY <1>1, <1>2, <2>1, <2>3, RestKeeps DEF diskVars, historyVars
    <2> QED
      BY <2>2, <2>4, Whole
  <1>4. CASE ~(run.phase = "data" /\ run.kind = "install")
    <2>1. /\ run' = [run EXCEPT !.phase = IF @ = "module" THEN "data" ELSE "record"]
          /\ UNCHANGED slotVars
      BY <1>4 DEF Turn
    <2>2. TypeWorld' /\ TypeRun'
      BY <1>1, <1>2, <2>1 DEF TypeWorld, TypeRun, RunRecords, githubVars, diskVars, slotVars,
                              historyVars, countVars
    <2>3. Resting' /\ Installing'
      BY <1>1, <1>2, <1>4, <2>1 DEF TypeRun, RunRecords, Answers, Resting, Installing, slotVars
    <2>4. Answered' /\ Backed'
      BY <1>1, <1>2, <2>1 DEF TypeRun, RunRecords, Answers, Answered, Backed, slotVars, historyVars
    <2>5. Ground'
      BY <1>1, <1>2, <2>1 DEF Ground, Placed, VerifiedStand, diskVars, slotVars
    <2> QED
      BY <2>2, <2>3, <2>4, <2>5, Whole DEF Answers
  <1> QED
    BY <1>3, <1>4

LEMMA RootKeeps == ASSUME IInv, Root \/ RootStops PROVE IInv'
  <1>1. TypeWorld /\ TypeRun /\ Answers /\ Ground
    BY Parts
  <1>2. /\ run.phase = "resume"
        /\ UNCHANGED <<githubVars, diskVars, marks, slotVars, providing, cut, edits>>
    BY DEF Root, RootStops
  <1>3. faults' \in 0 .. MaxFaults
    BY <1>1, FaultCounts DEF Root, RootStops, TypeWorld
  <1>4. /\ run.marked = {} /\ run.cleared = {} /\ run.kind # "install"
        /\ \A s \in Slots : step[s] = "todo"
    BY <1>1, <1>2 DEF Answers, Resting, Installing
  <1>5. TypeWorld'
    BY <1>1, <1>2, <1>3 DEF TypeWorld, githubVars, diskVars, slotVars
  <1>6. Ground'
    BY <1>1, <1>2 DEF Ground, Placed, VerifiedStand, diskVars, slotVars
  <1>7. CASE run' = [run EXCEPT !.phase = "module"] /\ UNCHANGED proofs
    <2>1. TypeRun'
      BY <1>1, <1>2, <1>7 DEF TypeRun, RunRecords, slotVars
    <2>2. Answers'
      BY <1>1, <1>2, <1>4, <1>7 DEF TypeRun, RunRecords, Answers, Resting, Installing, Answered,
                                    Backed, slotVars
    <2> QED
      BY <1>5, <1>6, <2>1, <2>2, Whole
  <1>8. CASE /\ run' = [run EXCEPT !.phase = "record", !.kids = {},
                                   !.cleared = IF run.kind = "all" THEN Marked ELSE {}]
             /\ proofs' = IF run.kind = "all" THEN [s \in Slots |-> "none"] ELSE proofs
    <2>1. TypeRun'
      BY <1>1, <1>2, <1>8 DEF TypeRun, RunRecords, Marked, slotVars
    <2>2. /\ run'.phase = "record" /\ run'.marked = {} /\ run'.kind = run.kind
          /\ run'.cleared = IF run.kind = "all" THEN Marked ELSE {}
      BY <1>1, <1>4, <1>8 DEF TypeRun, RunRecords
    <2>3. Resting' /\ Installing' /\ Answered'
      BY <1>4, <2>2 DEF Resting, Installing, Answered
    <2>4. Backed'
      BY <1>1, <1>2, <1>4, <1>8, <2>2 DEF Answers, Backed, Marked, slotVars
    <2> QED
      BY <1>5, <1>6, <2>1, <2>3, <2>4, Whole DEF Answers
  <1>9. CASE /\ run' = [run EXCEPT !.phase = "record", !.kids = {}, !.stopped = TRUE,
                                   !.cleared = Marked]
             /\ proofs' = [s \in Slots |-> "none"]
    <2>1. TypeRun'
      BY <1>1, <1>2, <1>9 DEF TypeRun, RunRecords, Marked, slotVars
    <2>2. /\ run'.phase = "record" /\ run'.marked = {} /\ run'.kind = run.kind
          /\ run'.cleared = Marked /\ run'.stopped
      BY <1>1, <1>4, <1>9 DEF TypeRun, RunRecords
    <2>3. Resting' /\ Installing' /\ Answered'
      BY <1>4, <2>2 DEF Resting, Installing, Answered
    <2>4. Backed'
      BY <1>1, <1>2, <1>4, <1>9, <2>2 DEF Answers, Backed, Marked, slotVars
    <2> QED
      BY <1>5, <1>6, <2>1, <2>3, <2>4, Whole DEF Answers
  <1> QED
    BY <1>7, <1>8, <1>9 DEF Root, RootStops

-----------------------------------------------------------------------------
(* The run's steps of one slot.                                             *)

\* The disk as it stays around a step of s.
Around(s) ==
  /\ \A t \in Slots \ {s} :
       /\ copy'[t].on => copy[t].on
       /\ t \in Modules => copy'[t].on = copy[t].on
       /\ journal[t] = "named" => journal'[t] = "named"

LEMMA GroundKeeps ==
  ASSUME TypeRun, Ground, NEW s \in Slots, NEW to \in Steps, step[s] # "done",
         step' = [step EXCEPT ![s] = to], Around(s),
         to \in {"clone", "publish"} => ~copy'[s].on,
         to \in {"clone", "publish"} /\ s \in Mounts => Parent[s] \in verified,
         to = "rename" => journal'[s] = "named",
         \/ verified' = verified
         \/ verified' = verified \cup {s} /\ to = "done" /\ copy'[s].on
  PROVE  Ground'
  <1>1. Placed'
    BY DEF TypeRun, Ground, Placed, Around
  <1>2. \A m \in verified' \cap Modules : step'[m] = "done" /\ copy'[m].on
    BY DEF TypeRun, Ground, VerifiedStand, Around, Slots
  <1>3. \A d \in Mounts : step'[d] \in {"clone", "publish"} => Parent[d] \in verified'
    BY DEF TypeRun, Ground, VerifiedStand, Slots
  <1> QED
    BY <1>1, <1>2, <1>3 DEF Ground, VerifiedStand

\* The slot is answered.
LEMMA TellStep ==
  ASSUME IInv, NEW s \in Slots, NEW w \in Steps \ {"done"}, At(s, w), NEW what, Tell(s, what),
         UNCHANGED <<marks, cut>>, Around(s), what = "read" => copy'[s].on, TypeWorld'
  PROVE  IInv'
  <1>1. TypeWorld /\ TypeRun /\ Answers /\ Ground
    BY Parts
  <1>2. /\ TypeRun' /\ Answers'
        /\ verified' = verified \/ (verified' = verified \cup {s} /\ what = "read")
        /\ what = "read" => step'[s] = "done"
    BY <1>1, TellKeeps
  <1>3. PICK to \in {"judge", "done"} : step' = [step EXCEPT ![s] = to]
    BY <1>1, TellKeeps
  <1>4. step[s] = w
    BY <1>1, Unanswered
  <1>5. verified' # verified => to = "done" /\ copy'[s].on /\ verified' = verified \cup {s}
    BY <1>1, <1>2, <1>3 DEF TypeRun
  <1>6. to \in Steps
    BY DEF Steps
  <1>7. Ground'
    BY <1>1, <1>3, <1>4, <1>5, <1>6, GroundKeeps
  <1> QED
    BY <1>2, <1>7, Whole

\* The slot goes on to another step.
LEMMA GoStep ==
  ASSUME IInv, NEW s \in Slots, NEW w \in Steps \ {"done"}, At(s, w), NEW to \in Steps, Go(s, to),
         UNCHANGED <<marks, cut>>, Around(s), TypeWorld',
         run.kind = "install" => to \in {"clone", "publish", "done"},
         to \in {"retire", "name", "rename"} => proofs[s] = "twice" \/ s \in cut,
         to \in {"clone", "publish"} => ~copy'[s].on,
         to \in {"clone", "publish"} /\ s \in Mounts => Parent[s] \in verified,
         to = "rename" => journal'[s] = "named"
  PROVE  IInv'
  <1>1. TypeWorld /\ TypeRun /\ Answers /\ Ground
    BY Parts
  <1>2. TypeRun' /\ Answers' /\ step' = [step EXCEPT ![s] = to] /\ verified' = verified
    BY <1>1, GoKeeps
  <1>3. step[s] = w
    BY <1>1, Unanswered
  <1>4. Ground'
    BY <1>1, <1>2, <1>3, GroundKeeps
  <1> QED
    BY <1>2, <1>4, Whole

\* A proof, or a doubt, ends the slot's judgement without a change of the disk.
LEMMA DoneStep ==
  ASSUME IInv, NEW s \in Slots, step[s] # "done", step' = [step EXCEPT ![s] = "done"],
         TypeRun', Answers', TypeWorld', verified' = verified, Around(s)
  PROVE  IInv'
  <1>1. Ground'
    BY Parts, GroundKeeps DEF Steps
  <1> QED
    BY <1>1, Whole

\* The copies and the journal of every slot stay.
LEMMA StillAround ==
  ASSUME TypeWorld, NEW s \in Slots, UNCHANGED <<copy, journal>>
  PROVE  Around(s)
  BY DEF Around

LEMMA ResumeKeeps == ASSUME IInv, NEW s \in Slots, Resume(s) PROVE IInv'
  <1>1. TypeWorld /\ TypeRun /\ Answers /\ Ground
    BY Parts
  <1>2. /\ run.phase = "resume" /\ journal' = [journal EXCEPT ![s] = Shorter(@)]
        /\ UNCHANGED <<githubVars, copy, marks, run, slotVars, providing, historyVars, countVars>>
    BY DEF Resume
  <1>3. TypeWorld'
    BY <1>1, <1>2 DEF TypeWorld, Shorter, githubVars, slotVars, historyVars, countVars
  <1>4. TypeRun' /\ Answers'
    BY <1>1, <1>2, RunStands DEF slotVars, historyVars
  <1>5. Ground'
    BY <1>1, <1>2 DEF Answers, Resting, Ground, Placed, VerifiedStand, slotVars
  <1> QED
    BY <1>3, <1>4, <1>5, Whole

LEMMA CheckKeeps == ASSUME IInv, NEW s \in Slots, Check(s) PROVE IInv'
  <1>1. TypeWorld /\ TypeRun /\ Answers /\ Ground
    BY Parts
  <1>2. At(s, "todo") /\ UNCHANGED <<githubVars, diskVars, marks, fetched, providing, cut, edits>>
    BY DEF Check
  <1>3. faults' \in 0 .. MaxFaults
    BY <1>1, FaultCounts DEF Check, TypeWorld
  <1>4. TypeWorld' /\ Around(s)
    BY <1>1, <1>2, <1>3, StillAround DEF TypeWorld, githubVars, diskVars
  <1>5. ASSUME NEW what, Tell(s, what), what = "read" => copy[s].on PROVE IInv'
    BY <1>2, <1>4, <1>5, TellStep DEF Steps, diskVars
  <1>6. CASE Go(s, "fetch") /\ run.kind # "install"
    BY <1>2, <1>4, <1>6, GoStep DEF Steps
  <1>7. CASE Go(s, "clone") /\ ~copy[s].on /\ Verified(s)
    BY <1>2, <1>4, <1>7, GoStep, Slotted DEF Steps, Verified, ModuleOf, diskVars
  <1> QED
    BY <1>5, <1>6, <1>7 DEF Check

LEMMA FetchKeeps == ASSUME IInv, NEW s \in Slots, Fetch(s) PROVE IInv'
  <1>1. TypeWorld /\ TypeRun /\ Answers /\ Ground
    BY Parts
  <1>2. At(s, "fetch") /\ UNCHANGED <<githubVars, diskVars, marks, providing, cut, edits>>
    BY DEF Fetch
  <1>3. faults' \in 0 .. MaxFaults /\ fetched' \in [Slots -> 0 .. MaxPub]
    BY <1>1, FaultCounts DEF Fetch, TypeWorld
  <1>4. TypeWorld' /\ Around(s)
    BY <1>1, <1>2, <1>3, StillAround DEF TypeWorld, githubVars, diskVars
  <1>5. ASSUME NEW what, Tell(s, what), what = "read" => copy[s].on PROVE IInv'
    BY <1>2, <1>4, <1>5, TellStep DEF Steps, diskVars
  <1>6. CASE Go(s, "merge")
    <2>1. run.kind # "install"
      BY <1>1, <1>2, Unanswered DEF Steps
    <2> QED
      BY <1>2, <1>4, <1>6, <2>1, GoStep DEF Steps
  <1> QED
    BY <1>5, <1>6 DEF Fetch

LEMMA MergeKeeps == ASSUME IInv, NEW s \in Slots, Merge(s) PROVE IInv'
  <1>1. TypeWorld /\ TypeRun /\ Answers /\ Ground
    BY Parts
  <1>2. /\ At(s, "merge")
        /\ UNCHANGED <<githubVars, journal, marks, fetched, providing, cut, countVars>>
    BY DEF Merge
  <1>3. CASE /\ copy[s].on
             /\ copy' = IF copy[s].declared THEN [copy EXCEPT ![s].main = 1..fetched[s]]
                                            ELSE [copy EXCEPT ![s].other = 1..fetched[s]]
             /\ Tell(s, "read")
    <2>1. 1..fetched[s] \in SUBSET Changes
      BY <1>1, Slotted DEF TypeWorld, Changes
    <2>2. copy' \in [Slots -> Copies]
      <3> DEFINE c == IF copy[s].declared THEN [copy[s] EXCEPT !.main = 1..fetched[s]]
                                          ELSE [copy[s] EXCEPT !.other = 1..fetched[s]]
      <3>1. copy[s] \in Copies
        BY <1>1 DEF TypeWorld
      <3>2. c \in Copies
        BY <2>1, <3>1 DEF Copies
      <3>3. copy' = [copy EXCEPT ![s] = c]
        BY <1>1, <1>3 DEF TypeWorld
      <3> QED
        BY <1>1, <3>2, <3>3 DEF TypeWorld
    <2>3. TypeWorld'
      BY <1>1, <1>2, <2>2 DEF TypeWorld, githubVars, countVars
    <2>4. Around(s) /\ copy'[s].on
      BY <1>1, <1>2, <1>3 DEF TypeWorld, Copies, Around
    <2> QED
      BY <1>2, <1>3, <2>3, <2>4, TellStep DEF Steps
  <1>4. CASE UNCHANGED copy /\ Tell(s, "unread")
    <2>1. TypeWorld' /\ Around(s)
      BY <1>1, <1>2, <1>4, StillAround DEF TypeWorld, githubVars, countVars
    <2> QED
      BY <1>2, <1>4, <2>1, TellStep DEF Steps
  <1> QED
    BY <1>3, <1>4 DEF Merge

LEMMA CloneStartsKeeps == ASSUME IInv, NEW s \in Slots, CloneStarts(s) PROVE IInv'
  <1>1. TypeWorld /\ TypeRun /\ Answers /\ Ground
    BY Parts
  <1>2. At(s, "clone") /\ UNCHANGED <<githubVars, copy, journal, marks, providing, cut, edits>>
    BY DEF CloneStarts
  <1>3. faults' \in 0 .. MaxFaults /\ fetched' \in [Slots -> 0 .. MaxPub]
    BY <1>1, FaultCounts DEF CloneStarts, TypeWorld
  <1>4. TypeWorld' /\ Around(s)
    BY <1>1, <1>2, <1>3, StillAround DEF TypeWorld, githubVars
  <1>5. CASE Tell(s, "absent") \/ Tell(s, "unread")
    BY <1>2, <1>4, <1>5, TellStep DEF Steps
  <1>6. CASE Go(s, "publish")
    <2>1. step[s] = "clone"
      BY <1>2 DEF At
    <2>2. ~copy[s].on /\ (s \in Mounts => Parent[s] \in verified)
      BY <1>1, <2>1 DEF Ground, Placed, VerifiedStand
    <2> QED
      BY <1>2, <1>4, <1>6, <2>2, GoStep DEF Steps
  <1> QED
    BY <1>5, <1>6 DEF CloneStarts

LEMMA PublishKeeps == ASSUME IInv, NEW s \in Slots, Publish(s) PROVE IInv'
  <1>1. TypeWorld /\ TypeRun /\ Answers /\ Ground
    BY Parts
  <1>2. /\ At(s, "publish") /\ copy' = [copy EXCEPT ![s] = Clone(fetched[s])] /\ Tell(s, "read")
        /\ UNCHANGED <<githubVars, journal, marks, fetched, providing, cut, countVars>>
    BY DEF Publish
  <1>3. Clone(fetched[s]) \in Copies /\ Clone(fetched[s]).on
    BY <1>1, Cloned DEF TypeWorld
  <1>4. TypeWorld'
    BY <1>1, <1>2, <1>3 DEF TypeWorld, githubVars, countVars
  <1>5. Around(s) /\ copy'[s].on
    BY <1>1, <1>2, <1>3 DEF TypeWorld, Around
  <1> QED
    BY <1>2, <1>4, <1>5, TellStep DEF Steps

LEMMA JudgeKeepsKeeps == ASSUME IInv, NEW s \in Slots, JudgeKeeps(s) PROVE IInv'
  <1>1. TypeWorld /\ TypeRun /\ Answers /\ Ground
    BY Parts
  <1>2. /\ At(s, "judge")
        /\ UNCHANGED <<githubVars, diskVars, marks, verified, fetched, providing, cut, edits>>
    BY DEF JudgeKeeps
  <1>3. PICK p \in {"yes", "no"} : Doubt(s, p)
    BY DEF JudgeKeeps
  <1>4. faults' \in 0 .. MaxFaults
    BY <1>1, FaultCounts DEF JudgeKeeps, TypeWorld
  <1>5. TypeWorld' /\ Around(s)
    BY <1>1, <1>2, <1>4, StillAround DEF TypeWorld, githubVars, diskVars
  <1>6. TypeRun' /\ Answers' /\ step' = [step EXCEPT ![s] = "done"]
    BY <1>1, <1>2, <1>3, DoubtKeeps
  <1> QED
    BY <1>2, <1>5, <1>6, DoneStep DEF At

\* The second proof of a mark that is old enough is the second in a row.
LEMMA SecondProof ==
  ASSUME TypeRun, Answers, NEW s \in Slots, At(s, "judge"), marks[s] = "old",
         step' = [step EXCEPT ![s] = "retire"], run' = [run EXCEPT !.proof = "yes"],
         proofs' = [proofs EXCEPT ![s] = Proved(@)], UNCHANGED <<marks, cut, verified>>
  PROVE  TypeRun' /\ Answers'
  <1>1. /\ run.phase \in {"module", "data"} /\ s \notin run.marked /\ s \notin run.cleared
        /\ run.kind # "install"
    BY Unanswered DEF Steps
  <1>2. proofs[s] \in {"aged", "twice"} \/ s \in cut
    BY <1>1 DEF Answers, Backed
  <1>3. Proved(proofs[s]) \in {"fresh", "twice"}
    BY DEF TypeRun, Proved
  <1>4. proofs'[s] = Proved(proofs[s]) /\ (Proved(proofs[s]) = "twice" \/ s \in cut)
    BY <1>2 DEF TypeRun, Proved
  <1>5. TypeRun'
    BY <1>3 DEF TypeRun, Steps, RunRecords
  <1>6. Resting' /\ Installing'
    BY <1>1 DEF TypeRun, Answers, Resting, Installing, RunRecords
  <1>7. Answered'
    BY <1>1, <1>3 DEF TypeRun, Answers, Answered, RunRecords
  <1>8. Backed'
    BY <1>1, <1>3, <1>4 DEF TypeRun, Answers, Backed, RunRecords
  <1> QED
    BY <1>5, <1>6, <1>7, <1>8 DEF Answers

LEMMA JudgeInv == ASSUME IInv, NEW s \in Slots, Judge(s) PROVE IInv'
  <1>1. TypeWorld /\ TypeRun /\ Answers /\ Ground
    BY Parts
  <1>2. /\ At(s, "judge") /\ proofs' = [proofs EXCEPT ![s] = Proved(@)]
        /\ UNCHANGED <<githubVars, diskVars, marks, verified, fetched, providing, cut, countVars>>
    BY DEF Judge
  <1>3. TypeWorld' /\ Around(s)
    BY <1>1, <1>2, StillAround DEF TypeWorld, githubVars, diskVars, countVars
  <1>4. CASE marks[s] = "old"
    <2>1. step' = [step EXCEPT ![s] = "retire"] /\ run' = [run EXCEPT !.proof = "yes"]
      BY <1>4 DEF Judge
    <2>2. TypeRun' /\ Answers'
      BY <1>1, <1>2, <1>4, <2>1, SecondProof
    <2>3. Ground'
      BY <1>1, <1>2, <1>3, <2>1, GroundKeeps DEF Steps, At
    <2> QED
      BY <1>3, <2>2, <2>3, Whole
  <1>5. CASE marks[s] # "old"
    <2>1. Keep(s, "yes")
      BY <1>5 DEF Judge
    <2>2. PICK q \in {"fresh", "aged", "twice"} : q = Proved(proofs[s])
      BY <1>1 DEF TypeRun, Proved
    <2>3. proofs' = [proofs EXCEPT ![s] = q] /\ proofs'[s] # "none"
      BY <1>1, <1>2, <2>2 DEF TypeRun
    <2>4. TypeRun' /\ Answers' /\ step' = [step EXCEPT ![s] = "done"]
      BY <1>1, <1>2, <1>5, <2>1, <2>3, KeepKeeps
    <2> QED
      BY <1>2, <1>3, <2>4, DoneStep DEF At
  <1> QED
    BY <1>4, <1>5

\* What is kept after all, its proofs as they are.
LEMMA KeptStep ==
  ASSUME IInv, NEW s \in Slots, NEW w \in {"retire", "name", "rename"}, At(s, w),
         Keep(s, "yes"), UNCHANGED <<marks, cut, verified, proofs>>, Around(s), TypeWorld'
  PROVE  IInv'
  <1>1. TypeWorld /\ TypeRun /\ Answers /\ Ground
    BY Parts
  <1>2. step[s] = w /\ (proofs[s] = "twice" \/ s \in cut)
    BY <1>1 DEF At, Answers, Backed
  <1>3. TypeRun' /\ Answers' /\ step' = [step EXCEPT ![s] = "done"]
    BY <1>1, <1>2, KeepKeeps
  <1> QED
    BY <1>2, <1>3, DoneStep

\* A removal goes on.
LEMMA RemovalStep ==
  ASSUME IInv, NEW s \in Slots, NEW w \in {"retire", "name", "rename", "delete"}, At(s, w),
         NEW to \in {"name", "rename", "delete", "done"}, Go(s, to),
         to \in {"name", "rename"} => w # "delete", to = "rename" => journal'[s] = "named",
         UNCHANGED <<marks, cut>>, Around(s), TypeWorld'
  PROVE  IInv'
  <1>1. TypeWorld /\ TypeRun /\ Answers /\ Ground
    BY Parts
  <1>2. step[s] = w /\ run.kind # "install"
    BY <1>1, Unanswered DEF Steps
  <1>3. to \in {"retire", "name", "rename"} => proofs[s] = "twice" \/ s \in cut
    BY <1>1, <1>2 DEF Answers, Backed
  <1> QED
    BY <1>2, <1>3, GoStep DEF Steps

LEMMA RetireKeeps == ASSUME IInv, NEW s \in Slots, Retire(s) PROVE IInv'
  <1>1. TypeWorld /\ TypeRun /\ Answers /\ Ground
    BY Parts
  <1>2. /\ At(s, "retire")
        /\ UNCHANGED <<githubVars, diskVars, marks, fetched, providing, cut, edits>>
    BY DEF Retire
  <1>3. faults' \in 0 .. MaxFaults
    BY <1>1, FaultCounts DEF Retire, TypeWorld
  <1>4. TypeWorld' /\ Around(s)
    BY <1>1, <1>2, <1>3, StillAround DEF TypeWorld, githubVars, diskVars
  <1>5. CASE Go(s, "name")
    BY <1>2, <1>4, <1>5, RemovalStep
  <1>6. CASE Keep(s, "yes") /\ UNCHANGED <<verified, proofs>>
    BY <1>2, <1>4, <1>6, KeptStep
  <1> QED
    BY <1>5, <1>6 DEF Retire

LEMMA NameKeeps == ASSUME IInv, NEW s \in Slots, Name(s) PROVE IInv'
  <1>1. TypeWorld /\ TypeRun /\ Answers /\ Ground
    BY Parts
  <1>2. /\ At(s, "name")
        /\ UNCHANGED <<githubVars, copy, marks, fetched, providing, cut, countVars>>
    BY DEF Name
  <1>3. CASE journal' = [journal EXCEPT ![s] = "named"] /\ Go(s, "rename")
    <2>1. TypeWorld' /\ Around(s) /\ journal'[s] = "named"
      BY <1>1, <1>2, <1>3 DEF TypeWorld, Around, githubVars, countVars
    <2> QED
      BY <1>2, <1>3, <2>1, RemovalStep
  <1>4. CASE Keep(s, "yes") /\ UNCHANGED <<journal, verified, proofs>>
    <2>1. TypeWorld' /\ Around(s)
      BY <1>1, <1>2, <1>4, StillAround DEF TypeWorld, githubVars, countVars
    <2> QED
      BY <1>2, <1>4, <2>1, KeptStep
  <1> QED
    BY <1>3, <1>4 DEF Name

LEMMA RenameKeeps == ASSUME IInv, NEW s \in Slots, Rename(s) PROVE IInv'
  <1>1. TypeWorld /\ TypeRun /\ Answers /\ Ground
    BY Parts
  <1>2. /\ At(s, "rename") /\ Go(s, "delete")
        /\ copy' = [t \in Slots |-> IF t \in {s} \cup Below(s) THEN NoCopy ELSE copy[t]]
        /\ journal' = [t \in Slots |-> IF t = s THEN "moved"
                                       ELSE IF t \in Below(s) /\ journal[t] = "moved" THEN "named"
                                       ELSE journal[t]]
        /\ UNCHANGED <<githubVars, marks, fetched, providing, cut, countVars>>
    BY DEF Rename
  <1>3. TypeWorld'
    BY <1>1, <1>2, Absent DEF TypeWorld, githubVars, countVars
  <1>4. Around(s)
    BY <1>1, <1>2, Absent, Slotted DEF TypeWorld, Around, Below
  <1> QED
    BY <1>2, <1>3, <1>4, RemovalStep

LEMMA RenameFailsKeeps == ASSUME IInv, NEW s \in Slots, RenameFails(s) PROVE IInv'
  <1>1. TypeWorld /\ TypeRun /\ Answers /\ Ground
    BY Parts
  <1>2. /\ At(s, "rename") /\ Fault /\ journal' = [journal EXCEPT ![s] = "no"] /\ Keep(s, "yes")
        /\ UNCHANGED <<githubVars, copy, marks, verified, fetched, providing, proofs, cut, edits>>
    BY DEF RenameFails, historyVars
  <1>3. faults' \in 0 .. MaxFaults
    BY <1>1, <1>2, FaultCounts
  <1>4. TypeWorld' /\ Around(s)
    BY <1>1, <1>2, <1>3 DEF TypeWorld, Around, githubVars
  <1> QED
    BY <1>2, <1>4, KeptStep

LEMMA DeleteKeeps == ASSUME IInv, NEW s \in Slots, Delete(s) PROVE IInv'
  <1>1. TypeWorld /\ TypeRun /\ Answers /\ Ground
    BY Parts
  <1>2. /\ At(s, "delete")
        /\ UNCHANGED <<githubVars, copy, marks, fetched, providing, cut, edits>>
    BY DEF Delete
  <1>3. PICK to \in {"delete", "done"} : Go(s, to)
    BY DEF Delete
  <1>4. faults' \in 0 .. MaxFaults
    BY <1>1, FaultCounts DEF Delete, TypeWorld
  <1>5. \E j \in {"no", "named", "moved"} : journal' = [journal EXCEPT ![s] = j]
    BY <1>1 DEF Delete, TypeWorld, Shorter
  <1>6. TypeWorld' /\ Around(s)
    BY <1>1, <1>2, <1>4, <1>5 DEF TypeWorld, Around, githubVars
  <1> QED
    BY <1>2, <1>3, <1>6, RemovalStep


-----------------------------------------------------------------------------
(* The invariant holds.                                                     *)

LEMMA InitInv == Init => IInv
  BY Slotted DEF Init, IInv, TypeOK, Resting, Installing, Placed, VerifiedStand, Answered, Backed,
                 NoRun, NoCopy, Changes, Slots

LEMMA WorkKeeps == ASSUME IInv, Work PROVE IInv'
  <1>1. CASE Root \/ RootStops \/ Turn \/ Record \/ RecordFails
    BY <1>1, RootKeeps, TurnKeeps, RecordKeeps, KillKeeps
  <1>2. ASSUME NEW s \in Slots,
               \/ Resume(s) \/ Check(s) \/ Fetch(s) \/ Merge(s) \/ CloneStarts(s) \/ Publish(s)
        PROVE  IInv'
    BY <1>2, ResumeKeeps, CheckKeeps, FetchKeeps, MergeKeeps, CloneStartsKeeps, PublishKeeps
  <1>3. ASSUME NEW s \in Slots,
               \/ JudgeKeeps(s) \/ Judge(s) \/ Retire(s) \/ Name(s) \/ Rename(s)
               \/ RenameFails(s) \/ Delete(s)
        PROVE  IInv'
    BY <1>3, JudgeKeepsKeeps, JudgeInv, RetireKeeps, NameKeeps, RenameKeeps, RenameFailsKeeps,
       DeleteKeeps
  <1> QED
    BY <1>1, <1>2, <1>3 DEF Work

LEMMA StutterKeeps == ASSUME IInv, UNCHANGED vars PROVE IInv'
  <1>1. TypeWorld /\ TypeRun /\ Answers /\ Ground
    BY Parts
  <1>2. TypeRun' /\ Answers'
    BY <1>1, RunStands DEF vars, slotVars, historyVars
  <1>3. TypeWorld' /\ Ground'
    BY <1>1 DEF TypeWorld, Ground, Placed, VerifiedStand, vars, githubVars, diskVars, slotVars,
                historyVars, countVars
  <1> QED
    BY <1>2, <1>3, Whole

LEMMA NextKeeps == IInv /\ [Next]_vars => IInv'
  BY OutsideKeeps, RunsKeep, WorkKeeps, KillKeeps, StutterKeeps DEF Next

\* The invariant holds in every state of the synchronisation.
THEOREM Invariance == Spec => []IInv
  <1> QED
    BY InitInv, NextKeeps, PTL DEF Spec

-----------------------------------------------------------------------------
(* What a step does to the checkouts and the journals.                      *)

Worked(s) == Commit(s) \/ Touch(s) \/ Checkout(s) \/ Provides(s) \/ Merge(s) \/ Publish(s)
Written(s) == Resume(s) \/ Name(s) \/ RenameFails(s) \/ Delete(s)

LEMMA DiskSteps ==
  ASSUME Next
  PROVE  \/ UNCHANGED diskVars
         \/ \E s \in Slots : Worked(s) \/ Written(s) \/ Rename(s)
  <1>1. CASE Outside
    <2>1. PICK s \in Slots : \/ Worked(s)
                             \/ Push(s) \/ Access(s) \/ Starts(s) \/ HalfHour(s)
      BY <1>1 DEF Outside, Worked
    <2> QED
      BY <2>1 DEF Push, Access, Starts, HalfHour
  <1>2. CASE Runs \/ Kill
    BY <1>2 DEF Runs, Everything, One, Install, Begin, Kill, EndsUnrecorded
  <1>3. CASE Root \/ RootStops \/ Turn \/ Record \/ RecordFails
    BY <1>3 DEF Root, RootStops, Turn, Record, RecordFails, EndsUnrecorded
  <1>4. ASSUME NEW s \in Slots,
               \/ Check(s) \/ Fetch(s) \/ CloneStarts(s) \/ JudgeKeeps(s) \/ Judge(s) \/ Retire(s)
        PROVE  UNCHANGED diskVars
    BY <1>4 DEF Check, Fetch, CloneStarts, JudgeKeeps, Judge, Retire, diskVars
  <1> QED
    BY <1>1, <1>2, <1>3, <1>4 DEF Next, Work, Worked, Written

\* Only the rename of a named removal moves a checkout away.
LEMMA OnlyRenameMoves ==
  ASSUME IInv, [Next]_vars, NEW s \in Slots, journal[s] = "named", journal'[s] = "moved"
  PROVE  Rename(s)
  <1>1. TypeWorld /\ TypeRun /\ Answers /\ Ground
    BY Parts
  <1>2. PICK t \in Slots : Worked(t) \/ Written(t) \/ Rename(t)
    BY DiskSteps DEF vars, diskVars
  <1>3. journal \in [Slots -> {"no", "named", "moved"}]
    BY <1>1 DEF TypeWorld
  <1>4. ~Worked(t)
    BY DEF Worked, Commit, Touch, Checkout, Works, Provides, Merge, Publish
  <1>5. ~Written(t)
    <2>1. ASSUME Written(t)
          PROVE  \E j \in {"no", "named"} : journal' = [journal EXCEPT ![t] = j] \/ journal' = journal
      BY <1>3, <2>1 DEF Written, Resume, Name, RenameFails, Delete, Shorter
    <2> QED
      BY <1>3, <2>1
  <1>6. Rename(t)
    BY <1>2, <1>4, <1>5
  <1>7. s = t
    BY <1>3, <1>6 DEF Rename
  <1> QED
    BY <1>6, <1>7

\* What a step leaves of one slot's work.
Stays(s) ==
  copy[s].on =>
    IF copy'[s].on
    THEN /\ copy[s].main \subseteq copy'[s].main /\ copy[s].other \subseteq copy'[s].other
         /\ copy[s].dirty /\ edits' = edits => copy'[s].dirty
    ELSE \E t \in {s, ModuleOf(s)} : journal[t] = "named" /\ journal'[t] = "moved"

LEMMA WorkedStays ==
  ASSUME IInv, NEW t \in Slots, Worked(t), NEW s \in Slots
  PROVE  Stays(s)
  <1>1. TypeWorld /\ TypeRun /\ Answers /\ Ground
    BY Parts
  <1>2. copy \in [Slots -> Copies] /\ copy[t] \in Copies /\ edits \in Nat
    BY <1>1, Slotted DEF TypeWorld
  <1>3. CASE Commit(t)
    <2>1. CASE copy[t].declared
      BY <1>2, <1>3, <2>1 DEF Commit, Works, Copies, Stays
    <2>2. CASE ~copy[t].declared
      BY <1>2, <1>3, <2>2 DEF Commit, Works, Copies, Stays
    <2> QED
      BY <2>1, <2>2
  <1>4. CASE Touch(t)
    BY <1>2, <1>4 DEF Touch, Works, Edit, Copies, Stays
  <1>5. CASE Checkout(t)
    BY <1>2, <1>5 DEF Checkout, Works, Copies, Stays
  <1>6. CASE Provides(t)
    <2>1. copy[s].on => copy'[s] = copy[s]
      BY <1>6 DEF Provides
    <2> QED
      BY <2>1 DEF Stays
  <1>7. CASE Merge(t)
    <2>1. CASE UNCHANGED copy
      BY <2>1 DEF Stays
    <2>2. CASE copy[t].declared /\ copy[t].main \subseteq 1..fetched[t]
                 /\ copy' = [copy EXCEPT ![t].main = 1..fetched[t]]
      BY <1>2, <2>2 DEF Copies, Stays
    <2>3. CASE ~copy[t].declared /\ copy[t].other \subseteq 1..fetched[t]
                 /\ copy' = [copy EXCEPT ![t].other = 1..fetched[t]]
      BY <1>2, <2>3 DEF Copies, Stays
    <2> QED
      BY <1>7, <2>1, <2>2, <2>3 DEF Merge, Head
  <1>8. CASE Publish(t)
    <2>1. ~copy[t].on
      BY <1>1, <1>8 DEF Publish, At, Ground, Placed
    <2> QED
      BY <1>2, <1>8, <2>1 DEF Publish, Stays
  <1> QED
    BY <1>3, <1>4, <1>5, <1>6, <1>7, <1>8 DEF Worked

LEMMA RenameStays ==
  ASSUME IInv, NEW t \in Slots, Rename(t), NEW s \in Slots
  PROVE  Stays(s)
  <1>1. TypeWorld /\ TypeRun /\ Answers /\ Ground
    BY Parts
  <1>2. /\ step[t] = "rename"
        /\ copy' = [u \in Slots |-> IF u \in {t} \cup Below(t) THEN NoCopy ELSE copy[u]]
        /\ journal' = [u \in Slots |-> IF u = t THEN "moved"
                                       ELSE IF u \in Below(t) /\ journal[u] = "moved" THEN "named"
                                       ELSE journal[u]]
    BY DEF Rename, At
  <1>3. journal[t] = "named" /\ journal'[t] = "moved"
    BY <1>1, <1>2 DEF Ground, Placed
  <1>4. CASE s \in {t} \cup Below(t)
    <2>1. ~copy'[s].on
      BY <1>2, <1>4, Absent
    <2>2. t \in {s, ModuleOf(s)}
      BY <1>4 DEF Below, ModuleOf
    <2> QED
      BY <1>3, <2>1, <2>2 DEF Stays
  <1>5. CASE s \notin {t} \cup Below(t)
    BY <1>2, <1>5 DEF Stays
  <1> QED
    BY <1>4, <1>5

-----------------------------------------------------------------------------
(* Theorems.                                                                *)

\* What the code keeps has the types the specification gives it, in every state.
THEOREM TypeCorrect == Spec => []TypeOK
  <1>1. IInv => TypeOK
    BY DEF IInv
  <1> QED
    BY Invariance, <1>1, PTL

\* synchronizeRepository clones a data mount only while the module this run
\* verified stands above it.
THEOREM MountsCloneBelowModules == Spec => []ContentInv
  <1>1. IInv => ContentInv
    BY Slotted DEF IInv, VerifiedStand, ContentInv, MountsBelowModules
  <1> QED
    BY Invariance, <1>1, PTL

\* A checkout is moved away only on two proofs in a row that its access ended,
\* half an hour apart, or where a run's other answer was never recorded.
THEOREM RemovedOnTwoProofs == Spec => RemovedOnProofs
  <1>1. IInv /\ [Next]_vars =>
          [\A s \in Slots : (journal[s] = "named" /\ journal'[s] = "moved")
                              => proofs[s] = "twice" \/ s \in cut]_vars
    <2> SUFFICES ASSUME IInv, [Next]_vars, NEW s \in Slots,
                        journal[s] = "named", journal'[s] = "moved"
                 PROVE  proofs[s] = "twice" \/ s \in cut
      OBVIOUS
    <2>1. step[s] = "rename"
      BY OnlyRenameMoves DEF Rename, At
    <2> QED
      BY <2>1 DEF IInv, Backed
  <1> QED
    BY Invariance, <1>1, PTL DEF Spec, RemovedOnProofs

\* No commit and no changed file is lost to a synchronization, a start or a
\* merge: a checkout goes only with a removal of it or of its module.
THEOREM SynchronizingLosesNoWork == Spec => WorkStays
  <1>1. IInv /\ [Next]_vars =>
          [\A s \in Slots : copy[s].on =>
             IF copy'[s].on
             THEN /\ copy[s].main \subseteq copy'[s].main /\ copy[s].other \subseteq copy'[s].other
                  /\ copy[s].dirty /\ edits' = edits => copy'[s].dirty
             ELSE \E t \in {s, ModuleOf(s)} : journal[t] = "named" /\ journal'[t] = "moved"]_vars
    <2> SUFFICES ASSUME IInv, [Next]_vars, NEW s \in Slots PROVE Stays(s)
      BY DEF Stays
    <2>1. CASE UNCHANGED copy
      BY <2>1 DEF Stays
    <2>2. ASSUME NEW t \in Slots, Worked(t) PROVE Stays(s)
      BY <2>2, WorkedStays
    <2>3. ASSUME NEW t \in Slots, Written(t) PROVE UNCHANGED copy
      BY <2>3 DEF Written, Resume, Name, RenameFails, Delete
    <2>4. ASSUME NEW t \in Slots, Rename(t) PROVE Stays(s)
      BY <2>4, RenameStays
    <2> QED
      BY <2>1, <2>2, <2>3, <2>4, DiskSteps DEF vars, diskVars
  <1> QED
    BY Invariance, <1>1, PTL DEF Spec, WorkStays

=============================================================================
