------------------------- MODULE Applications_proofs -------------------------
(* Theorems about Applications, for any number of processes, applications   *)
(* and kills, with and without late requests and late closes.               *)
EXTENDS Applications, FiniteSetTheorems, TLAPS

-----------------------------------------------------------------------------
(* The inductive invariant.  A process that works has a request, and the    *)
(* step it is at says what that request can be; a preparation whose cleanup *)
(* is not confirmed is remembered, so no later step runs beside it.         *)

HasJob == \A o \in Owners : pc[o] \in {"idle", "down"} <=> job[o] = NoJob

HoldsTree ==
  \A o \in Owners :
    pc[o] \in Working \ {"locked"} /\ job[o].kind = "prepare" =>
      job[o].app \in held[o]

StepFitsJob ==
  \A o \in Owners :
    /\ pc[o] \in {"step", "running", "drain"} => job[o].kind # "stop"
    /\ pc[o] \in {"launch", "asked"} => job[o].kind = "start"

StepIsClean ==
  \A o \in Owners :
    \/ pc[o] \in {"step", "launch", "asked"}
    \/ pc[o] \in {"stop", "confirm"} /\ job[o].kind # "stop"
    => left[o] = {}

RequestIsAsked == \A o \in Owners : request[o] # "none" => pc[o] = "asked"

GroupsAreLeft == \A o \in Owners : left[o] = {} => group[o] = {}

TypeControl ==
  /\ pc \in [Owners -> Working \cup {"idle", "queued", "down"}]
  /\ job \in [Owners -> Jobs \cup {NoJob}]
  /\ held \in [Owners -> SUBSET Apps]
  /\ flock \in Owners \cup {Nobody}
  /\ record \in SUBSET Apps
  /\ answer \in Answers \cup {Silence}

TypeProcess ==
  /\ closing \in [Owners -> BOOLEAN]
  /\ left \in [Owners -> SUBSET Apps]
  /\ group \in [Owners -> SUBSET Groups]
  /\ request \in [Owners -> {"none", "sent", "ok", "refused"}]

TypeMachine ==
  /\ orphans \in SUBSET Groups
  /\ late \in SUBSET Apps
  /\ unit \in [Apps -> {"none", "active", "failed"}]
  /\ populated \in SUBSET Apps
  /\ stopping \in SUBSET Apps
  /\ dirty \in SUBSET Apps
  /\ kills \in 0 .. MaxKills

Control == TypeControl /\ HasJob /\ LockIsWorked /\ OneHolder /\ HoldsTree
Cleanup == StepFitsJob /\ StepIsClean /\ GroupsAreLeft

IInv ==
  /\ Control /\ TypeProcess /\ TypeMachine
  /\ Cleanup /\ RequestIsAsked /\ ResetOnlyEmpty

-----------------------------------------------------------------------------
(* How a turn of the coordination lock moves: on to another step under the  *)
(* lock, or to an answer.                                                   *)

Turned(o) ==
  \/ \E s \in Working : Go(o, s)
  \/ \E what \in Outcomes : End(o, what)

\* A process that is not idle has a request of a known kind for an application.
LEMMA JobOf ==
  ASSUME TypeControl, HasJob, NEW o \in Owners, pc[o] \notin {"idle", "down"}
  PROVE  job[o] \in Jobs /\ App(o) \in Apps
  BY DEF TypeControl, HasJob, App, Jobs, NoJob

LEMMA GoKeepsControl ==
  ASSUME Control, NEW o \in Owners, NEW s \in Working, Go(o, s),
         pc[o] \in Working, pc[o] # "locked" \/ ~Is(o, "prepare")
  PROVE  Control'
  <1>1. TypeControl' /\ HasJob'
    BY DEF Control, TypeControl, HasJob, Go, Working
  <1>2. LockIsWorked' /\ OneHolder'
    BY DEF Control, TypeControl, LockIsWorked, OneHolder, Go
  <1>3. HoldsTree'
    BY DEF Control, TypeControl, HoldsTree, Go, Is
  <1> QED
    BY <1>1, <1>2, <1>3 DEF Control

\* The lock's holder answers, and its hold on the lock goes with the step.
LEMMA AnswerKeepsLock ==
  ASSUME Control, NEW o \in Owners, NEW what \in Outcomes, Answer(o, what),
         pc[o] \in Working \cup {"queued"}
  PROVE  /\ pc' \in [Owners -> Working \cup {"idle", "queued", "down"}]
         /\ job' \in [Owners -> Jobs \cup {NoJob}]
         /\ flock' \in Owners \cup {Nobody}
         /\ answer' \in Answers \cup {Silence}
         /\ HasJob' /\ LockIsWorked'
  <1>1. job[o] \in Jobs
    BY JobOf DEF Control, Working
  <1>2. answer' \in Answers
    BY <1>1 DEF Answer, Answers
  <1>3. /\ pc' \in [Owners -> Working \cup {"idle", "queued", "down"}]
        /\ job' \in [Owners -> Jobs \cup {NoJob}]
        /\ flock' \in Owners \cup {Nobody}
        /\ HasJob'
    BY DEF Answer, Control, TypeControl, HasJob
  <1>4. LockIsWorked'
    BY OwnersAssumption DEF Answer, Control, TypeControl, LockIsWorked, Working
  <1> QED
    BY <1>2, <1>3, <1>4

LEMMA EndKeepsControl ==
  ASSUME Control, NEW o \in Owners, NEW what \in Outcomes, End(o, what),
         pc[o] \in Working \ {"locked"}
  PROVE  Control'
  <1>1. /\ pc' \in [Owners -> Working \cup {"idle", "queued", "down"}]
        /\ job' \in [Owners -> Jobs \cup {NoJob}]
        /\ flock' \in Owners \cup {Nobody}
        /\ answer' \in Answers \cup {Silence}
        /\ HasJob' /\ LockIsWorked'
    BY AnswerKeepsLock DEF End
  <1>2. pc' = [pc EXCEPT ![o] = "idle"] /\ job' = [job EXCEPT ![o] = NoJob]
    BY DEF End, Answer
  <1>3. CASE Is(o, "prepare") /\ what # "cleanup"
    <2>1. /\ held' = [held EXCEPT ![o] = @ \ {App(o)}]
          /\ record' = record \ {App(o)}
      BY <1>3 DEF End
    <2>2. App(o) \in held[o]
      BY <1>3 DEF Control, HoldsTree, App, Is
    <2>3. held' \in [Owners -> SUBSET Apps] /\ record' \in SUBSET Apps
      BY <2>1 DEF Control, TypeControl
    <2>4. OneHolder'
      BY <2>1, <2>2 DEF Control, TypeControl, OneHolder
    <2>5. HoldsTree'
      BY <1>2, <2>1 DEF Control, TypeControl, HoldsTree, Working
    <2> QED
      BY <1>1, <2>3, <2>4, <2>5 DEF Control, TypeControl
  <1>4. CASE ~(Is(o, "prepare") /\ what # "cleanup")
    <2>1. held' = held /\ record' = record
      BY <1>4 DEF End
    <2>2. OneHolder' /\ HoldsTree'
      BY <1>2, <2>1 DEF Control, TypeControl, OneHolder, HoldsTree, Working
    <2> QED
      BY <1>1, <2>1, <2>2 DEF Control, TypeControl
  <1> QED
    BY <1>3, <1>4

LEMMA TurnKeepsControl ==
  ASSUME Control, NEW o \in Owners, Turned(o), pc[o] \in Working \ {"locked"}
  PROVE  Control'
  BY GoKeepsControl, EndKeepsControl DEF Turned

\* Every operation under the lock, once admitted, is such a move.
LEMMA WorkTurns ==
  ASSUME NEW o \in Owners, Begin(o) \/ Prepare(o) \/ Start(o) \/ Halt(o)
  PROVE  pc[o] \in Working \ {"locked"} /\ Turned(o)
  <1>1. CASE Begin(o)
    <2>1. CASE BeginRefused(o)
      BY <2>1 DEF BeginRefused, Turned, At, Working, Outcomes
    <2>2. CASE BeginStart(o)
      BY <2>2 DEF BeginStart, MayBegin, Turned, At, Working, Outcomes
    <2>3. CASE BeginBuild(o) \/ BeginPreparation(o) \/ BeginStop(o)
      BY <2>3 DEF BeginBuild, BeginPreparation, BeginStop, MayBegin, Turned, At,
                  Working, Outcomes
    <2> QED
      BY <1>1, <2>1, <2>2, <2>3 DEF Begin
  <1>2. CASE Prepare(o)
    <2>1. CASE StepRefused(o) \/ StepBlocked(o)
      BY <2>1 DEF StepRefused, StepBlocked, Turned, At, Working, Outcomes
    <2>2. CASE Run(o) \/ Ran(o)
      BY <2>2 DEF Run, Ran, Turned, At, Working, Outcomes
    <2>3. CASE DrainConfirmed(o) \/ DrainUnconfirmed(o)
      BY <2>3 DEF DrainConfirmed, DrainUnconfirmed, Turned, At, Working, Outcomes
    <2> QED
      BY <1>2, <2>1, <2>2, <2>3 DEF Prepare
  <1>3. CASE Start(o)
    <2>1. CASE LaunchRefused(o) \/ Launch(o)
      BY <2>1 DEF LaunchRefused, Launch, Turned, At, Working, Outcomes
    <2>2. CASE Started(o) \/ Rejected(o)
      BY <2>2 DEF Started, Rejected, Turned, At, Working, Outcomes
    <2>3. CASE GiveUp(o)
      BY <2>3 DEF GiveUp, Turned, At, Working, Outcomes
    <2> QED
      BY <1>3, <2>1, <2>2, <2>3 DEF Start
  <1>4. CASE Halt(o)
    <2>1. CASE Stop(o)
      BY <2>1 DEF Stop, Stopped, StopIncomplete, Turned, At, Working, Outcomes
    <2>2. CASE Confirm(o)
      BY <2>2 DEF Confirm, Stopped, Turned, At, Working, Outcomes
    <2>3. CASE Expire(o)
      BY <2>3 DEF Expire, StopIncomplete, Turned, At, Working, Outcomes
    <2> QED
      BY <1>4, <2>1, <2>2, <2>3 DEF Halt
  <1> QED
    BY <1>1, <1>2, <1>3, <1>4

LEMMA AdmitKeepsControl ==
  ASSUME Control, NEW o \in Owners, Admit(o)
  PROVE  Control'
  <1>1. CASE Lock(o)
    <2>1. /\ pc[o] = "queued" /\ flock = Nobody
          /\ flock' = o /\ pc' = [pc EXCEPT ![o] = "locked"] /\ answer' = Silence
          /\ UNCHANGED <<job, held, record>>
      BY <1>1 DEF Lock, At, trees
    <2>2. TypeControl' /\ HasJob'
      BY <2>1 DEF Control, TypeControl, HasJob, Working
    <2>3. LockIsWorked'
      BY <2>1, OwnersAssumption DEF Control, TypeControl, LockIsWorked, Working
    <2>4. OneHolder' /\ HoldsTree'
      BY <2>1 DEF Control, TypeControl, OneHolder, HoldsTree
    <2> QED
      BY <2>2, <2>3, <2>4 DEF Control
  <1>2. CASE \E what \in Outcomes : /\ Answer(o, what) /\ pc[o] \in {"queued", "locked"}
                                 /\ UNCHANGED <<held, record>>
    <2>1. PICK what \in Outcomes : /\ Answer(o, what) /\ pc[o] \in {"queued", "locked"}
                                 /\ UNCHANGED <<held, record>>
      BY <1>2
    <2>2. OneHolder' /\ HoldsTree'
      BY <2>1 DEF Answer, Control, TypeControl, OneHolder, HoldsTree, Working
    <2> QED
      BY <2>1, <2>2, AnswerKeepsLock DEF Control, TypeControl, Working
  <1>3. CASE Busy(o)
    BY <1>2, <1>3 DEF Busy, At, Outcomes, trees
  <1>4. CASE AdmitPlain(o)
    BY <1>2, <1>4, GoKeepsControl DEF AdmitPlain, At, Outcomes, Working
  <1>5. CASE AdmitPreparation(o)
    <2>1. CASE closing[o] \/ Foreign(o, App(o))
      BY <1>2, <1>5, <2>1 DEF AdmitPreparation, At, Outcomes
    <2>2. CASE ~closing[o] /\ ~Foreign(o, App(o))
      <3>1. /\ pc[o] = "locked"
            /\ held' = [held EXCEPT ![o] = @ \cup {App(o)}]
            /\ record' = record \cup {App(o)}
        BY <1>5, <2>2 DEF AdmitPreparation, At
      <3>2. App(o) \in Apps /\ job[o] \in Jobs
        BY <3>1, JobOf DEF Control
      <3>3. held' \in [Owners -> SUBSET Apps] /\ record' \in SUBSET Apps
        BY <3>1, <3>2 DEF Control, TypeControl
      <3>4. OneHolder'
        BY <2>2, <3>1, <3>2 DEF Control, TypeControl, OneHolder, Foreign
      <3>5. CASE Answer(o, "thrown")
        <4>1. HoldsTree'
          BY <3>1, <3>5 DEF Answer, Control, TypeControl, HoldsTree, Working
        <4> QED
          BY <3>1, <3>3, <3>4, <3>5, <4>1, AnswerKeepsLock
             DEF Control, TypeControl, Working, Outcomes
      <3>6. CASE /\ pc' = [pc EXCEPT ![o] = "begin"] /\ answer' = Silence
                 /\ UNCHANGED <<job, flock>>
        <4>1. TypeControl' /\ HasJob'
          BY <3>1, <3>3, <3>6 DEF Control, TypeControl, HasJob, Working
        <4>2. LockIsWorked'
          BY <3>1, <3>6 DEF Control, TypeControl, LockIsWorked, Working
        <4>3. HoldsTree'
          BY <3>1, <3>6 DEF Control, TypeControl, HoldsTree, App
        <4> QED
          BY <3>4, <4>1, <4>2, <4>3 DEF Control
      <3> QED
        BY <1>5, <2>2, <3>5, <3>6 DEF AdmitPreparation
    <2> QED
      BY <2>1, <2>2
  <1> QED
    BY <1>1, <1>3, <1>4, <1>5 DEF Admit

\* A process leaves, by itself or killed; a record on disk goes with its holder
\* or stays.
LEMMA LeaveKeepsControl ==
  ASSUME Control, NEW o \in Owners,
         pc' = [pc EXCEPT ![o] = "down"], job' = [job EXCEPT ![o] = NoJob],
         held' = [held EXCEPT ![o] = {}], record' \in {record, record \ held[o]},
         flock' = IF flock = o THEN Nobody ELSE flock, answer' = Silence
  PROVE  Control'
  <1>1. TypeControl' /\ HasJob'
    BY DEF Control, TypeControl, HasJob
  <1>2. LockIsWorked'
    BY OwnersAssumption DEF Control, TypeControl, LockIsWorked, Working
  <1>3. OneHolder'
    BY DEF Control, TypeControl, OneHolder
  <1>4. HoldsTree'
    BY DEF Control, TypeControl, HoldsTree, Working
  <1> QED
    BY <1>1, <1>2, <1>3, <1>4 DEF Control

LEMMA NextKeepsControl ==
  ASSUME Control, [Next]_vars
  PROVE  Control'
  <1>1. ASSUME NEW o \in Owners, NEW j \in Jobs, Request(o, j)
        PROVE  Control'
    <2>1. /\ pc[o] = "idle" /\ pc' = [pc EXCEPT ![o] = "queued"]
          /\ job' = [job EXCEPT ![o] = j] /\ answer' = Silence
          /\ UNCHANGED <<held, flock, record>>
      BY <1>1 DEF Request, At, trees
    <2>2. j # NoJob
      BY DEF Jobs, NoJob, Kinds
    <2>3. TypeControl' /\ HasJob'
      BY <2>1, <2>2 DEF Control, TypeControl, HasJob
    <2>4. LockIsWorked' /\ OneHolder' /\ HoldsTree'
      BY <2>1 DEF Control, TypeControl, LockIsWorked, OneHolder, HoldsTree, Working
    <2> QED
      BY <2>3, <2>4 DEF Control
  <1>2. ASSUME NEW o \in Owners, Work(o)
        PROVE  Control'
    BY <1>2, AdmitKeepsControl, WorkTurns, TurnKeepsControl DEF Work
  <1>3. CASE UNCHANGED <<pc, job, held, flock, record>> /\ answer' \in {answer, Silence}
    BY <1>3 DEF Control, TypeControl, HasJob, LockIsWorked, OneHolder, HoldsTree
  <1>4. ASSUME NEW o \in Owners, GroupEnds(o) \/ ExecuteRequest(o) \/ Close(o)
        PROVE  Control'
    BY <1>3, <1>4 DEF GroupEnds, ExecuteRequest, Machine, Close, trees
  <1>5. ASSUME NEW o \in Owners, Shutdown(o)
        PROVE  Control'
    <2>1. flock # o
      BY <1>5 DEF Shutdown, Control, LockIsWorked, Working
    <2> QED
      BY <1>5, <2>1, LeaveKeepsControl DEF Shutdown
  <1>6. ASSUME NEW o \in Owners, Kill(o) \/ ExitIncomplete(o)
        PROVE  Control'
    BY <1>6, LeaveKeepsControl DEF Kill, ExitIncomplete, Die
  <1>7. ASSUME NEW o \in Owners, Open(o)
        PROVE  Control'
    <2>1. /\ pc[o] = "down" /\ pc' = [pc EXCEPT ![o] = "idle"] /\ answer' = Silence
          /\ UNCHANGED <<job, held, flock, record>>
      BY <1>7 DEF Open, At, trees
    <2> QED
      BY <2>1 DEF Control, TypeControl, HasJob, LockIsWorked, OneHolder, HoldsTree,
                  Working
  <1>8. ASSUME NEW a \in Apps, Service(a)
        PROVE  Control'
    BY <1>3, <1>8 DEF Service, ExecuteLate, UnitExits, StopJob, GroupEmpties, Machine,
                      trees
  <1>9. ASSUME NEW a \in Apps, Recover(a)
        PROVE  Control'
    <2>1. /\ \A o \in Owners : a \notin held[o]
          /\ record' = record \ {a} /\ answer' = Silence
          /\ UNCHANGED <<pc, job, held, flock>>
      BY <1>9 DEF Recover
    <2> QED
      BY <2>1 DEF Control, TypeControl, HasJob, LockIsWorked, OneHolder, HoldsTree
  <1>10. CASE OrphanEnds
    BY <1>3, <1>10 DEF OrphanEnds
  <1>11. CASE UNCHANGED vars
    BY <1>3, <1>11 DEF vars, trees
  <1> QED
    BY <1>1, <1>2, <1>4, <1>5, <1>6, <1>7, <1>8, <1>9, <1>10, <1>11 DEF Next

-----------------------------------------------------------------------------
(* Cleanup: what a process may have left running, at each of its steps.     *)

\* A step that only moves on, or answers, without touching what is left.
LEMMA QuietKeepsCleanup ==
  ASSUME Control, Cleanup, NEW o \in Owners, UNCHANGED <<left, group>>,
         \/ \E what \in Outcomes : Answer(o, what)
         \/ \E s \in Working :
              /\ Go(o, s)
              /\ s \in {"step", "running", "drain"} => job[o].kind # "stop"
              /\ s \in {"launch", "asked"} => job[o].kind = "start"
              /\ \/ s \in {"step", "launch", "asked"}
                 \/ s \in {"stop", "confirm"} /\ job[o].kind # "stop"
                 => left[o] = {}
  PROVE  Cleanup'
  <1>1. GroupsAreLeft'
    BY DEF Cleanup, GroupsAreLeft
  <1>2. CASE \E what \in Outcomes : Answer(o, what)
    <2>1. pc' = [pc EXCEPT ![o] = "idle"] /\ job' = [job EXCEPT ![o] = NoJob]
      BY <1>2 DEF Answer
    <2>2. StepFitsJob' /\ StepIsClean'
      BY <2>1 DEF Control, TypeControl, Cleanup, StepFitsJob, StepIsClean
    <2> QED
      BY <1>1, <2>2 DEF Cleanup
  <1>3. ASSUME NEW s \in Working, Go(o, s),
               s \in {"step", "running", "drain"} => job[o].kind # "stop",
               s \in {"launch", "asked"} => job[o].kind = "start",
               \/ s \in {"step", "launch", "asked"}
               \/ s \in {"stop", "confirm"} /\ job[o].kind # "stop"
               => left[o] = {}
        PROVE  Cleanup'
    <2>1. pc' = [pc EXCEPT ![o] = s] /\ job' = job
      BY <1>3 DEF Go
    <2>2. StepFitsJob' /\ StepIsClean'
      BY <1>3, <2>1 DEF Control, TypeControl, Cleanup, StepFitsJob, StepIsClean
    <2> QED
      BY <1>1, <2>2 DEF Cleanup
  <1> QED
    BY <1>2, <1>3

LEMMA AdmitKeepsCleanup ==
  ASSUME Control, Cleanup, NEW o \in Owners, Admit(o)
  PROVE  Cleanup'
  <1>1. /\ UNCHANGED <<left, group>>
        /\ \/ \E what \in Outcomes : Answer(o, what)
           \/ /\ pc' \in {[pc EXCEPT ![o] = s] : s \in {"locked", "begin"}}
              /\ job' = job
    BY DEF Admit, Lock, Busy, AdmitPlain, AdmitPreparation, Go, Outcomes
  <1>2. CASE \E what \in Outcomes : Answer(o, what)
    BY <1>1, <1>2, QuietKeepsCleanup
  <1>3. CASE /\ pc' \in {[pc EXCEPT ![o] = s] : s \in {"locked", "begin"}}
             /\ job' = job
    BY <1>1, <1>3 DEF Control, TypeControl, Cleanup, StepFitsJob, StepIsClean,
                      GroupsAreLeft
  <1> QED
    BY <1>1, <1>2, <1>3

LEMMA BeginKeepsCleanup ==
  ASSUME Control, Cleanup, NEW o \in Owners, Begin(o)
  PROVE  Cleanup'
  <1>1. UNCHANGED <<left, group>>
    BY DEF Begin, BeginRefused, BeginStart, BeginBuild, BeginPreparation, BeginStop
  <1>2. CASE BeginRefused(o)
    BY <1>1, <1>2, QuietKeepsCleanup DEF BeginRefused, End, Outcomes
  <1>3. CASE BeginStart(o)
    BY <1>1, <1>3, QuietKeepsCleanup
       DEF BeginStart, MayBegin, Is, End, Outcomes, Working
  <1>4. CASE BeginBuild(o) \/ BeginPreparation(o)
    BY <1>1, <1>4, QuietKeepsCleanup
       DEF BeginBuild, BeginPreparation, MayBegin, Is, End, Outcomes, Working
  <1>5. CASE BeginStop(o)
    BY <1>1, <1>5, QuietKeepsCleanup DEF BeginStop, Is, End, Outcomes, Working
  <1> QED
    BY <1>2, <1>3, <1>4, <1>5 DEF Begin

LEMMA PrepareKeepsCleanup ==
  ASSUME Control, TypeProcess, Cleanup, NEW o \in Owners, Prepare(o)
  PROVE  Cleanup'
  <1>1. CASE StepRefused(o)
    BY <1>1, QuietKeepsCleanup DEF StepRefused, End, Outcomes
  <1>2. CASE StepBlocked(o)
    <2>1. left[o] = {}
      BY <1>2 DEF StepBlocked, At, Cleanup, StepIsClean
    <2> QED
      BY <1>2, <2>1, QuietKeepsCleanup DEF StepBlocked, End, Outcomes, Working
  <1>3. CASE Run(o)
    <2>1. /\ pc[o] = "step" /\ pc' = [pc EXCEPT ![o] = "running"] /\ job' = job
          /\ left' = [left EXCEPT ![o] = @ \cup {App(o)}]
          /\ \E g : group' = [group EXCEPT ![o] = g]
      BY <1>3 DEF Run, At, Go
    <2>2. StepFitsJob' /\ StepIsClean'
      BY <2>1 DEF Control, TypeControl, TypeProcess, Cleanup, StepFitsJob, StepIsClean
    <2>3. GroupsAreLeft'
      BY <2>1 DEF TypeProcess, Cleanup, GroupsAreLeft
    <2> QED
      BY <2>2, <2>3 DEF Cleanup
  <1>4. CASE Ran(o)
    BY <1>4, QuietKeepsCleanup DEF Ran, At, Cleanup, StepFitsJob, Working
  <1>5. CASE DrainConfirmed(o)
    <2>1. /\ pc[o] = "drain" /\ group[o] = {} /\ group' = group
          /\ left' = [left EXCEPT ![o] = {}]
          /\ \/ /\ pc' = [pc EXCEPT ![o] = "launch"] /\ job' = job
                /\ job[o].kind = "start"
             \/ /\ pc' = [pc EXCEPT ![o] = "idle"]
                /\ job' = [job EXCEPT ![o] = NoJob]
      BY <1>5 DEF DrainConfirmed, Confirmed, At, Is, Go, End, Answer
    <2>2. StepFitsJob' /\ StepIsClean'
      BY <2>1 DEF Control, TypeControl, TypeProcess, Cleanup, StepFitsJob, StepIsClean
    <2>3. GroupsAreLeft'
      BY <2>1 DEF TypeProcess, Cleanup, GroupsAreLeft
    <2> QED
      BY <2>2, <2>3 DEF Cleanup
  <1>6. CASE DrainUnconfirmed(o)
    <2>1. /\ pc' = [pc EXCEPT ![o] = "idle"]
          /\ job' = [job EXCEPT ![o] = NoJob]
          /\ \/ UNCHANGED <<left, group>>
             \/ /\ left' = [left EXCEPT ![o] = {}]
                /\ group' = [group EXCEPT ![o] = {}]
      BY <1>6 DEF DrainUnconfirmed, Confirmed, End, Answer
    <2>2. StepFitsJob' /\ StepIsClean'
      BY <2>1 DEF Control, TypeControl, TypeProcess, Cleanup, StepFitsJob, StepIsClean
    <2>3. GroupsAreLeft'
      BY <2>1 DEF TypeProcess, Cleanup, GroupsAreLeft
    <2> QED
      BY <2>2, <2>3 DEF Cleanup
  <1> QED
    BY <1>1, <1>2, <1>3, <1>4, <1>5, <1>6 DEF Prepare

LEMMA StartKeepsCleanup ==
  ASSUME Control, Cleanup, NEW o \in Owners, Start(o)
  PROVE  Cleanup'
  <1>1. UNCHANGED <<left, group>>
    BY DEF Start, LaunchRefused, Launch, Started, Rejected, GiveUp
  <1>2. job[o].kind = "start" /\ left[o] = {}
    BY DEF Start, LaunchRefused, Launch, Started, Rejected, GiveUp, At, Cleanup,
           StepFitsJob, StepIsClean
  <1>3. CASE LaunchRefused(o)
    BY <1>1, <1>3, QuietKeepsCleanup DEF LaunchRefused, End, Outcomes
  <1>4. CASE Launch(o)
    BY <1>1, <1>2, <1>4, QuietKeepsCleanup DEF Launch, Working
  <1>5. CASE Started(o) \/ Rejected(o)
    BY <1>1, <1>5, QuietKeepsCleanup DEF Started, Rejected, End, Outcomes
  <1>6. CASE GiveUp(o)
    BY <1>1, <1>2, <1>6, QuietKeepsCleanup DEF GiveUp, End, Outcomes, Working
  <1> QED
    BY <1>3, <1>4, <1>5, <1>6 DEF Start

LEMMA HaltKeepsCleanup ==
  ASSUME Control, Cleanup, NEW o \in Owners, Halt(o)
  PROVE  Cleanup'
  <1>1. UNCHANGED <<left, group>>
    BY DEF Halt, Stop, Confirm, Expire
  <1>2. job[o].kind # "stop" => left[o] = {}
    BY DEF Halt, Stop, Confirm, Expire, At, Cleanup, StepIsClean
  <1>3. Stopped(o) => Cleanup'
    BY <1>1, <1>2, QuietKeepsCleanup DEF Stopped, Is, End, Outcomes, Working
  <1>4. StopIncomplete(o) => Cleanup'
    BY <1>1, QuietKeepsCleanup DEF StopIncomplete, End, Outcomes
  <1>5. Go(o, "confirm") => Cleanup'
    BY <1>1, <1>2, QuietKeepsCleanup DEF Working
  <1> QED
    BY <1>3, <1>4, <1>5 DEF Halt, Stop, Confirm, Expire

LEMMA NextKeepsCleanup ==
  ASSUME Control, TypeProcess, Cleanup, [Next]_vars
  PROVE  Cleanup'
  <1>1. ASSUME NEW o \in Owners, NEW j \in Jobs, Request(o, j)
        PROVE  Cleanup'
    <2>1. /\ pc[o] = "idle" /\ pc' = [pc EXCEPT ![o] = "queued"]
          /\ job' = [job EXCEPT ![o] = j]
          /\ UNCHANGED <<left, group>>
      BY <1>1 DEF Request, At
    <2> QED
      BY <2>1 DEF Control, TypeControl, Cleanup, StepFitsJob, StepIsClean, GroupsAreLeft
  <1>2. ASSUME NEW o \in Owners, Work(o)
        PROVE  Cleanup'
    BY <1>2, AdmitKeepsCleanup, BeginKeepsCleanup, PrepareKeepsCleanup,
       StartKeepsCleanup, HaltKeepsCleanup DEF Work
  <1>3. ASSUME NEW o \in Owners, GroupEnds(o)
        PROVE  Cleanup'
    <2>1. group' = [group EXCEPT ![o] = {}] /\ UNCHANGED <<pc, job, left>>
      BY <1>3 DEF GroupEnds
    <2> QED
      BY <2>1 DEF TypeProcess, Cleanup, StepFitsJob, StepIsClean, GroupsAreLeft
  <1>4. CASE UNCHANGED <<pc, job, left, group>>
    BY <1>4 DEF Cleanup, StepFitsJob, StepIsClean, GroupsAreLeft
  <1>5. ASSUME NEW o \in Owners, ExecuteRequest(o) \/ Close(o)
        PROVE  Cleanup'
    BY <1>4, <1>5 DEF ExecuteRequest, Machine, Close
  <1>6. ASSUME NEW o \in Owners, Shutdown(o) \/ Kill(o) \/ ExitIncomplete(o)
        PROVE  Cleanup'
    <2>1. /\ pc' = [pc EXCEPT ![o] = "down"] /\ job' = [job EXCEPT ![o] = NoJob]
          /\ left' = [left EXCEPT ![o] = {}]
          /\ \/ group[o] = {} /\ group' = group
             \/ group' = [group EXCEPT ![o] = {}]
      BY <1>6 DEF Shutdown, Confirmed, Kill, ExitIncomplete, Die
    <2>2. StepFitsJob' /\ StepIsClean'
      BY <2>1 DEF Control, TypeControl, TypeProcess, Cleanup, StepFitsJob, StepIsClean
    <2>3. GroupsAreLeft'
      BY <2>1 DEF TypeProcess, Cleanup, GroupsAreLeft
    <2> QED
      BY <2>2, <2>3 DEF Cleanup
  <1>7. ASSUME NEW o \in Owners, Open(o)
        PROVE  Cleanup'
    <2>1. pc' = [pc EXCEPT ![o] = "idle"] /\ UNCHANGED <<job, left, group>>
      BY <1>7 DEF Open
    <2> QED
      BY <2>1 DEF Control, TypeControl, Cleanup, StepFitsJob, StepIsClean, GroupsAreLeft
  <1>8. ASSUME NEW a \in Apps, Service(a) \/ Recover(a)
        PROVE  Cleanup'
    BY <1>4, <1>8 DEF Service, ExecuteLate, UnitExits, StopJob, GroupEmpties, Machine,
                      Recover
  <1>9. CASE OrphanEnds
    BY <1>4, <1>9 DEF OrphanEnds
  <1>10. CASE UNCHANGED vars
    BY <1>4, <1>10 DEF vars
  <1> QED
    BY <1>1, <1>2, <1>3, <1>5, <1>6, <1>7, <1>8, <1>9, <1>10 DEF Next

-----------------------------------------------------------------------------
(* The remaining types.                                                     *)

LEMMA WorkKeepsTypes ==
  ASSUME Control, TypeProcess, TypeMachine, NEW o \in Owners, Work(o)
  PROVE  TypeProcess' /\ TypeMachine'
  <1> USE DEF TypeProcess, TypeMachine
  <1>1. \A a : Cleared(a) \in [Apps -> {"none", "active", "failed"}]
    BY DEF Cleared
  <1>2. CASE Admit(o)
    BY <1>2 DEF Admit, Lock, Busy, AdmitPlain, AdmitPreparation, trees, manager
  <1>3. CASE Begin(o)
    BY <1>3 DEF Begin, BeginRefused, BeginStart, BeginBuild, BeginPreparation,
                BeginStop, manager
  <1>4. CASE Run(o)
    <2>1. App(o) \in Apps
      BY <1>4, JobOf DEF Run, At, Control
    <2> QED
      BY <1>4, <2>1 DEF Run, manager, Groups
  <1>5. CASE StepRefused(o) \/ StepBlocked(o) \/ Ran(o)
    BY <1>5 DEF StepRefused, StepBlocked, Ran, manager
  <1>6. CASE DrainConfirmed(o) \/ DrainUnconfirmed(o)
    BY <1>6 DEF DrainConfirmed, DrainUnconfirmed, Confirmed, manager
  <1>7. CASE Start(o)
    BY <1>1, <1>7 DEF Start, LaunchRefused, Launch, Started, Rejected, GiveUp, manager
  <1>8. CASE Halt(o)
    <2>1. App(o) \in Apps
      BY <1>8, JobOf DEF Halt, Stop, Confirm, Expire, At, Control
    <2> QED
      BY <1>1, <1>8, <2>1 DEF Halt, Stop, Confirm, Expire, manager
  <1> QED
    BY <1>2, <1>3, <1>4, <1>5, <1>6, <1>7, <1>8 DEF Work, Prepare

LEMMA ExecuteType ==
  ASSUME TypeMachine, NEW a \in Apps, NEW accepted \in BOOLEAN, Execute(a, accepted)
  PROVE  /\ unit' \in [Apps -> {"none", "active", "failed"}]
         /\ populated' \in SUBSET Apps
  BY DEF TypeMachine, Execute

LEMMA NextKeepsTypes ==
  ASSUME Control, TypeProcess, TypeMachine, RequestIsAsked, [Next]_vars
  PROVE  TypeProcess' /\ TypeMachine'
  <1>1. ASSUME NEW o \in Owners, NEW j \in Jobs, Request(o, j)
        PROVE  TypeProcess' /\ TypeMachine'
    BY <1>1 DEF Request, TypeProcess, TypeMachine, trees, manager
  <1>2. ASSUME NEW o \in Owners, Work(o)
        PROVE  TypeProcess' /\ TypeMachine'
    BY <1>2, WorkKeepsTypes
  <1>3. ASSUME NEW o \in Owners, GroupEnds(o) \/ Close(o) \/ Open(o)
        PROVE  TypeProcess' /\ TypeMachine'
    BY <1>3 DEF GroupEnds, Close, Open, TypeProcess, TypeMachine, trees, manager
  <1>4. ASSUME NEW o \in Owners, ExecuteRequest(o), App(o) \in Apps
        PROVE  TypeProcess' /\ TypeMachine'
    <2>1. /\ unit' \in [Apps -> {"none", "active", "failed"}]
          /\ populated' \in SUBSET Apps
      BY <1>4, ExecuteType DEF ExecuteRequest
    <2> QED
      BY <1>4, <2>1 DEF ExecuteRequest, Machine, TypeProcess, TypeMachine, trees
  <1>5. ASSUME NEW o \in Owners, Shutdown(o)
        PROVE  TypeProcess' /\ TypeMachine'
    BY <1>5 DEF Shutdown, Confirmed, TypeProcess, TypeMachine, manager
  <1>6. ASSUME NEW o \in Owners, Die(o), App(o) \in Apps \/ request[o] = "none",
               kills' \in 0 .. MaxKills
        PROVE  TypeProcess' /\ TypeMachine'
    BY <1>6 DEF Die, TypeProcess, TypeMachine
  <1>7. ASSUME NEW a \in Apps, Service(a)
        PROVE  TypeProcess' /\ TypeMachine'
    <2>1. CASE ExecuteLate(a)
      <3>1. /\ unit' \in [Apps -> {"none", "active", "failed"}]
            /\ populated' \in SUBSET Apps
        BY <2>1, ExecuteType DEF ExecuteLate
      <3> QED
        BY <2>1, <3>1 DEF ExecuteLate, Machine, TypeProcess, TypeMachine, trees
    <2>2. CASE UnitExits(a) \/ StopJob(a) \/ GroupEmpties(a)
      BY <2>2 DEF UnitExits, StopJob, GroupEmpties, Exit, Machine, TypeProcess,
                  TypeMachine, trees
    <2> QED
      BY <1>7, <2>1, <2>2 DEF Service
  <1>8. ASSUME NEW a \in Apps, Recover(a)
        PROVE  TypeProcess' /\ TypeMachine'
    BY <1>8 DEF Recover, TypeProcess, TypeMachine, manager
  <1>9. CASE OrphanEnds
    BY <1>9 DEF OrphanEnds, TypeProcess, TypeMachine, manager
  <1>10. CASE UNCHANGED vars
    BY <1>10 DEF vars, TypeProcess, TypeMachine, trees, manager
  <1>11. ASSUME NEW o \in Owners, Kill(o) \/ ExitIncomplete(o)
         PROVE  Die(o) /\ kills' \in 0 .. MaxKills
    BY <1>11, KillsAssumption DEF Kill, ExitIncomplete, TypeMachine
  <1>12. \A o \in Owners : App(o) \in Apps \/ request[o] = "none"
    BY JobOf DEF Control, TypeProcess, RequestIsAsked
  <1>13. \A o \in Owners : ExecuteRequest(o) => App(o) \in Apps
    BY <1>12 DEF ExecuteRequest
  <1> QED
    BY <1>1, <1>2, <1>3, <1>4, <1>5, <1>6, <1>7, <1>8, <1>9, <1>10, <1>11, <1>12,
       <1>13 DEF Next

\* A start request is out only while its process waits for the answer.
LEMMA NextKeepsAsked ==
  ASSUME Control, TypeProcess, RequestIsAsked, [Next]_vars
  PROVE  RequestIsAsked'
  <1> USE DEF RequestIsAsked
  <1>1. ASSUME NEW o \in Owners, pc[o] # "asked", request' = request,
               \E s : pc' = [pc EXCEPT ![o] = s]
        PROVE  RequestIsAsked'
    BY <1>1 DEF Control, TypeControl
  <1>2. ASSUME NEW o \in Owners, NEW s, pc' = [pc EXCEPT ![o] = s],
               request' = [request EXCEPT ![o] = "none"]
        PROVE  RequestIsAsked'
    BY <1>2 DEF Control, TypeControl, TypeProcess
  <1>3. ASSUME NEW o \in Owners, Turned(o)
        PROVE  \E s : pc' = [pc EXCEPT ![o] = s]
    BY <1>3 DEF Turned, Go, End, Answer
  <1>4. ASSUME NEW o \in Owners, Admit(o)
        PROVE  RequestIsAsked'
    <2>1. pc[o] # "asked" /\ request' = request
      BY <1>4 DEF Admit, Lock, Busy, AdmitPlain, AdmitPreparation, At
    <2>2. \E s : pc' = [pc EXCEPT ![o] = s]
      BY <1>4 DEF Admit, Lock, Busy, AdmitPlain, AdmitPreparation, Go, Answer
    <2> QED
      BY <1>1, <2>1, <2>2
  <1>5. ASSUME NEW o \in Owners, Begin(o) \/ Prepare(o) \/ Halt(o) \/ LaunchRefused(o)
        PROVE  RequestIsAsked'
    <2>1. Turned(o)
      BY <1>5, WorkTurns DEF Start
    <2>2. pc[o] # "asked"
      BY <1>5 DEF Begin, BeginRefused, BeginStart, BeginBuild, BeginPreparation,
                  BeginStop, MayBegin, Prepare, StepRefused, StepBlocked, Run, Ran,
                  DrainConfirmed, DrainUnconfirmed, Halt, Stop, Confirm, Expire,
                  LaunchRefused, At
    <2>3. request' = request
      BY <1>5 DEF Begin, BeginRefused, BeginStart, BeginBuild, BeginPreparation,
                  BeginStop, Prepare, StepRefused, StepBlocked, Run, Ran,
                  DrainConfirmed, DrainUnconfirmed, Halt, Stop, Confirm, Expire,
                  LaunchRefused, manager
    <2> QED
      BY <1>1, <1>3, <2>1, <2>2, <2>3
  <1>6. ASSUME NEW o \in Owners, Launch(o)
        PROVE  RequestIsAsked'
    BY <1>6 DEF Launch, Go, Control, TypeControl, TypeProcess
  <1>7. ASSUME NEW o \in Owners, Started(o) \/ Rejected(o) \/ GiveUp(o)
        PROVE  RequestIsAsked'
    <2>1. Turned(o)
      BY <1>7, WorkTurns DEF Start
    <2>2. request' = [request EXCEPT ![o] = "none"]
      BY <1>7 DEF Started, Rejected, GiveUp
    <2> QED
      BY <1>2, <1>3, <2>1, <2>2
  <1>8. ASSUME NEW o \in Owners, ExecuteRequest(o)
        PROVE  RequestIsAsked'
    <2>1. /\ request[o] = "sent" /\ pc' = pc
          /\ \E r : request' = [request EXCEPT ![o] = r]
      BY <1>8 DEF ExecuteRequest, Machine
    <2> QED
      BY <2>1 DEF TypeProcess
  <1>9. ASSUME NEW o \in Owners,
               Shutdown(o) \/ Open(o) \/ \E j \in Jobs : Request(o, j)
        PROVE  RequestIsAsked'
    <2>1. /\ pc[o] # "asked" /\ request' = request
          /\ \E s : pc' = [pc EXCEPT ![o] = s]
      BY <1>9 DEF Shutdown, Open, Request, At
    <2> QED
      BY <1>1, <2>1
  <1>10. ASSUME NEW o \in Owners, Kill(o) \/ ExitIncomplete(o)
         PROVE  RequestIsAsked'
    BY <1>2, <1>10 DEF Kill, ExitIncomplete, Die
  <1>11. CASE UNCHANGED <<pc, request>>
    BY <1>11
  <1>12. ASSUME NEW o \in Owners, GroupEnds(o) \/ Close(o)
         PROVE  RequestIsAsked'
    BY <1>11, <1>12 DEF GroupEnds, Close
  <1>13. ASSUME NEW a \in Apps, Service(a) \/ Recover(a)
         PROVE  RequestIsAsked'
    BY <1>11, <1>13 DEF Service, ExecuteLate, UnitExits, StopJob, GroupEmpties,
                        Machine, Recover
  <1>14. CASE OrphanEnds \/ UNCHANGED vars
    BY <1>11, <1>14 DEF OrphanEnds, vars
  <1> QED
    BY <1>4, <1>5, <1>6, <1>7, <1>8, <1>9, <1>10, <1>12, <1>13, <1>14
       DEF Next, Work, Start

-----------------------------------------------------------------------------
(* The manager's records.                                                   *)

\* Only an empty unit's failed record is reset.
LEMMA ClearedIsEmpty ==
  ASSUME TypeMachine, ResetOnlyEmpty, NEW a \in Apps,
         unit' \in {unit, Cleared(a)}, populated' = populated
  PROVE  ResetOnlyEmpty'
  BY DEF TypeMachine, ResetOnlyEmpty, Cleared

LEMMA NextKeepsReset ==
  ASSUME IInv, [Next]_vars
  PROVE  ResetOnlyEmpty'
  <1> USE DEF IInv
  <1>1. CASE UNCHANGED <<unit, populated>>
    BY <1>1 DEF ResetOnlyEmpty
  <1>2. ASSUME NEW a \in Apps, NEW accepted \in BOOLEAN, Execute(a, accepted)
        PROVE  ResetOnlyEmpty'
    BY <1>2 DEF Execute, TypeMachine, ResetOnlyEmpty
  <1>3. ASSUME NEW a \in Apps, Exit(a)
        PROVE  ResetOnlyEmpty'
    BY <1>3 DEF Exit, TypeMachine, ResetOnlyEmpty
  <1>4. ASSUME NEW o \in Owners, Work(o)
        PROVE  ResetOnlyEmpty'
    <2>1. Admit(o) \/ Begin(o) \/ Prepare(o) => UNCHANGED <<unit, populated>>
      BY DEF Admit, Lock, Busy, AdmitPlain, AdmitPreparation, Begin, BeginRefused,
             BeginStart, BeginBuild, BeginPreparation, BeginStop, Prepare,
             StepRefused, StepBlocked, Run, Ran, DrainConfirmed, DrainUnconfirmed,
             manager
    <2>2. Start(o) \/ Halt(o) =>
            unit' \in {unit, Cleared(App(o))} /\ populated' = populated
      BY DEF Start, LaunchRefused, Launch, Started, Rejected, GiveUp, Halt, Stop,
             Confirm, Expire, manager
    <2>3. Start(o) \/ Halt(o) => App(o) \in Apps
      BY WorkTurns, JobOf DEF Control, Working
    <2> QED
      BY <1>1, <1>4, <2>1, <2>2, <2>3, ClearedIsEmpty DEF Work
  <1>5. ASSUME NEW o \in Owners, ExecuteRequest(o)
        PROVE  ResetOnlyEmpty'
    <2>1. App(o) \in Apps
      BY <1>5, JobOf DEF ExecuteRequest, RequestIsAsked, Control
    <2> QED
      BY <1>2, <1>5, <2>1 DEF ExecuteRequest
  <1>6. ASSUME NEW a \in Apps, Service(a)
        PROVE  ResetOnlyEmpty'
    <2>1. CASE ExecuteLate(a)
      BY <1>2, <2>1 DEF ExecuteLate
    <2>2. CASE UnitExits(a) \/ StopJob(a)
      BY <1>1, <1>3, <2>2 DEF UnitExits, StopJob
    <2>3. CASE GroupEmpties(a)
      BY <2>3 DEF GroupEmpties, TypeMachine, ResetOnlyEmpty
    <2> QED
      BY <1>6, <2>1, <2>2, <2>3 DEF Service
  <1>7. ASSUME NEW o \in Owners,
               \/ \E j \in Jobs : Request(o, j)
               \/ GroupEnds(o) \/ Close(o) \/ Shutdown(o) \/ Kill(o)
               \/ ExitIncomplete(o) \/ Open(o)
        PROVE  ResetOnlyEmpty'
    BY <1>1, <1>7 DEF Request, GroupEnds, Close, Shutdown, Kill, ExitIncomplete, Die,
                      Open, manager
  <1>8. CASE OrphanEnds \/ UNCHANGED vars \/ \E a \in Apps : Recover(a)
    BY <1>1, <1>8 DEF OrphanEnds, Recover, vars, manager
  <1> QED
    BY <1>4, <1>5, <1>6, <1>7, <1>8 DEF Next

-----------------------------------------------------------------------------
(* The inductive invariant holds, and what follows from it.                 *)

LEMMA InitIInv == Init => IInv
  <1> SUFFICES ASSUME Init
               PROVE  IInv
    OBVIOUS
  <1>1. TypeControl /\ HasJob /\ LockIsWorked /\ OneHolder /\ HoldsTree
    BY OwnersAssumption
       DEF Init, TypeControl, HasJob, LockIsWorked, OneHolder, HoldsTree, Working
  <1>2. TypeProcess /\ TypeMachine
    BY KillsAssumption DEF Init, TypeProcess, TypeMachine
  <1>3. StepFitsJob /\ StepIsClean /\ GroupsAreLeft /\ RequestIsAsked /\ ResetOnlyEmpty
    BY DEF Init, StepFitsJob, StepIsClean, GroupsAreLeft, RequestIsAsked, ResetOnlyEmpty
  <1> QED
    BY <1>1, <1>2, <1>3 DEF IInv, Control, Cleanup

LEMMA NextIInv == IInv /\ [Next]_vars => IInv'
  <1> SUFFICES ASSUME IInv, [Next]_vars
               PROVE  IInv'
    OBVIOUS
  <1>1. Control'
    BY NextKeepsControl DEF IInv
  <1>2. TypeProcess' /\ TypeMachine'
    BY NextKeepsTypes DEF IInv
  <1>3. Cleanup' /\ RequestIsAsked' /\ ResetOnlyEmpty'
    BY NextKeepsCleanup, NextKeepsAsked, NextKeepsReset DEF IInv
  <1> QED
    BY <1>1, <1>2, <1>3 DEF IInv

LEMMA AlwaysIInv == Spec => []IInv
  BY InitIInv, NextIInv, PTL DEF Spec

\* Every variable of the owners and of the manager stays in its set.
THEOREM TypeCorrect == Spec => []TypeOK
  <1>1. IInv => TypeOK
    BY DEF IInv, Control, TypeControl, TypeProcess, TypeMachine, TypeOK
  <1> QED
    BY <1>1, AlwaysIInv, PTL

\* A retained record (owner-operations.ts) has one holder and is on disk as long
\* as it is held, through any number of kills, shutdowns and recoveries of any
\* number of processes.
THEOREM RecordHasOneHolder == Spec => []OneHolder
  <1>1. IInv => OneHolder
    BY DEF IInv, Control
  <1> QED
    BY <1>1, AlwaysIInv, PTL

\* The coordination lock (application-coordination.ts) is held exactly by the
\* process that works on a request, whatever the request answers and whoever dies.
THEOREM LockIsNeverLeftBehind == Spec => []LockIsWorked
  <1>1. IInv => LockIsWorked
    BY DEF IInv, Control
  <1> QED
    BY <1>1, AlwaysIInv, PTL

\* The runner (systemd-user-runner.ts) resets a failed unit, and so frees its
\* name, only when the unit has no process.
THEOREM ResetsAreEmpty == Spec => []ResetOnlyEmpty
  <1>1. IInv => ResetOnlyEmpty
    BY DEF IInv
  <1> QED
    BY <1>1, AlwaysIInv, PTL

\* A process that launches an application (lifecycle.ts) has seen the end of every
\* process group it started, for this application or another.
THEOREM LaunchIsClean == Spec => []LaunchesAfterCleanup
  <1>1. IInv => LaunchesAfterCleanup
    BY DEF IInv, Cleanup, StepIsClean, GroupsAreLeft, LaunchesAfterCleanup
  <1> QED
    BY <1>1, AlwaysIInv, PTL

-----------------------------------------------------------------------------
(* What a stop answers.                                                     *)

LEMMA SilenceConfirmsNothing ==
  ASSUME answer' = Silence
  PROVE  StopIsConfirmed'
  BY DEF StopIsConfirmed, Silence

LEMMA AnswerConfirms ==
  ASSUME NEW o \in Owners, NEW what \in Outcomes, Answer(o, what),
         what = "done" /\ Is(o, "stop") =>
           unit'[App(o)] = "none" /\ App(o) \notin populated'
  PROVE  StopIsConfirmed'
  BY DEF StopIsConfirmed, Answer, Is, App

LEMMA NextConfirms ==
  ASSUME IInv, StopIsConfirmed, [Next]_vars
  PROVE  StopIsConfirmed'
  <1> USE DEF IInv
  <1>1. ASSUME NEW o \in Owners, NEW s, Go(o, s)
        PROVE  StopIsConfirmed'
    BY <1>1, SilenceConfirmsNothing DEF Go
  <1>2. ASSUME NEW o \in Owners, NEW what \in Outcomes \ {"done"},
               Answer(o, what) \/ End(o, what)
        PROVE  StopIsConfirmed'
    BY <1>2, AnswerConfirms DEF End
  <1>3. ASSUME NEW o \in Owners, End(o, "done"), ~Is(o, "stop")
        PROVE  StopIsConfirmed'
    BY <1>3, AnswerConfirms DEF End, Outcomes
  <1>4. ASSUME NEW o \in Owners, App(o) \in Apps, End(o, "done"),
               unit'[App(o)] = "none", App(o) \notin populated'
        PROVE  StopIsConfirmed'
    BY <1>4, AnswerConfirms DEF End, Outcomes
  <1>5. ASSUME NEW o \in Owners, Admit(o)
        PROVE  StopIsConfirmed'
    BY <1>1, <1>2, <1>5, SilenceConfirmsNothing
       DEF Admit, Lock, Busy, AdmitPlain, AdmitPreparation, Outcomes
  <1>6. ASSUME NEW o \in Owners, Begin(o)
        PROVE  StopIsConfirmed'
    <2>1. CASE BeginRefused(o)
      BY <1>2, <2>1 DEF BeginRefused, Outcomes
    <2>2. CASE BeginStart(o) \/ BeginBuild(o) \/ BeginPreparation(o)
      BY <1>1, <1>2, <2>2 DEF BeginStart, BeginBuild, BeginPreparation, Outcomes
    <2>3. CASE BeginStop(o)
      <3>1. App(o) \in Apps
        BY <2>3, JobOf DEF BeginStop, At, Control
      <3> QED
        BY <1>1, <1>4, <2>3, <3>1 DEF BeginStop, manager, ResetOnlyEmpty
    <2> QED
      BY <1>6, <2>1, <2>2, <2>3 DEF Begin
  <1>7. ASSUME NEW o \in Owners, Prepare(o)
        PROVE  StopIsConfirmed'
    <2>1. ~Is(o, "stop")
      BY <1>7 DEF Prepare, StepRefused, StepBlocked, Run, Ran, DrainConfirmed,
                  DrainUnconfirmed, At, Is, Cleanup, StepFitsJob
    <2> QED
      BY <1>1, <1>2, <1>3, <1>7, <2>1
         DEF Prepare, StepRefused, StepBlocked, Run, Ran, DrainConfirmed,
             DrainUnconfirmed, Outcomes
  <1>8. ASSUME NEW o \in Owners, Start(o)
        PROVE  StopIsConfirmed'
    <2>1. ~Is(o, "stop")
      BY <1>8 DEF Start, LaunchRefused, Launch, Started, Rejected, GiveUp, At, Is,
                  Cleanup, StepFitsJob
    <2> QED
      BY <1>1, <1>2, <1>3, <1>8, <2>1
         DEF Start, LaunchRefused, Launch, Started, Rejected, GiveUp, Outcomes
  <1>9. ASSUME NEW o \in Owners, Halt(o)
        PROVE  StopIsConfirmed'
    <2>1. App(o) \in Apps
      BY <1>9, JobOf DEF Halt, Stop, Confirm, Expire, At, Control
    <2>2. unit'[App(o)] = "none" /\ App(o) \notin populated' /\ Stopped(o)
            => StopIsConfirmed'
      BY <1>1, <1>2, <1>4, <2>1 DEF Stopped, Outcomes
    <2>3. StopIncomplete(o) => StopIsConfirmed'
      BY <1>2 DEF StopIncomplete, Outcomes
    <2>4. CASE Stop(o)
      BY <1>1, <2>1, <2>2, <2>3, <2>4 DEF Stop, ResetOnlyEmpty
    <2>5. CASE Confirm(o)
      BY <2>1, <2>2, <2>5 DEF Confirm, Cleared, TypeMachine
    <2>6. CASE Expire(o)
      BY <2>3, <2>6 DEF Expire
    <2> QED
      BY <1>9, <2>4, <2>5, <2>6 DEF Halt
  <1>10. ASSUME NEW o \in Owners,
                \/ \E j \in Jobs : Request(o, j)
                \/ GroupEnds(o) \/ ExecuteRequest(o) \/ Close(o) \/ Shutdown(o)
                \/ Kill(o) \/ ExitIncomplete(o) \/ Open(o)
         PROVE  StopIsConfirmed'
    BY <1>10, SilenceConfirmsNothing
       DEF Request, GroupEnds, ExecuteRequest, Machine, Close, Shutdown, Kill,
           ExitIncomplete, Die, Open
  <1>11. CASE OrphanEnds \/ \E a \in Apps : Service(a) \/ Recover(a)
    BY <1>11, SilenceConfirmsNothing
       DEF OrphanEnds, Service, ExecuteLate, UnitExits, StopJob, GroupEmpties, Machine,
           Recover
  <1>12. CASE UNCHANGED vars
    BY <1>12 DEF vars, manager, StopIsConfirmed
  <1> QED
    BY <1>5, <1>6, <1>7, <1>8, <1>9, <1>10, <1>11, <1>12 DEF Next, Work

\* A Stop that answers "done" (lifecycle.ts, systemd-user-runner.ts) has seen the
\* unit gone and its control group empty.
THEOREM StopAnswersTruly == Spec => []StopIsConfirmed
  <1>1. Init => StopIsConfirmed
    BY DEF Init, Silence, StopIsConfirmed
  <1> QED
    BY <1>1, NextConfirms, AlwaysIInv, PTL DEF Spec

-----------------------------------------------------------------------------
(* Unfinished trees.  What an explicit preparation may have left unfinished *)
(* is recorded because its owner, if it is alive, still has the preparation *)
(* among those it must confirm, and gives up no record before it does.      *)

DirtyIsLeft == \A o \in Owners : dirty \cap held[o] \subseteq left[o]

ClosedIsClean ==
  \A o \in Owners :
    pc[o] = "begin" /\ job[o].kind = "prepare" /\ closing[o] => left[o] = {}

LeftIsOne == \A o \in Owners : \A a, b \in left[o] : a = b

Recorded == DirtyIsRecorded /\ DirtyIsLeft /\ ClosedIsClean /\ LeftIsOne

LEMMA GoKeepsRecorded ==
  ASSUME IInv, Recorded, NEW o \in Owners, NEW s, Go(o, s),
         s # "begin" \/ ~Is(o, "prepare"), UNCHANGED <<dirty, left, closing>>
  PROVE  Recorded'
  BY DEF IInv, Control, TypeControl, Recorded, DirtyIsRecorded, DirtyIsLeft,
         ClosedIsClean, LeftIsOne, Go, Is

LEMMA AnswerKeepsRecorded ==
  ASSUME IInv, Recorded, NEW o \in Owners, NEW what, Answer(o, what),
         UNCHANGED <<dirty, left, closing, held, record>>
  PROVE  Recorded'
  BY DEF IInv, Control, TypeControl, Recorded, DirtyIsRecorded, DirtyIsLeft,
         ClosedIsClean, LeftIsOne, Answer

\* A preparation gives its record up only when nothing is left to confirm.
LEMMA EndKeepsRecorded ==
  ASSUME IInv, Recorded, NEW o \in Owners, NEW what, End(o, what),
         pc[o] \in Working \ {"locked"},
         Is(o, "prepare") /\ what # "cleanup" => dirty' \cap held[o] = {},
         dirty' \subseteq dirty, left' \in {left, [left EXCEPT ![o] = {}]},
         dirty' \cap held[o] \subseteq left'[o], closing' = closing
  PROVE  Recorded'
  <1>1. pc' = [pc EXCEPT ![o] = "idle"] /\ job' = [job EXCEPT ![o] = NoJob]
    BY DEF End, Answer
  <1>2. LeftIsOne' /\ ClosedIsClean'
    BY <1>1 DEF IInv, Control, TypeControl, TypeProcess, Recorded, LeftIsOne, ClosedIsClean
  <1>3. CASE Is(o, "prepare") /\ what # "cleanup"
    <2>1. /\ held' = [held EXCEPT ![o] = @ \ {App(o)}]
          /\ record' = record \ {App(o)}
      BY <1>3 DEF End
    <2>2. App(o) \in held[o]
      BY <1>3 DEF IInv, Control, HoldsTree, App, Is
    <2>3. DirtyIsRecorded' /\ DirtyIsLeft'
      BY <1>3, <2>1, <2>2
         DEF IInv, Control, TypeControl, TypeProcess, Recorded, DirtyIsRecorded, DirtyIsLeft
    <2> QED
      BY <1>2, <2>3 DEF Recorded
  <1>4. CASE ~(Is(o, "prepare") /\ what # "cleanup")
    <2>1. held' = held /\ record' = record
      BY <1>4 DEF End
    <2>2. DirtyIsRecorded' /\ DirtyIsLeft'
      BY <2>1 DEF IInv, Control, TypeControl, TypeProcess, Recorded, DirtyIsRecorded,
                  DirtyIsLeft
    <2> QED
      BY <1>2, <2>2 DEF Recorded
  <1> QED
    BY <1>3, <1>4

LEMMA AdmitKeepsRecorded ==
  ASSUME IInv, Recorded, NEW o \in Owners, Admit(o)
  PROVE  Recorded'
  <1>1. CASE Lock(o)
    BY <1>1 DEF Lock, trees, IInv, Control, TypeControl, Recorded, DirtyIsRecorded,
                DirtyIsLeft, ClosedIsClean, LeftIsOne
  <1>2. CASE Busy(o)
    BY <1>2, AnswerKeepsRecorded DEF Busy, trees
  <1>3. CASE AdmitPlain(o)
    BY <1>3, AnswerKeepsRecorded, GoKeepsRecorded DEF AdmitPlain
  <1>4. CASE AdmitPreparation(o)
    <2>1. UNCHANGED <<dirty, left, closing>>
      BY <1>4 DEF AdmitPreparation
    <2>2. CASE closing[o] \/ Foreign(o, App(o))
      BY <1>4, <2>1, <2>2, AnswerKeepsRecorded DEF AdmitPreparation
    <2>3. CASE ~closing[o] /\ ~Foreign(o, App(o))
      <3>1. /\ held' = [held EXCEPT ![o] = @ \cup {App(o)}]
            /\ record' = record \cup {App(o)}
            /\ pc' \in {[pc EXCEPT ![o] = s] : s \in {"begin", "idle"}}
            /\ job' \in {job, [job EXCEPT ![o] = NoJob]}
        BY <1>4, <2>3 DEF AdmitPreparation, Answer
      <3>2. DirtyIsRecorded' /\ DirtyIsLeft' /\ LeftIsOne'
        BY <2>1, <2>3, <3>1 DEF IInv, Control, TypeControl, Recorded, DirtyIsRecorded,
           DirtyIsLeft, LeftIsOne, Foreign
      <3>3. ClosedIsClean'
        BY <2>1, <2>3, <3>1 DEF IInv, Control, TypeControl, Recorded, ClosedIsClean, NoJob
      <3> QED
        BY <3>2, <3>3 DEF Recorded
    <2> QED
      BY <2>2, <2>3
  <1> QED
    BY <1>1, <1>2, <1>3, <1>4 DEF Admit

LEMMA BeginKeepsRecorded ==
  ASSUME IInv, Recorded, NEW o \in Owners, Begin(o)
  PROVE  Recorded'
  <1>1. /\ UNCHANGED <<dirty, left, closing>> /\ pc[o] = "begin"
    BY DEF Begin, BeginRefused, BeginStart, BeginBuild, BeginPreparation, BeginStop,
           MayBegin, At
  <1>2. CASE \E s \in {"step", "launch", "stop"} : Go(o, s)
    BY <1>1, <1>2, GoKeepsRecorded
  <1>3. ASSUME NEW what, End(o, what),
               Is(o, "prepare") /\ what # "cleanup" => left[o] = {}
        PROVE  Recorded'
    <2>1. Is(o, "prepare") /\ what # "cleanup" => dirty' \cap held[o] = {}
      BY <1>1, <1>3 DEF Recorded, DirtyIsLeft
    <2>2. dirty' \cap held[o] \subseteq left'[o]
      BY <1>1 DEF Recorded, DirtyIsLeft
    <2> QED
      BY <1>1, <1>3, <2>1, <2>2, EndKeepsRecorded DEF Working
  <1>4. CASE BeginRefused(o)
    <2>1. Is(o, "prepare") /\ closing[o] => left[o] = {}
      BY <1>1 DEF Recorded, ClosedIsClean, Is
    <2> QED
      BY <1>3, <1>4, <2>1 DEF BeginRefused, MayBegin, Is
  <1>5. CASE BeginStart(o)
    BY <1>2, <1>3, <1>5 DEF BeginStart, Is
  <1>6. CASE BeginBuild(o) \/ BeginPreparation(o)
    BY <1>2, <1>3, <1>6 DEF BeginBuild, BeginPreparation, MayBegin
  <1>7. CASE BeginStop(o)
    BY <1>2, <1>3, <1>7 DEF BeginStop, Is
  <1> QED
    BY <1>4, <1>5, <1>6, <1>7 DEF Begin

\* At a step that nothing of the process runs beside, its records are of trees it
\* did not leave unfinished.
LEMMA CleanEndKeepsRecorded ==
  ASSUME IInv, Recorded, NEW o \in Owners, NEW what, End(o, what),
         pc[o] \in Working \ {"locked"},
         Is(o, "prepare") => left[o] = {}, UNCHANGED <<dirty, left, closing>>
  PROVE  Recorded'
  <1>1. dirty' \cap held[o] \subseteq left'[o]
    BY DEF Recorded, DirtyIsLeft
  <1>2. Is(o, "prepare") => dirty' \cap held[o] = {}
    BY <1>1
  <1> QED
    BY <1>1, <1>2, EndKeepsRecorded

LEMMA PrepareKeepsRecorded ==
  ASSUME IInv, Recorded, NEW o \in Owners, Prepare(o)
  PROVE  Recorded'
  <1>1. CASE StepRefused(o) \/ StepBlocked(o)
    <2>1. left[o] = {} /\ pc[o] = "step" /\ UNCHANGED <<dirty, left, closing>>
      BY <1>1 DEF StepRefused, StepBlocked, At, IInv, Cleanup, StepIsClean
    <2> QED
      BY <1>1, <2>1, GoKeepsRecorded, CleanEndKeepsRecorded
         DEF StepRefused, StepBlocked, Working
  <1>2. CASE Run(o)
    <2>1. /\ pc[o] = "step" /\ left[o] = {}
          /\ left' = [left EXCEPT ![o] = @ \cup {App(o)}]
          /\ dirty' = IF Is(o, "prepare") THEN dirty \cup {App(o)} ELSE dirty
          /\ pc' = [pc EXCEPT ![o] = "running"]
          /\ UNCHANGED <<job, held, record, closing>>
      BY <1>2 DEF Run, Go, At, IInv, Cleanup, StepIsClean
    <2>2. Is(o, "prepare") => App(o) \in held[o]
      BY <2>1 DEF IInv, Control, HoldsTree, Is, App, Working
    <2>3. DirtyIsRecorded' /\ DirtyIsLeft'
      BY <2>1, <2>2 DEF IInv, Control, OneHolder, TypeProcess, Recorded,
                        DirtyIsRecorded, DirtyIsLeft
    <2>4. ClosedIsClean' /\ LeftIsOne'
      BY <2>1 DEF IInv, Control, TypeControl, TypeProcess, Recorded, ClosedIsClean,
                  LeftIsOne
    <2> QED
      BY <2>3, <2>4 DEF Recorded
  <1>3. CASE Ran(o)
    BY <1>3, GoKeepsRecorded DEF Ran
  <1>4. CASE DrainConfirmed(o)
    <2>1. /\ pc[o] = "drain" /\ closing' = closing
          /\ left' = [left EXCEPT ![o] = {}]
          /\ dirty' = dirty \ (left[o] \cap held[o])
      BY <1>4 DEF DrainConfirmed, Confirmed, At
    <2>2. dirty' \cap held[o] = {}
      BY <2>1 DEF Recorded, DirtyIsLeft
    <2>3. ASSUME NEW what, End(o, what)
          PROVE  Recorded'
      BY <2>1, <2>2, <2>3, EndKeepsRecorded DEF Working
    <2>4. CASE Go(o, "launch")
      BY <2>1, <2>2, <2>4 DEF Go, IInv, Control, TypeControl, TypeProcess, Recorded,
         DirtyIsRecorded, DirtyIsLeft, ClosedIsClean, LeftIsOne
    <2> QED
      BY <1>4, <2>3, <2>4 DEF DrainConfirmed
  <1>5. CASE DrainUnconfirmed(o)
    <2>1. pc[o] = "drain" /\ closing' = closing /\ End(o, "cleanup")
      BY <1>5 DEF DrainUnconfirmed, At
    <2>2. CASE Confirmed(o)
      <3>1. dirty' \cap held[o] = {}
        BY <2>2 DEF Confirmed, Recorded, DirtyIsLeft
      <3> QED
        BY <2>1, <2>2, <3>1, EndKeepsRecorded DEF Confirmed, Working
    <2>3. CASE UNCHANGED <<left, dirty>>
      <3>1. dirty' \cap held[o] \subseteq left'[o]
        BY <2>3 DEF Recorded, DirtyIsLeft
      <3> QED
        BY <2>1, <2>3, <3>1, EndKeepsRecorded DEF Working
    <2> QED
      BY <1>5, <2>2, <2>3 DEF DrainUnconfirmed
  <1> QED
    BY <1>1, <1>2, <1>3, <1>4, <1>5 DEF Prepare

LEMMA StartKeepsRecorded ==
  ASSUME IInv, Recorded, NEW o \in Owners, Start(o) \/ Halt(o)
  PROVE  Recorded'
  <1>1. UNCHANGED <<dirty, left, closing>>
    BY DEF Start, LaunchRefused, Launch, Started, Rejected, GiveUp, Halt, Stop,
           Confirm, Expire
  <1>2. pc[o] \in {"launch", "asked", "stop", "confirm"}
    BY DEF Start, LaunchRefused, Launch, Started, Rejected, GiveUp, Halt, Stop,
           Confirm, Expire, At
  <1>3. Is(o, "prepare") => left[o] = {}
    BY <1>2 DEF IInv, Cleanup, StepIsClean, Is
  <1>4. \/ \E s \in {"step", "asked", "stop", "confirm"} : Go(o, s)
        \/ \E what : End(o, what)
    BY DEF Start, LaunchRefused, Launch, Started, Rejected, GiveUp, Halt, Stop,
           Confirm, Expire, Stopped, StopIncomplete
  <1> QED
    BY <1>1, <1>2, <1>3, <1>4, GoKeepsRecorded, CleanEndKeepsRecorded DEF Working

LEMMA NextKeepsRecorded ==
  ASSUME IInv, Recorded, ~LateCloses, [Next]_vars
  PROVE  Recorded'
  <1>1. ASSUME NEW o \in Owners, NEW j \in Jobs, Request(o, j)
        PROVE  Recorded'
    BY <1>1 DEF Request, trees, IInv, Control, TypeControl, Recorded, DirtyIsRecorded,
                DirtyIsLeft, ClosedIsClean, LeftIsOne
  <1>2. ASSUME NEW o \in Owners, Work(o)
        PROVE  Recorded'
    BY <1>2, AdmitKeepsRecorded, BeginKeepsRecorded, PrepareKeepsRecorded,
       StartKeepsRecorded DEF Work
  <1>3. CASE UNCHANGED <<pc, job, closing, held, left, record, dirty>>
    BY <1>3 DEF Recorded, DirtyIsRecorded, DirtyIsLeft, ClosedIsClean, LeftIsOne
  <1>4. ASSUME NEW o \in Owners, GroupEnds(o) \/ ExecuteRequest(o)
        PROVE  Recorded'
    BY <1>3, <1>4 DEF GroupEnds, ExecuteRequest, Machine, trees
  <1>5. ASSUME NEW o \in Owners, Close(o)
        PROVE  Recorded'
    <2>1. /\ ~(pc[o] = "begin" /\ job[o].kind = "prepare" /\ left[o] # {})
          /\ closing' = [closing EXCEPT ![o] = TRUE]
          /\ UNCHANGED <<pc, job, held, left, record, dirty>>
      BY <1>5 DEF Close, At, Is, trees
    <2> QED
      BY <2>1 DEF IInv, TypeProcess, Recorded, DirtyIsRecorded, DirtyIsLeft,
                  ClosedIsClean, LeftIsOne
  <1>6. ASSUME NEW o \in Owners, Shutdown(o)
        PROVE  Recorded'
    <2>1. /\ left' = [left EXCEPT ![o] = {}]
          /\ dirty' = dirty \ (left[o] \cap held[o])
          /\ record' = record \ held[o] /\ held' = [held EXCEPT ![o] = {}]
          /\ pc' = [pc EXCEPT ![o] = "down"] /\ job' = [job EXCEPT ![o] = NoJob]
          /\ closing' = [closing EXCEPT ![o] = FALSE]
      BY <1>6 DEF Shutdown, Confirmed
    <2>2. DirtyIsRecorded' /\ DirtyIsLeft'
      BY <2>1 DEF IInv, Control, TypeControl, TypeProcess, Recorded, DirtyIsRecorded,
                  DirtyIsLeft
    <2>3. ClosedIsClean' /\ LeftIsOne'
      BY <2>1 DEF IInv, Control, TypeControl, TypeProcess, Recorded, ClosedIsClean,
                  LeftIsOne
    <2> QED
      BY <2>2, <2>3 DEF Recorded
  <1>7. ASSUME NEW o \in Owners, Kill(o) \/ ExitIncomplete(o)
        PROVE  Recorded'
    <2>1. /\ left' = [left EXCEPT ![o] = {}] /\ held' = [held EXCEPT ![o] = {}]
          /\ pc' = [pc EXCEPT ![o] = "down"] /\ job' = [job EXCEPT ![o] = NoJob]
          /\ closing' = [closing EXCEPT ![o] = FALSE]
          /\ UNCHANGED <<record, dirty>>
      BY <1>7 DEF Kill, ExitIncomplete, Die
    <2> QED
      BY <2>1 DEF IInv, Control, TypeControl, TypeProcess, Recorded, DirtyIsRecorded,
                  DirtyIsLeft, ClosedIsClean, LeftIsOne
  <1>8. ASSUME NEW o \in Owners, Open(o)
        PROVE  Recorded'
    BY <1>8 DEF Open, trees, IInv, Control, TypeControl, Recorded, DirtyIsRecorded,
                DirtyIsLeft, ClosedIsClean, LeftIsOne
  <1>9. ASSUME NEW a \in Apps, Service(a)
        PROVE  Recorded'
    BY <1>3, <1>9 DEF Service, ExecuteLate, UnitExits, StopJob, GroupEmpties, Machine,
                      trees
  <1>10. ASSUME NEW a \in Apps, Recover(a)
         PROVE  Recorded'
    BY <1>10 DEF Recover, Recorded, DirtyIsRecorded, DirtyIsLeft, ClosedIsClean,
                 LeftIsOne
  <1>11. CASE OrphanEnds \/ UNCHANGED vars
    BY <1>3, <1>11 DEF OrphanEnds, vars, trees
  <1> QED
    BY <1>1, <1>2, <1>4, <1>5, <1>6, <1>7, <1>8, <1>9, <1>10, <1>11 DEF Next

LEMMA AlwaysRecorded ==
  ASSUME ~LateCloses
  PROVE  Spec => [](IInv /\ Recorded)
  <1>1. Init => Recorded
    BY DEF Init, Recorded, DirtyIsRecorded, DirtyIsLeft, ClosedIsClean, LeftIsOne
  <1>2. IInv /\ Recorded /\ [Next]_vars => Recorded'
    BY NextKeepsRecorded
  <1> QED
    BY <1>1, <1>2, AlwaysIInv, PTL DEF Spec

\* A tree that a preparation may have left unfinished keeps its record
\* (owner-operations.ts), whoever was killed while it was prepared, as long as no
\* shutdown comes between a preparation's admission and its operation.
THEOREM UnfinishedTreesAreRecorded == ASSUME ~LateCloses PROVE Spec => []DirtyIsRecorded
  <1>1. Recorded => DirtyIsRecorded
    BY DEF Recorded
  <1> QED
    BY <1>1, AlwaysRecorded, PTL

-----------------------------------------------------------------------------
(* Nothing runs beneath a preparation.  Who starts an application under the *)
(* lock has no unfinished preparation of its tree and sees nobody else's;   *)
(* who prepares has seen the Organization idle, and nobody starts anything  *)
(* meanwhile.  A process group that outlives its owner keeps the record.    *)

NotForeign ==
  \A o \in Owners :
    /\ pc[o] \in Working \ {"locked"}
    /\ job[o].kind \in {"start", "build"}
    /\ job[o].app \in record
    => job[o].app \in held[o]

PrepareAlone ==
  \A o \in Owners :
    pc[o] \in {"step", "stop", "confirm"} /\ job[o].kind = "prepare" =>
      \A b \in Apps \ {job[o].app} : unit[b] = "none"

DirtyIsIdle == \A a \in dirty : unit[a] = "none"

GroupsAreHeld ==
  \A o \in Owners, a \in Apps :
    <<a, "prepare">> \in group[o] => a \in dirty /\ a \in held[o]

OrphansAreDirty ==
  \A a \in Apps :
    <<a, "prepare">> \in orphans => a \in dirty /\ \A o \in Owners : a \notin held[o]

Idle == late = {} /\ PrepareAlone /\ DirtyIsIdle
Owned == GroupsAreHeld /\ OrphansAreDirty

LEMMA OneWorks ==
  ASSUME IInv, NEW o \in Owners, NEW p \in Owners, pc[o] \in Working, pc[p] \in Working
  PROVE  o = p
  BY DEF IInv, Control, LockIsWorked

(* The process groups and their records.                                    *)

LEMMA EndKeepsOwned ==
  ASSUME IInv, Owned, NEW o \in Owners, NEW what, End(o, what), orphans' = orphans,
         group' \in {group, [group EXCEPT ![o] = {}]},
         Is(o, "prepare") /\ what # "cleanup" => group'[o] = {},
         \/ dirty' = dirty
         \/ dirty' = dirty \ (left[o] \cap held[o]) /\ group'[o] = {}
  PROVE  Owned'
  <1>1. held' \in {held, [held EXCEPT ![o] = @ \ {App(o)}]}
    BY DEF End
  <1>2. (Is(o, "prepare") /\ what # "cleanup") \/ held' = held
    BY DEF End
  <1>3. GroupsAreHeld'
    BY <1>1, <1>2 DEF IInv, Control, TypeControl, TypeProcess, OneHolder, Owned,
                      GroupsAreHeld
  <1>4. OrphansAreDirty'
    BY <1>1 DEF IInv, Control, TypeControl, Owned, OrphansAreDirty
  <1> QED
    BY <1>3, <1>4 DEF Owned

LEMMA AdmitKeepsOwned ==
  ASSUME IInv, Recorded, Owned, NEW o \in Owners, Admit(o)
  PROVE  Owned'
  <1>1. UNCHANGED <<group, orphans, dirty>>
    BY DEF Admit, Lock, Busy, AdmitPlain, AdmitPreparation, trees
  <1>2. \/ held' = held
        \/ /\ held' = [held EXCEPT ![o] = @ \cup {App(o)}]
           /\ App(o) \in record => App(o) \in held[o]
    BY DEF Admit, Lock, Busy, AdmitPlain, AdmitPreparation, Go, Foreign, trees
  <1> QED
    BY <1>1, <1>2 DEF IInv, Control, TypeControl, Recorded, DirtyIsRecorded, Owned,
       GroupsAreHeld, OrphansAreDirty

\* Moving on, or an answer while nothing of the process runs.
LEMMA QuietKeepsOwned ==
  ASSUME IInv, Owned, NEW o \in Owners, UNCHANGED <<group, orphans, dirty>>,
         \/ \E s : Go(o, s)
         \/ \E what : End(o, what) /\ (Is(o, "prepare") /\ what # "cleanup" => left[o] = {})
  PROVE  Owned'
  <1>1. CASE \E s : Go(o, s)
    BY <1>1 DEF Go, Owned, GroupsAreHeld, OrphansAreDirty
  <1>2. left[o] = {} => group'[o] = {}
    BY DEF IInv, Cleanup, GroupsAreLeft
  <1>3. ASSUME NEW what, End(o, what), Is(o, "prepare") /\ what # "cleanup" => left[o] = {}
        PROVE  Owned'
    BY <1>2, <1>3, EndKeepsOwned
  <1> QED
    BY <1>1, <1>3

LEMMA BeginKeepsOwned ==
  ASSUME IInv, Recorded, Owned, NEW o \in Owners, Begin(o)
  PROVE  Owned'
  <1>1. UNCHANGED <<group, orphans, dirty>> /\ pc[o] = "begin"
    BY DEF Begin, BeginRefused, BeginStart, BeginBuild, BeginPreparation, BeginStop,
           MayBegin, At
  <1>2. CASE BeginRefused(o)
    <2>1. Is(o, "prepare") /\ closing[o] => left[o] = {}
      BY <1>1 DEF Recorded, ClosedIsClean, Is
    <2> QED
      BY <1>1, <1>2, <2>1, QuietKeepsOwned DEF BeginRefused, MayBegin, Is
  <1>3. CASE BeginStart(o) \/ BeginBuild(o) \/ BeginPreparation(o)
    <2>1. left[o] = {}
      BY <1>3 DEF BeginStart, BeginBuild, BeginPreparation, MayBegin
    <2> QED
      BY <1>1, <1>3, <2>1, QuietKeepsOwned DEF BeginStart, BeginBuild, BeginPreparation
  <1>4. CASE BeginStop(o)
    BY <1>1, <1>4, QuietKeepsOwned DEF BeginStop, Is
  <1> QED
    BY <1>2, <1>3, <1>4 DEF Begin

LEMMA PrepareKeepsOwned ==
  ASSUME IInv, Owned, NEW o \in Owners, Prepare(o)
  PROVE  Owned'
  <1>1. CASE StepRefused(o) \/ StepBlocked(o)
    <2>1. left[o] = {} /\ UNCHANGED <<group, orphans, dirty>>
      BY <1>1 DEF StepRefused, StepBlocked, At, IInv, Cleanup, StepIsClean
    <2> QED
      BY <1>1, <2>1, QuietKeepsOwned DEF StepRefused, StepBlocked
  <1>2. CASE Run(o) /\ Is(o, "prepare")
    <2>1. /\ group' = [group EXCEPT ![o] = @ \cup {<<App(o), "prepare">>}]
          /\ dirty' = dirty \cup {App(o)} /\ UNCHANGED <<held, orphans>>
          /\ pc[o] = "step"
      BY <1>2 DEF Run, Go, At
    <2>2. App(o) \in held[o]
      BY <1>2, <2>1 DEF IInv, Control, HoldsTree, App, Is, Working
    <2> QED
      BY <2>1, <2>2 DEF IInv, TypeProcess, Owned, GroupsAreHeld, OrphansAreDirty
  <1>3. CASE Run(o) /\ ~Is(o, "prepare")
    <2>1. /\ group' = [group EXCEPT ![o] = @ \cup {<<App(o), "step">>}]
          /\ UNCHANGED <<dirty, held, orphans>>
      BY <1>3 DEF Run, Go
    <2> QED
      BY <2>1 DEF IInv, TypeProcess, Owned, GroupsAreHeld, OrphansAreDirty
  <1>4. CASE Ran(o)
    BY <1>4, QuietKeepsOwned DEF Ran
  <1>5. CASE DrainConfirmed(o)
    <2>1. /\ group[o] = {} /\ UNCHANGED <<group, orphans>>
          /\ dirty' = dirty \ (left[o] \cap held[o])
      BY <1>5 DEF DrainConfirmed, Confirmed
    <2>2. ASSUME NEW what, End(o, what)
          PROVE  Owned'
      BY <2>1, <2>2, EndKeepsOwned
    <2>3. CASE Go(o, "launch")
      BY <2>1, <2>3 DEF Go, IInv, Control, OneHolder, Owned, GroupsAreHeld,
                        OrphansAreDirty
    <2> QED
      BY <1>5, <2>2, <2>3 DEF DrainConfirmed
  <1>6. CASE DrainUnconfirmed(o)
    <2>1. /\ End(o, "cleanup") /\ orphans' = orphans
          /\ \/ /\ dirty' = dirty \ (left[o] \cap held[o])
                /\ group' = [group EXCEPT ![o] = {}]
             \/ UNCHANGED <<dirty, group>>
      BY <1>6 DEF DrainUnconfirmed, Confirmed
    <2> QED
      BY <2>1, EndKeepsOwned DEF IInv, TypeProcess
  <1> QED
    BY <1>1, <1>2, <1>3, <1>4, <1>5, <1>6 DEF Prepare

LEMMA StartKeepsOwned ==
  ASSUME IInv, Owned, NEW o \in Owners, Start(o) \/ Halt(o)
  PROVE  Owned'
  <1>1. UNCHANGED <<group, orphans, dirty>>
    BY DEF Start, LaunchRefused, Launch, Started, Rejected, GiveUp, Halt, Stop,
           Confirm, Expire
  <1>2. pc[o] \in {"launch", "asked", "stop", "confirm"}
    BY DEF Start, LaunchRefused, Launch, Started, Rejected, GiveUp, Halt, Stop,
           Confirm, Expire, At
  <1>3. Is(o, "prepare") => left[o] = {}
    BY <1>2 DEF IInv, Cleanup, StepIsClean, Is
  <1>4. (\E s : Go(o, s)) \/ \E what : End(o, what)
    BY DEF Start, LaunchRefused, Launch, Started, Rejected, GiveUp, Halt, Stop,
           Confirm, Expire, Stopped, StopIncomplete
  <1> QED
    BY <1>1, <1>3, <1>4, QuietKeepsOwned

LEMMA NextKeepsOwned ==
  ASSUME IInv, Recorded, Owned, [Next]_vars
  PROVE  Owned'
  <1> USE DEF Owned, GroupsAreHeld, OrphansAreDirty
  <1>1. ASSUME NEW o \in Owners, Work(o)
        PROVE  Owned'
    BY <1>1, AdmitKeepsOwned, BeginKeepsOwned, PrepareKeepsOwned, StartKeepsOwned
       DEF Work
  <1>2. CASE UNCHANGED <<held, group, orphans, dirty>>
    BY <1>2
  <1>3. ASSUME NEW o \in Owners,
               \/ \E j \in Jobs : Request(o, j)
               \/ ExecuteRequest(o) \/ Close(o) \/ Open(o)
        PROVE  Owned'
    BY <1>2, <1>3 DEF Request, ExecuteRequest, Machine, Close, Open, trees
  <1>4. ASSUME NEW o \in Owners, GroupEnds(o)
        PROVE  Owned'
    BY <1>4 DEF GroupEnds, trees, IInv, TypeProcess
  <1>5. ASSUME NEW o \in Owners, Shutdown(o)
        PROVE  Owned'
    <2>1. /\ group[o] = {} /\ UNCHANGED <<group, orphans>>
          /\ dirty' = dirty \ (left[o] \cap held[o])
          /\ held' = [held EXCEPT ![o] = {}]
      BY <1>5 DEF Shutdown, Confirmed
    <2> QED
      BY <2>1 DEF IInv, Control, TypeControl, OneHolder
  <1>6. ASSUME NEW o \in Owners, Kill(o) \/ ExitIncomplete(o)
        PROVE  Owned'
    <2>1. /\ orphans' = orphans \cup group[o] /\ group' = [group EXCEPT ![o] = {}]
          /\ held' = [held EXCEPT ![o] = {}] /\ dirty' = dirty
      BY <1>6 DEF Kill, ExitIncomplete, Die
    <2> QED
      BY <2>1 DEF IInv, Control, TypeControl, TypeProcess, OneHolder
  <1>7. ASSUME NEW a \in Apps, Service(a)
        PROVE  Owned'
    BY <1>2, <1>7 DEF Service, ExecuteLate, UnitExits, StopJob, GroupEmpties, Machine,
                      trees
  <1>8. ASSUME NEW a \in Apps, Recover(a)
        PROVE  Owned'
    <2>1. /\ \A o \in Owners : a \notin held[o]
          /\ <<a, "prepare">> \notin orphans
          /\ dirty' = dirty \ {a} /\ UNCHANGED <<held, group, orphans>>
      BY <1>8 DEF Recover, On
    <2> QED
      BY <2>1
  <1>9. CASE OrphanEnds
    BY <1>9 DEF OrphanEnds
  <1>10. CASE UNCHANGED vars
    BY <1>2, <1>10 DEF vars, trees
  <1> QED
    BY <1>1, <1>3, <1>4, <1>5, <1>6, <1>7, <1>8, <1>9, <1>10 DEF Next

(* Records of others.                                                       *)

LEMMA NextKeepsNotForeign ==
  ASSUME IInv, NotForeign, [Next]_vars
  PROVE  NotForeign'
  <1>1. ASSUME NEW o \in Owners, UNCHANGED <<held, record>>,
               \E s \in {"idle", "queued", "locked"} : pc' = [pc EXCEPT ![o] = s],
               \E j : job' = [job EXCEPT ![o] = j]
        PROVE  NotForeign'
    BY <1>1 DEF IInv, Control, TypeControl, NotForeign, Working
  <1>2. ASSUME NEW o \in Owners, pc[o] \in Working, pc' = [pc EXCEPT ![o] = "idle"]
        PROVE  NotForeign'
    <2>1. \A p \in Owners : pc'[p] \notin Working
      BY <1>2, OneWorks DEF IInv, Control, TypeControl, Working
    <2> QED
      BY <2>1 DEF NotForeign
  <1>3. ASSUME NEW o \in Owners, pc[o] \in Working, NEW s, pc' = [pc EXCEPT ![o] = s],
               job' = job, UNCHANGED <<held, record>>,
               \/ pc[o] # "locked"
               \/ job[o].kind \in {"start", "build"} => ~Foreign(o, App(o))
        PROVE  NotForeign'
    BY <1>3 DEF IInv, Control, TypeControl, NotForeign, Foreign, App
  <1>4. ASSUME NEW o \in Owners, Admit(o)
        PROVE  NotForeign'
    <2>1. CASE Lock(o)
      <3>1. UNCHANGED <<held, record, job>> /\ pc' = [pc EXCEPT ![o] = "locked"]
        BY <2>1 DEF Lock, trees
      <3>2. job' = [job EXCEPT ![o] = job[o]]
        BY <3>1 DEF IInv, Control, TypeControl
      <3> QED
        BY <1>1, <3>1, <3>2
    <2>2. CASE Busy(o)
      BY <1>1, <2>2 DEF Busy, Answer, trees
    <2>3. CASE AdmitPlain(o)
      <3>1. pc[o] = "locked"
        BY <2>3 DEF AdmitPlain, At
      <3>2. CASE Answer(o, "recovery")
        BY <1>2, <3>1, <3>2 DEF Answer, Working
      <3>3. CASE Go(o, "begin") /\ (Is(o, "stop") \/ ~Foreign(o, App(o)))
        BY <1>3, <3>1, <3>3 DEF Go, Is, Working
      <3> QED
        BY <2>3, <3>2, <3>3 DEF AdmitPlain
    <2>4. CASE AdmitPreparation(o)
      <3>1. pc[o] = "locked" /\ job[o].kind = "prepare"
        BY <2>4 DEF AdmitPreparation, At, Is
      <3>2. CASE \E what : Answer(o, what)
        BY <1>2, <3>1, <3>2 DEF Answer, Working
      <3>3. CASE pc' = [pc EXCEPT ![o] = "begin"] /\ job' = job
        <4>1. \A p \in Owners : pc'[p] \in Working => p = o
          BY <3>1, <3>3, OneWorks DEF IInv, Control, TypeControl, Working
        <4> QED
          BY <3>1, <3>3, <4>1 DEF NotForeign
      <3> QED
        BY <2>4, <3>2, <3>3 DEF AdmitPreparation
    <2> QED
      BY <1>4, <2>1, <2>2, <2>3, <2>4 DEF Admit
  <1>5. ASSUME NEW o \in Owners, Begin(o) \/ Prepare(o) \/ Start(o) \/ Halt(o)
        PROVE  NotForeign'
    BY <1>2, <1>3, <1>5, WorkTurns DEF Turned, Go, End, Answer
  <1>6. ASSUME NEW o \in Owners, NEW j \in Jobs, Request(o, j)
        PROVE  NotForeign'
    BY <1>1, <1>6 DEF Request, trees
  <1>7. ASSUME NEW o \in Owners, Shutdown(o) \/ Kill(o) \/ ExitIncomplete(o)
        PROVE  NotForeign'
    <2>1. /\ pc' = [pc EXCEPT ![o] = "down"] /\ job' = [job EXCEPT ![o] = NoJob]
          /\ held' = [held EXCEPT ![o] = {}] /\ record' \subseteq record
      BY <1>7 DEF Shutdown, Kill, ExitIncomplete, Die
    <2> QED
      BY <2>1 DEF IInv, Control, TypeControl, NotForeign, Working
  <1>8. ASSUME NEW o \in Owners, Open(o)
        PROVE  NotForeign'
    <2>1. pc' = [pc EXCEPT ![o] = "idle"] /\ UNCHANGED <<job, held, record>>
      BY <1>8 DEF Open, trees
    <2> QED
      BY <2>1 DEF IInv, Control, TypeControl, NotForeign, Working
  <1>9. CASE UNCHANGED <<pc, job, held>> /\ record' \subseteq record
    BY <1>9 DEF NotForeign
  <1>10. ASSUME NEW o \in Owners, GroupEnds(o) \/ ExecuteRequest(o) \/ Close(o)
         PROVE  NotForeign'
    BY <1>9, <1>10 DEF GroupEnds, ExecuteRequest, Machine, Close, trees
  <1>11. ASSUME NEW a \in Apps, Service(a) \/ Recover(a)
         PROVE  NotForeign'
    BY <1>9, <1>11 DEF Service, ExecuteLate, UnitExits, StopJob, GroupEmpties, Machine,
                       Recover, trees
  <1>12. CASE OrphanEnds \/ UNCHANGED vars
    BY <1>9, <1>12 DEF OrphanEnds, vars, trees
  <1> QED
    BY <1>4, <1>5, <1>6, <1>7, <1>8, <1>10, <1>11, <1>12 DEF Next, Work

(* The units.                                                               *)

\* Between the look at the Organization and the answer of a start, the tree has no
\* unfinished preparation.
LEMMA StartsOnSettledTree ==
  ASSUME IInv, Recorded, NotForeign, NEW o \in Owners, pc[o] \in {"launch", "asked"}
  PROVE  App(o) \notin dirty
  <1>1. job[o].kind = "start" /\ left[o] = {}
    BY DEF IInv, Cleanup, StepFitsJob, StepIsClean
  <1>2. App(o) \in record => App(o) \in held[o]
    BY <1>1 DEF NotForeign, App, Working
  <1> QED
    BY <1>1, <1>2 DEF Recorded, DirtyIsRecorded, DirtyIsLeft

\* A step of one process, as far as the units and the unfinished trees go.
OthersStay(o) == \A p \in Owners \ {o} : pc'[p] = pc[p] /\ job'[p] = job[p]

StaysAlone(o) ==
  pc'[o] \in {"step", "stop", "confirm"} /\ job'[o].kind = "prepare" =>
    \A b \in Apps \ {job'[o].app} : unit[b] = "none"

UnitsStay == \A b \in Apps : unit[b] = "none" => unit'[b] = "none"

LEMMA MoveKeepsIdle ==
  ASSUME IInv, Idle, NEW o \in Owners, OthersStay(o), StaysAlone(o), UnitsStay,
         \A a \in dirty' : a \in dirty \/ (a \in Apps /\ unit[a] = "none"),
         late' = late
  PROVE  Idle'
  <1>1. DirtyIsIdle'
    BY DEF IInv, TypeMachine, Idle, DirtyIsIdle, UnitsStay
  <1>2. PrepareAlone'
    BY DEF Idle, PrepareAlone, OthersStay, StaysAlone, UnitsStay
  <1> QED
    BY <1>1, <1>2 DEF Idle

LEMMA PcMoves ==
  ASSUME IInv, NEW o \in Owners, NEW s, pc' = [pc EXCEPT ![o] = s],
         \E j : job' = [job EXCEPT ![o] = j]
  PROVE  pc'[o] = s /\ OthersStay(o)
  BY DEF IInv, Control, TypeControl, OthersStay

LEMMA GoMoves ==
  ASSUME IInv, NEW o \in Owners, NEW s, Go(o, s)
  PROVE  pc'[o] = s /\ job' = job /\ OthersStay(o)
  BY DEF IInv, Control, TypeControl, OthersStay, Go

LEMMA AnswerMoves ==
  ASSUME IInv, NEW o \in Owners, NEW what, Answer(o, what) \/ End(o, what)
  PROVE  pc'[o] = "idle" /\ OthersStay(o)
  BY DEF IInv, Control, TypeControl, OthersStay, Answer, End

LEMMA WorkKeepsIdle ==
  ASSUME IInv, Idle, NEW o \in Owners, Work(o)
  PROVE  Idle'
  <1>1. CASE Admit(o)
    <2>1. UNCHANGED <<dirty, late>> /\ UnitsStay
      BY <1>1 DEF Admit, Lock, Busy, AdmitPlain, AdmitPreparation, trees, manager,
                  UnitsStay
    <2>2. pc'[o] \in {"idle", "locked", "begin"} /\ OthersStay(o)
      <3>1. CASE Lock(o)
        BY <3>1 DEF Lock, IInv, Control, TypeControl, OthersStay
      <3>2. CASE Busy(o) \/ AdmitPlain(o)
        BY <3>2, GoMoves, AnswerMoves DEF Busy, AdmitPlain
      <3>3. CASE AdmitPreparation(o)
        <4>1. CASE pc' = [pc EXCEPT ![o] = "begin"] /\ job' = job
          BY <4>1 DEF IInv, Control, TypeControl, OthersStay
        <4> QED
          BY <3>3, <4>1, AnswerMoves DEF AdmitPreparation
      <3> QED
        BY <1>1, <3>1, <3>2, <3>3 DEF Admit
    <2>3. StaysAlone(o)
      BY <2>2 DEF StaysAlone
    <2> QED
      BY <2>1, <2>2, <2>3, MoveKeepsIdle
  <1>2. Turned(o) => OthersStay(o)
    BY GoMoves, AnswerMoves DEF Turned
  <1>3. ASSUME NEW what, End(o, what)
        PROVE  StaysAlone(o)
    BY <1>3, AnswerMoves DEF StaysAlone
  <1>4. ASSUME NEW s, Go(o, s),
               \/ s \notin {"step", "stop", "confirm"} \/ job[o].kind # "prepare"
               \/ \A b \in Apps \ {job[o].app} : unit[b] = "none"
        PROVE  StaysAlone(o)
    BY <1>4, GoMoves DEF StaysAlone
  <1>5. CASE Begin(o)
    <2>1. UNCHANGED <<dirty, late>> /\ UnitsStay
      BY <1>5 DEF Begin, BeginRefused, BeginStart, BeginBuild, BeginPreparation,
                  BeginStop, manager, UnitsStay
    <2>2. StaysAlone(o)
      BY <1>3, <1>4, <1>5
         DEF Begin, BeginRefused, BeginStart, BeginBuild, BeginPreparation, BeginStop,
             Is, App
    <2> QED
      BY <1>2, <1>5, <2>1, <2>2, WorkTurns, MoveKeepsIdle
  <1>6. CASE Prepare(o)
    <2>1. late' = late /\ UnitsStay
      BY <1>6 DEF Prepare, StepRefused, StepBlocked, Run, Ran, DrainConfirmed,
                  DrainUnconfirmed, manager, UnitsStay
    <2>2. StaysAlone(o)
      <3>1. CASE StepBlocked(o)
        <4>1. \A b \in Apps \ {job[o].app} : unit[b] = "none"
          BY <3>1 DEF StepBlocked, At, Is, Idle, PrepareAlone
        <4> QED
          BY <1>3, <1>4, <3>1, <4>1 DEF StepBlocked
      <3> QED
        BY <1>3, <1>4, <1>6, <3>1
           DEF Prepare, StepRefused, Run, Ran, DrainConfirmed, DrainUnconfirmed
    <2>3. \A a \in dirty' : a \in dirty \/ (a \in Apps /\ unit[a] = "none")
      <3>1. CASE Run(o)
        BY <3>1, JobOf DEF Run, At, IInv, Control
      <3>2. CASE dirty' \subseteq dirty
        BY <3>2
      <3> QED
        BY <1>6, <3>1, <3>2 DEF Prepare, StepRefused, StepBlocked, Ran, DrainConfirmed,
                                DrainUnconfirmed, Confirmed
    <2> QED
      BY <1>2, <1>6, <2>1, <2>2, <2>3, WorkTurns, MoveKeepsIdle
  <1>7. CASE Start(o) \/ Halt(o)
    <2>1. UNCHANGED <<dirty, late>> /\ unit' \in {unit, Cleared(App(o))}
      BY <1>7 DEF Start, LaunchRefused, Launch, Started, Rejected, GiveUp, Halt, Stop,
                  Confirm, Expire, manager
    <2>2. UnitsStay
      BY <2>1 DEF Cleared, UnitsStay, IInv, TypeMachine
    <2>3. \/ job[o].kind # "prepare"
          \/ \A b \in Apps \ {job[o].app} : unit[b] = "none"
      BY <1>7 DEF Start, LaunchRefused, Launch, Started, Rejected, GiveUp, Halt, Stop,
                  Confirm, Expire, At, Idle, PrepareAlone, IInv, Cleanup, StepFitsJob
    <2>4. StaysAlone(o)
      BY <1>3, <1>4, <1>7, <2>3, WorkTurns DEF Turned
    <2> QED
      BY <1>2, <1>7, <2>1, <2>2, <2>4, WorkTurns, MoveKeepsIdle
  <1> QED
    BY <1>1, <1>5, <1>6, <1>7 DEF Work

LEMMA NextKeepsIdle ==
  ASSUME IInv, Recorded, NotForeign, Idle, ~LateRequests, [Next]_vars
  PROVE  Idle'
  <1>1. ASSUME NEW o \in Owners, Work(o)
        PROVE  Idle'
    BY <1>1, WorkKeepsIdle
  <1>2. ASSUME NEW o \in Owners, UNCHANGED unit, late' = late, dirty' \subseteq dirty,
               NEW s \in {"idle", "queued", "down"}, pc' = [pc EXCEPT ![o] = s],
               \E j : job' = [job EXCEPT ![o] = j]
        PROVE  Idle'
    <2>1. OthersStay(o) /\ StaysAlone(o) /\ UnitsStay
      BY <1>2, PcMoves DEF StaysAlone, UnitsStay
    <2> QED
      BY <1>2, <2>1, MoveKeepsIdle
  <1>3. ASSUME NEW o \in Owners, NEW j \in Jobs, Request(o, j)
        PROVE  Idle'
    <2>1. /\ UNCHANGED <<unit, late, dirty>> /\ pc' = [pc EXCEPT ![o] = "queued"]
          /\ job' = [job EXCEPT ![o] = j]
      BY <1>3 DEF Request, trees, manager
    <2> QED
      BY <1>2, <2>1
  <1>4. ASSUME NEW o \in Owners, Shutdown(o) \/ Kill(o) \/ ExitIncomplete(o)
        PROVE  Idle'
    <2>1. /\ UNCHANGED <<unit, late>> /\ dirty' \subseteq dirty
          /\ pc' = [pc EXCEPT ![o] = "down"] /\ job' = [job EXCEPT ![o] = NoJob]
      BY <1>4 DEF Shutdown, Confirmed, Kill, ExitIncomplete, Die, manager
    <2> QED
      BY <1>2, <2>1
  <1>5. ASSUME NEW o \in Owners, Open(o)
        PROVE  Idle'
    <2>1. /\ UNCHANGED <<unit, late, dirty, job>> /\ pc' = [pc EXCEPT ![o] = "idle"]
      BY <1>5 DEF Open, trees, manager
    <2>2. job' = [job EXCEPT ![o] = job[o]]
      BY <2>1 DEF IInv, Control, TypeControl
    <2> QED
      BY <1>2, <2>1, <2>2
  <1>6. CASE /\ UNCHANGED <<pc, job>> /\ dirty' \subseteq dirty /\ late' = {}
             /\ \A b \in Apps : unit[b] = "none" => unit'[b] = "none"
    <2>1. DirtyIsIdle'
      BY <1>6 DEF IInv, TypeMachine, Idle, DirtyIsIdle
    <2>2. PrepareAlone'
      BY <1>6 DEF Idle, PrepareAlone
    <2> QED
      BY <1>6, <2>1, <2>2 DEF Idle
  <1>7. ASSUME NEW o \in Owners, GroupEnds(o) \/ Close(o)
        PROVE  Idle'
    BY <1>6, <1>7 DEF GroupEnds, Close, trees, manager, Idle
  <1>8. ASSUME NEW o \in Owners, ExecuteRequest(o)
        PROVE  Idle'
    <2>1. /\ pc[o] = "asked" /\ App(o) \in Apps /\ App(o) \notin dirty
      BY <1>8, JobOf, StartsOnSettledTree
         DEF ExecuteRequest, IInv, Control, RequestIsAsked
    <2>2. /\ UNCHANGED <<pc, job, dirty, late>>
          /\ \A b \in Apps \ {App(o)} : unit'[b] = unit[b]
      BY <1>8 DEF ExecuteRequest, Execute, Machine, trees, IInv, TypeMachine
    <2>3. DirtyIsIdle'
      BY <2>1, <2>2 DEF IInv, TypeMachine, Idle, DirtyIsIdle
    <2>4. \A p \in Owners : pc[p] \notin {"step", "stop", "confirm"}
      BY <2>1, OneWorks DEF Working
    <2>5. PrepareAlone'
      BY <2>2, <2>4 DEF PrepareAlone
    <2> QED
      BY <2>2, <2>3, <2>5 DEF Idle
  <1>9. ASSUME NEW a \in Apps, Service(a)
        PROVE  Idle'
    <2>1. ~ExecuteLate(a)
      BY DEF ExecuteLate, Idle
    <2>2. /\ UNCHANGED <<pc, job, dirty, late>>
          /\ \A b \in Apps : unit[b] = "none" => unit'[b] = "none"
      BY <1>9, <2>1 DEF Service, UnitExits, StopJob, GroupEmpties, Exit, Machine, trees,
                        IInv, TypeMachine
    <2> QED
      BY <1>6, <2>2 DEF Idle
  <1>10. ASSUME NEW a \in Apps, Recover(a)
         PROVE  Idle'
    BY <1>6, <1>10 DEF Recover, manager, Idle
  <1>11. CASE OrphanEnds \/ UNCHANGED vars
    BY <1>6, <1>11 DEF OrphanEnds, vars, trees, manager, Idle
  <1> QED
    BY <1>1, <1>2, <1>3, <1>4, <1>5, <1>7, <1>8, <1>9, <1>10, <1>11 DEF Next

LEMMA AlwaysKept ==
  ASSUME ~LateCloses, ~LateRequests
  PROVE  Spec => [](IInv /\ Recorded /\ Owned /\ NotForeign /\ Idle)
  <1>1. Init => Owned /\ NotForeign /\ Idle
    BY DEF Init, Owned, GroupsAreHeld, OrphansAreDirty, NotForeign, Idle, PrepareAlone,
           DirtyIsIdle, Working
  <1>2. IInv /\ Recorded /\ Owned /\ NotForeign /\ Idle /\ [Next]_vars =>
          Owned' /\ NotForeign' /\ Idle'
    BY NextKeepsOwned, NextKeepsNotForeign, NextKeepsIdle
  <1> QED
    BY <1>1, <1>2, AlwaysRecorded, PTL DEF Spec

-----------------------------------------------------------------------------
(* What the Organization is promised.                                       *)

\* Two writers of one tree's dependencies, or a writer beneath a running
\* application, do not exist (lifecycle.ts, owner-operations.ts), unless a start
\* request outlives its process or a shutdown comes between a preparation's
\* admission and its operation.
THEOREM PreparationsRunAlone ==
  ASSUME ~LateCloses, ~LateRequests PROVE Spec => []NothingRunsBeneath
  <1>1. ASSUME IInv, Recorded, Owned, Idle
        PROVE  NothingRunsBeneath
    <2> SUFFICES ASSUME NEW a \in Apps, <<a, "prepare">> \in Writers
                 PROVE  /\ a \notin Running
                        /\ Cardinality({o \in Owners : <<a, "prepare">> \in group[o]})
                             = IF <<a, "prepare">> \in orphans THEN 0 ELSE 1
      BY DEF NothingRunsBeneath
    <2>1. a \in dirty
      BY <1>1 DEF Writers, Owned, GroupsAreHeld, OrphansAreDirty
    <2>2. a \notin Running
      BY <1>1, <2>1 DEF Idle, DirtyIsIdle, IInv, ResetOnlyEmpty, Running
    <2>3. CASE <<a, "prepare">> \in orphans
      <3>1. {o \in Owners : <<a, "prepare">> \in group[o]} = {}
        BY <1>1, <2>3 DEF Owned, GroupsAreHeld, OrphansAreDirty
      <3> QED
        BY <2>2, <2>3, <3>1, FS_EmptySet
    <2>4. CASE <<a, "prepare">> \notin orphans
      <3>1. PICK o \in Owners : <<a, "prepare">> \in group[o]
        BY <2>4 DEF Writers
      <3>2. {p \in Owners : <<a, "prepare">> \in group[p]} = {o}
        BY <1>1, <3>1 DEF Owned, GroupsAreHeld, IInv, Control, OneHolder
      <3> QED
        BY <2>2, <2>4, <3>2, FS_Singleton
    <2> QED
      BY <2>3, <2>4
  <1> QED
    BY <1>1, AlwaysKept, PTL

(* Every step is one of DependencyTrees, or none for whoever only sees the  *)
(* running applications and the unfinished trees.                           *)

\* Resetting an empty failed unit is invisible.
LEMMA ResetIsInvisible ==
  ASSUME IInv, NEW a \in Apps, unit' \in {unit, Cleared(a)}, populated' = populated
  PROVE  Running' = Running
  BY DEF IInv, TypeMachine, Cleared, Running

\* A process confirms at most one tree at a time.
LEMMA ConfirmedSettles ==
  ASSUME Recorded, NEW o \in Owners, left[o] \subseteq Apps, Running' = Running,
         dirty' = dirty \/ dirty' = dirty \ (left[o] \cap held[o])
  PROVE  [Trees!Next]_<<Running, dirty>>
  <1>1. CASE dirty' = dirty
    BY <1>1
  <1>2. CASE dirty' # dirty
    <2>1. PICK a \in left[o] \cap held[o] : TRUE
      BY <1>2
    <2>2. left[o] \cap held[o] = {a}
      BY <2>1 DEF Recorded, LeftIsOne
    <2>3. Trees!Settle(a)
      BY <1>2, <2>2 DEF Trees!Settle
    <2> QED
      BY <2>1, <2>3 DEF Trees!Next
  <1> QED
    BY <1>1, <1>2

LEMMA RunChanges ==
  ASSUME IInv, Recorded, Idle, NEW o \in Owners, Run(o)
  PROVE  [Trees!Next]_<<Running, dirty>>
  <1>1. pc[o] = "step" /\ App(o) \in Apps /\ UNCHANGED <<unit, populated>>
    BY JobOf DEF Run, At, IInv, Control, manager
  <1>2. Running' = Running
    BY <1>1 DEF Running
  <1>3. CASE ~Is(o, "prepare")
    BY <1>2, <1>3 DEF Run
  <1>4. CASE Is(o, "prepare")
    <2>1. \A b \in Apps : unit[b] = "none"
      BY <1>1, <1>4 DEF Run, Is, App, Idle, PrepareAlone
    <2>2. Running = {}
      BY <2>1 DEF Running, IInv, ResetOnlyEmpty
    <2>3. dirty' = dirty \cup {App(o)}
      BY <1>4 DEF Run
    <2> QED
      BY <1>1, <1>2, <2>2, <2>3 DEF Trees!Next, Trees!Change
  <1> QED
    BY <1>3, <1>4

LEMMA WorkKeepsTrees ==
  ASSUME IInv, Recorded, Idle, NEW o \in Owners, Work(o)
  PROVE  [Trees!Next]_<<Running, dirty>>
  <1>1. CASE UNCHANGED <<unit, populated, dirty>>
    BY <1>1 DEF Running
  <1>2. CASE Admit(o)
    BY <1>1, <1>2 DEF Admit, Lock, Busy, AdmitPlain, AdmitPreparation, trees, manager
  <1>3. CASE Begin(o)
    BY <1>1, <1>3 DEF Begin, BeginRefused, BeginStart, BeginBuild, BeginPreparation,
                      BeginStop, manager
  <1>4. CASE Prepare(o)
    <2>1. CASE StepRefused(o) \/ StepBlocked(o) \/ Ran(o)
      BY <1>1, <2>1 DEF StepRefused, StepBlocked, Ran, manager
    <2>2. CASE DrainConfirmed(o) \/ DrainUnconfirmed(o)
      <3>1. Running' = Running
        BY <2>2 DEF DrainConfirmed, DrainUnconfirmed, manager, Running
      <3>2. dirty' = dirty \/ dirty' = dirty \ (left[o] \cap held[o])
        BY <2>2 DEF DrainConfirmed, DrainUnconfirmed, Confirmed
      <3>3. left[o] \subseteq Apps
        BY DEF IInv, TypeProcess
      <3> QED
        BY <3>1, <3>2, <3>3, ConfirmedSettles
    <2> QED
      BY <1>4, <2>1, <2>2, RunChanges DEF Prepare
  <1>5. CASE Start(o) \/ Halt(o)
    <2>1. /\ UNCHANGED <<dirty, populated>> /\ unit' \in {unit, Cleared(App(o))}
      BY <1>5 DEF Start, LaunchRefused, Launch, Started, Rejected, GiveUp, Halt, Stop,
                  Confirm, Expire, manager
    <2>2. App(o) \in Apps
      BY <1>5, WorkTurns, JobOf DEF IInv, Control, Working
    <2> QED
      BY <2>1, <2>2, ResetIsInvisible
  <1> QED
    BY <1>2, <1>3, <1>4, <1>5 DEF Work

LEMMA ExecuteLaunches ==
  ASSUME IInv, NEW a \in Apps, a \notin dirty, NEW accepted \in BOOLEAN,
         Execute(a, accepted), dirty' = dirty
  PROVE  [Trees!Next]_<<Running, dirty>>
  <1>1. CASE accepted
    <2>1. Running' = Running \cup {a}
      BY <1>1 DEF Execute, Running, IInv, TypeMachine
    <2> QED
      BY <2>1 DEF Trees!Next, Trees!Launch
  <1>2. CASE ~accepted
    <2>1. Running' = Running
      BY <1>2 DEF Execute, Running, IInv, TypeMachine
    <2> QED
      BY <2>1
  <1> QED
    BY <1>1, <1>2

LEMMA ExitLeaves ==
  ASSUME IInv, NEW a \in Apps, dirty' = dirty,
         \/ Exit(a)
         \/ UNCHANGED <<unit, populated>>
         \/ GroupEmpties(a)
  PROVE  [Trees!Next]_<<Running, dirty>>
  <1>1. Running' \in {Running, Running \ {a}}
    BY DEF Exit, GroupEmpties, Running, IInv, TypeMachine
  <1> QED
    BY <1>1 DEF Trees!Next, Trees!Leave

LEMMA NextKeepsTrees ==
  ASSUME IInv, Recorded, NotForeign, Idle, [Next]_vars
  PROVE  [Trees!Next]_<<Running, dirty>>
  <1>1. ASSUME NEW o \in Owners, Work(o)
        PROVE  [Trees!Next]_<<Running, dirty>>
    BY <1>1, WorkKeepsTrees
  <1>2. CASE UNCHANGED <<unit, populated, dirty>>
    BY <1>2 DEF Running
  <1>3. ASSUME NEW o \in Owners,
               \/ \E j \in Jobs : Request(o, j)
               \/ GroupEnds(o) \/ Close(o) \/ Kill(o) \/ ExitIncomplete(o) \/ Open(o)
        PROVE  [Trees!Next]_<<Running, dirty>>
    BY <1>2, <1>3 DEF Request, GroupEnds, Close, Kill, ExitIncomplete, Die, Open, trees,
                      manager
  <1>4. ASSUME NEW o \in Owners, ExecuteRequest(o)
        PROVE  [Trees!Next]_<<Running, dirty>>
    <2>1. App(o) \in Apps /\ App(o) \notin dirty
      BY <1>4, JobOf, StartsOnSettledTree
         DEF ExecuteRequest, IInv, Control, RequestIsAsked
    <2> QED
      BY <1>4, <2>1, ExecuteLaunches DEF ExecuteRequest, Machine, trees
  <1>5. ASSUME NEW o \in Owners, Shutdown(o)
        PROVE  [Trees!Next]_<<Running, dirty>>
    <2>1. Running' = Running /\ dirty' = dirty \ (left[o] \cap held[o])
      BY <1>5 DEF Shutdown, Confirmed, manager, Running
    <2>2. left[o] \subseteq Apps
      BY DEF IInv, TypeProcess
    <2> QED
      BY <2>1, <2>2, ConfirmedSettles
  <1>6. ASSUME NEW a \in Apps, Service(a)
        PROVE  [Trees!Next]_<<Running, dirty>>
    <2>1. ~ExecuteLate(a)
      BY DEF ExecuteLate, Idle
    <2> QED
      BY <1>6, <2>1, ExitLeaves DEF Service, UnitExits, StopJob, GroupEmpties, Machine,
                                    trees
  <1>7. ASSUME NEW a \in Apps, Recover(a)
        PROVE  [Trees!Next]_<<Running, dirty>>
    <2>1. Running' = Running /\ dirty' = dirty \ {a}
      BY <1>7 DEF Recover, manager, Running
    <2> QED
      BY <2>1 DEF Trees!Next, Trees!Settle
  <1>8. CASE OrphanEnds \/ UNCHANGED vars
    BY <1>2, <1>8 DEF OrphanEnds, vars, trees, manager
  <1> QED
    BY <1>1, <1>3, <1>4, <1>5, <1>6, <1>7, <1>8 DEF Next

\* The owners, whatever their number, their crashes and the service manager
\* implement the promise of DependencyTrees.
THEOREM ImplementsDependencyTrees ==
  ASSUME ~LateCloses, ~LateRequests PROVE Spec => TreesAreKept
  <1>1. Init => Trees!Init
    BY DEF Init, Trees!Init, Running
  <1>2. IInv /\ Recorded /\ NotForeign /\ Idle /\ [Next]_vars =>
          [Trees!Next]_<<Running, dirty>>
    BY NextKeepsTrees
  <1> QED
    BY <1>1, <1>2, AlwaysKept, PTL DEF Spec, TreesAreKept, Trees!Spec
=============================================================================
