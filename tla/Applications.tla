---------------------------- MODULE Applications ----------------------------
(* The applications of one Organization under the user service manager:     *)
(* the lifecycle core (modules/lifecycle.ts), its composition with the      *)
(* coordination lock and the retained records                               *)
(* (modules/local-application-adapters.ts, owner-operations.ts,             *)
(* application-coordination.ts, folder/retained-lock.ts) and the service    *)
(* runner (modules/systemd-user-runner.ts).                                 *)
(*                                                                          *)
(* An owner is one process with a lifecycle: a Launchpad, or the command    *)
(* line for one operation.  Its coordination chain runs one request at a    *)
(* time; the kernel's flock serializes the owners.  Every application has   *)
(* its own dependency tree.                                                 *)
EXTENDS FiniteSets, Naturals

CONSTANTS
  Owners, Apps, Nobody,
  MaxKills,       \* bound: processes killed
  LateRequests,   \* whether a start request outlives the process that sent it
  LateCloses      \* whether a shutdown comes between a preparation's admission
                  \* and its operation while an earlier one is unconfirmed

ASSUME OwnersAssumption == Nobody \notin Owners
ASSUME KillsAssumption == MaxKills \in Nat
ASSUME LateAssumption == LateRequests \in BOOLEAN /\ LateCloses \in BOOLEAN

VARIABLES
  (* one process *)
  pc,         \* the step of the request it works on
  job,        \* that request: what, and for which application
  closing,    \* it shuts down
  held,       \* the trees whose retained record it holds
  left,       \* preparations whose cleanup it has not confirmed
  group,      \* the preparation process group it owns, if any
  request,    \* its start request at the service manager
  (* the machine *)
  flock,      \* who holds the coordination lock
  record,     \* the trees that have a retained record on disk
  orphans,    \* process groups whose owner is dead
  late,       \* start requests of dead processes
  unit,       \* the manager's record of each application's unit
  populated,  \* applications whose control group has a process
  stopping,   \* units with a stop job
  (* bookkeeping *)
  answer,     \* what the last step answered, if it ended a request
  dirty,      \* history: trees an explicit preparation may have left unfinished
  kills

trees == <<record, orphans, dirty>>
manager == <<late, unit, populated, stopping>>
vars == <<pc, job, closing, held, left, group, request, flock, trees, manager,
          answer, kills>>

Kinds == {"start", "stop", "prepare", "build"}
Jobs == [kind : Kinds, app : Apps]
NoJob == [kind |-> "none", app |-> Nobody]
Groups == Apps \X {"prepare", "step"}
Outcomes == {"busy", "recovery", "closing", "refused", "managed", "thrown",
             "cleanup", "failed", "done", "incomplete"}
Answers == [what : Outcomes, job : Jobs]
Silence == [what |-> "none", job |-> NoJob]
\* The steps that hold the coordination lock.
Working == {"locked", "begin", "step", "running", "drain", "launch", "asked",
            "stop", "confirm"}

\* Every variable stays in its set.
TypeOK ==
  /\ pc \in [Owners -> Working \cup {"idle", "queued", "down"}]
  /\ job \in [Owners -> Jobs \cup {NoJob}]
  /\ closing \in [Owners -> BOOLEAN]
  /\ held \in [Owners -> SUBSET Apps]
  /\ left \in [Owners -> SUBSET Apps]
  /\ group \in [Owners -> SUBSET Groups]
  /\ request \in [Owners -> {"none", "sent", "ok", "refused"}]
  /\ flock \in Owners \cup {Nobody}
  /\ record \in SUBSET Apps
  /\ orphans \in SUBSET Groups
  /\ late \in SUBSET Apps
  /\ unit \in [Apps -> {"none", "active", "failed"}]
  /\ populated \in SUBSET Apps
  /\ stopping \in SUBSET Apps
  /\ answer \in Answers \cup {Silence}
  /\ dirty \in SUBSET Apps
  /\ kills \in 0 .. MaxKills

Init ==
  /\ pc = [o \in Owners |-> "idle"]
  /\ job = [o \in Owners |-> NoJob]
  /\ closing = [o \in Owners |-> FALSE]
  /\ held = [o \in Owners |-> {}]
  /\ left = [o \in Owners |-> {}]
  /\ group = [o \in Owners |-> {}]
  /\ request = [o \in Owners |-> "none"]
  /\ flock = Nobody
  /\ record = {} /\ orphans = {} /\ dirty = {}
  /\ late = {} /\ populated = {} /\ stopping = {}
  /\ unit = [a \in Apps |-> "none"]
  /\ answer = Silence
  /\ kills = 0

-----------------------------------------------------------------------------
(* Helpers.                                                                 *)

App(o) == job[o].app
Is(o, kind) == job[o].kind = kind
At(o, step) == pc[o] = step

Go(o, step) ==
  /\ pc' = [pc EXCEPT ![o] = step]
  /\ answer' = Silence
  /\ UNCHANGED <<job, held, record, flock>>

BugAnswer(o, what) ==
  /\ pc' = [pc EXCEPT ![o] = "idle"]
  /\ job' = [job EXCEPT ![o] = NoJob]
  /\ answer' = [what |-> what, job |-> job[o]]
  /\ flock' = Nobody

\* The request ends and its turn of the coordination lock with it.
Answer(o, what) ==
  /\ pc' = [pc EXCEPT ![o] = "idle"]
  /\ job' = [job EXCEPT ![o] = NoJob]
  /\ answer' = [what |-> what, job |-> job[o]]
  /\ flock' = IF flock = o THEN Nobody ELSE flock

BugEnd(o, what) ==
  /\ Answer(o, what)
  /\ IF Is(o, "prepare")
       THEN /\ held' = [held EXCEPT ![o] = @ \ {App(o)}]
            /\ record' = record \ {App(o)}
       ELSE UNCHANGED <<held, record>>

\* An action under the retained record has returned: the record goes unless
\* cleanup is unconfirmed.
End(o, what) ==
  /\ Answer(o, what)
  /\ IF Is(o, "prepare") /\ what # "cleanup"
       THEN /\ held' = [held EXCEPT ![o] = @ \ {App(o)}]
            /\ record' = record \ {App(o)}
       ELSE UNCHANGED <<held, record>>

BugCleared(a) ==
  IF unit[a] = "failed"
    THEN [unit EXCEPT ![a] = "none"] ELSE unit

\* The application's unit as the manager shows it once a failed record without
\* processes is reset.
Cleared(a) ==
  IF unit[a] = "failed" /\ a \notin populated
    THEN [unit EXCEPT ![a] = "none"] ELSE unit

On(groups, a) == {g \in groups : g[1] = a}
Writers == orphans \cup UNION {group[o] : o \in Owners}

-----------------------------------------------------------------------------
(* A request: the coordination chain and lock, then the kind of exclusion   *)
(* its intent needs.                                                        *)

BugRequest(o, j) ==
  /\ At(o, "idle")
  /\ pc' = [pc EXCEPT ![o] = "queued"]
  /\ job' = [job EXCEPT ![o] = j]
  /\ answer' = Silence
  /\ UNCHANGED <<closing, held, left, group, request, flock, trees, manager, kills>>

Request(o, j) ==
  /\ At(o, "idle") /\ ~closing[o]
  /\ pc' = [pc EXCEPT ![o] = "queued"]
  /\ job' = [job EXCEPT ![o] = j]
  /\ answer' = Silence
  /\ UNCHANGED <<closing, held, left, group, request, flock, trees, manager, kills>>

Lock(o) ==
  /\ At(o, "queued") /\ flock = Nobody
  /\ flock' = o
  /\ pc' = [pc EXCEPT ![o] = "locked"]
  /\ answer' = Silence
  /\ UNCHANGED <<job, closing, held, left, group, request, trees, manager, kills>>

BugBusy(o) ==
  /\ At(o, "queued") /\ flock # Nobody
  /\ pc' = [pc EXCEPT ![o] = "idle"]
  /\ job' = [job EXCEPT ![o] = NoJob]
  /\ answer' = [what |-> "busy", job |-> job'[o]]
  /\ UNCHANGED <<flock, closing, held, left, group, request, trees, manager, kills>>

Busy(o) ==
  /\ At(o, "queued") /\ flock # Nobody
  /\ Answer(o, "busy")
  /\ UNCHANGED <<closing, held, left, group, request, trees, manager, kills>>

BugForeign(o, a) == FALSE

\* Somebody else's record, or the record of a dead owner.
Foreign(o, a) == a \in record /\ a \notin held[o]

AdmitPlain(o) ==
  /\ At(o, "locked") /\ ~Is(o, "prepare")
  /\ IF ~Is(o, "stop") /\ Foreign(o, App(o))
       THEN Answer(o, "recovery") /\ UNCHANGED <<held, record>>
       ELSE Go(o, "begin")
  /\ UNCHANGED <<closing, left, group, request, orphans, dirty, manager, kills>>

\* owners.run: the record is made on the tree's first preparation and kept.
AdmitPreparation(o) ==
  /\ At(o, "locked") /\ Is(o, "prepare")
  /\ \/ /\ closing[o] \/ Foreign(o, App(o))
        /\ Answer(o, IF closing[o] THEN "closing" ELSE "recovery")
        /\ UNCHANGED <<held, record>>
     \/ /\ ~closing[o] /\ ~Foreign(o, App(o))
        /\ held' = [held EXCEPT ![o] = @ \cup {App(o)}]
        /\ record' = record \cup {App(o)}
        /\ \/ /\ pc' = [pc EXCEPT ![o] = "begin"] /\ answer' = Silence
              /\ UNCHANGED <<job, flock>>
           \* the tree's directory changed under the queue
           \/ Answer(o, "thrown")
  /\ UNCHANGED <<closing, left, group, request, orphans, dirty, manager, kills>>

-----------------------------------------------------------------------------
(* The lifecycle's exclusive operations.                                    *)

BugMayBegin(o) == At(o, "begin") /\ ~closing[o]

MayBegin(o) == At(o, "begin") /\ ~closing[o] /\ left[o] = {}

\* Shutdown, an earlier preparation without confirmed cleanup, and whatever
\* authorization, declaration or an unreadable manager refuse.
BeginRefused(o) ==
  /\ At(o, "begin")
  /\ \/ ~Is(o, "stop") /\ closing[o] /\ End(o, "closing")
     \/ ~Is(o, "stop") /\ ~closing[o] /\ left[o] # {} /\ End(o, "cleanup")
     \/ (Is(o, "stop") \/ MayBegin(o)) /\ End(o, "refused")
  /\ UNCHANGED <<closing, left, group, request, orphans, dirty, manager, kills>>

BeginStart(o) ==
  /\ MayBegin(o) /\ Is(o, "start")
  /\ CASE unit[App(o)] = "active" -> End(o, "managed")
       [] unit[App(o)] = "failed" /\ App(o) \in populated -> End(o, "cleanup")
       \* a built static application has no start-time step
       [] OTHER -> Go(o, "step") \/ Go(o, "launch")
  /\ UNCHANGED <<closing, left, group, request, orphans, dirty, manager, kills>>

BeginBuild(o) ==
  /\ MayBegin(o) /\ Is(o, "build") /\ Go(o, "step")
  /\ UNCHANGED <<closing, left, group, request, orphans, dirty, manager, kills>>

BugBeginPreparation(o) ==
  /\ MayBegin(o) /\ Is(o, "prepare")
  /\ IF unit[App(o)] = "active"
       THEN End(o, "managed") ELSE Go(o, "step")
  /\ UNCHANGED <<closing, left, group, request, orphans, dirty, manager, kills>>

\* Nothing else of the Organization is managed and the application does not run.
BeginPreparation(o) ==
  /\ MayBegin(o) /\ Is(o, "prepare")
  /\ IF \/ \E b \in Apps \ {App(o)} : unit[b] # "none"
        \/ unit[App(o)] = "active"
       THEN End(o, "managed") ELSE Go(o, "step")
  /\ UNCHANGED <<closing, left, group, request, orphans, dirty, manager, kills>>

BeginStop(o) ==
  /\ At(o, "begin") /\ Is(o, "stop")
  /\ IF unit[App(o)] = "none" THEN End(o, "done") ELSE Go(o, "stop")
  /\ UNCHANGED <<closing, left, group, request, orphans, dirty, manager, kills>>

-----------------------------------------------------------------------------
(* The preparation, or the start-time step: one guarded process group.      *)

StepRefused(o) ==
  /\ At(o, "step")
  /\ End(o, IF closing[o] THEN "closing" ELSE "refused")
  /\ UNCHANGED <<closing, left, group, request, orphans, dirty, manager, kills>>

\* A failed unit's record is stopped first; a running one is never prepared
\* beneath.
StepBlocked(o) ==
  /\ At(o, "step") /\ Is(o, "prepare")
  /\ \/ unit[App(o)] = "failed" /\ Go(o, "stop")
     \/ unit[App(o)] = "active" /\ End(o, "managed")
  /\ UNCHANGED <<closing, left, group, request, orphans, dirty, manager, kills>>

BugRun(o) ==
  /\ At(o, "step") /\ ~closing[o]
  /\ LET kind == IF Is(o, "prepare") THEN "prepare" ELSE "step"
     IN /\ group' = [group EXCEPT ![o] = @ \cup {<<App(o), kind>>}]
        /\ dirty' = IF kind = "prepare" THEN dirty \cup {App(o)} ELSE dirty
  /\ left' = [left EXCEPT ![o] = @ \cup {App(o)}]
  /\ Go(o, "running")
  /\ UNCHANGED <<closing, request, orphans, manager, kills>>

Run(o) ==
  /\ At(o, "step") /\ ~closing[o]
  /\ Is(o, "prepare") => unit[App(o)] = "none"
  /\ LET kind == IF Is(o, "prepare") THEN "prepare" ELSE "step"
     IN /\ group' = [group EXCEPT ![o] = @ \cup {<<App(o), kind>>}]
        /\ dirty' = IF kind = "prepare" THEN dirty \cup {App(o)} ELSE dirty
  /\ left' = [left EXCEPT ![o] = @ \cup {App(o)}]
  /\ Go(o, "running")
  /\ UNCHANGED <<closing, request, orphans, manager, kills>>

\* Its processes exited, the deadline passed or the owner shuts down.
Ran(o) ==
  /\ At(o, "running") /\ Go(o, "drain")
  /\ UNCHANGED <<closing, left, group, request, orphans, dirty, manager, kills>>

\* The guard has stopped the whole group.
GroupEnds(o) ==
  /\ group[o] # {} /\ group' = [group EXCEPT ![o] = {}]
  /\ answer' = Silence
  /\ UNCHANGED <<pc, job, closing, held, left, request, flock, trees, manager, kills>>

OrphanEnds ==
  /\ \E g \in orphans : orphans' = orphans \ {g}
  /\ answer' = Silence
  /\ UNCHANGED <<pc, job, closing, held, left, group, request, flock, record,
                 dirty, manager, kills>>

\* Every process group it started is gone, and with it the doubt about the trees
\* it holds.
Confirmed(o) ==
  /\ left' = [left EXCEPT ![o] = {}]
  /\ dirty' = dirty \ (left[o] \cap held[o])

DrainConfirmed(o) ==
  /\ At(o, "drain") /\ group[o] = {}
  /\ Confirmed(o)
  /\ \/ Is(o, "start") /\ Go(o, "launch")
     \/ ~Is(o, "start") /\ End(o, "done")
     \/ End(o, "failed")
  /\ UNCHANGED <<closing, group, request, orphans, manager, kills>>

\* Two bounded attempts; the second may find the group gone.
DrainUnconfirmed(o) ==
  /\ At(o, "drain") /\ group[o] # {}
  /\ End(o, "cleanup")
  /\ \/ Confirmed(o) /\ group' = [group EXCEPT ![o] = {}]
     \/ UNCHANGED <<left, dirty, group>>
  /\ UNCHANGED <<closing, request, orphans, manager, kills>>

-----------------------------------------------------------------------------
(* The runner's start.                                                      *)

LaunchRefused(o) ==
  /\ At(o, "launch")
  /\ \/ End(o, IF closing[o] THEN "closing" ELSE "refused")
     \/ unit[App(o)] = "active" /\ End(o, "managed")
     \/ unit[App(o)] = "failed" /\ App(o) \in populated /\ End(o, "cleanup")
  /\ UNCHANGED <<closing, left, group, request, orphans, dirty, manager, kills>>

\* A failed record is reset once its control group is empty; then systemd-run.
Launch(o) ==
  /\ At(o, "launch") /\ ~closing[o]
  /\ unit' = Cleared(App(o)) /\ unit'[App(o)] = "none"
  /\ request' = [request EXCEPT ![o] = "sent"]
  /\ Go(o, "asked")
  /\ UNCHANGED <<closing, left, group, orphans, dirty, late, populated, stopping, kills>>

\* Before it answers, the runner looks at what exists.
Started(o) ==
  /\ At(o, "asked") /\ request[o] = "ok"
  /\ request' = [request EXCEPT ![o] = "none"]
  /\ End(o, "done")
  /\ UNCHANGED <<closing, left, group, orphans, dirty, manager, kills>>

Rejected(o) ==
  /\ At(o, "asked") /\ request[o] = "refused"
  /\ request' = [request EXCEPT ![o] = "none"]
  /\ unit' = Cleared(App(o))
  /\ End(o, IF unit[App(o)] = "active" THEN "managed" ELSE "failed")
  /\ UNCHANGED <<closing, left, group, orphans, dirty, late, populated, stopping, kills>>

\* systemd-run outlived its deadline and is killed: a unit that exists is
\* withdrawn; a manager that does not answer is taken for none.  A request sent
\* before is executed before the look or lost.
GiveUp(o) ==
  /\ At(o, "asked") /\ request[o] \in {"sent", "ok"}
  /\ request' = [request EXCEPT ![o] = "none"]
  /\ \/ unit[App(o)] = "active" /\ Go(o, "stop") /\ UNCHANGED unit
     \/ unit[App(o)] # "active" /\ End(o, "failed") /\ unit' = Cleared(App(o))
     \/ End(o, "failed") /\ UNCHANGED unit
  /\ UNCHANGED <<closing, left, group, orphans, dirty, late, populated, stopping,
                 kills>>

-----------------------------------------------------------------------------
(* The runner's stop: for a Stop, for the failed unit of a preparation and  *)
(* to withdraw a start.                                                     *)

Stopped(o) ==
  CASE Is(o, "stop") -> End(o, "done")
    [] Is(o, "prepare") -> Go(o, "step")
    [] OTHER -> End(o, "failed")

StopIncomplete(o) == End(o, IF Is(o, "stop") THEN "incomplete" ELSE "cleanup")

Stop(o) ==
  /\ At(o, "stop")
  /\ \/ unit[App(o)] = "none" /\ Stopped(o) /\ UNCHANGED stopping
     \* the manager does not answer
     \/ StopIncomplete(o) /\ UNCHANGED stopping
     \/ unit[App(o)] = "active" /\ Go(o, "confirm")
          /\ stopping' = stopping \cup {App(o)}
     \/ unit[App(o)] # "none" /\ Go(o, "confirm") /\ UNCHANGED stopping
  /\ UNCHANGED <<closing, left, group, request, orphans, dirty, late, unit,
                 populated, kills>>

BugConfirm(o) ==
  /\ At(o, "confirm")
  /\ unit[App(o)] # "active"
  /\ unit' = Cleared(App(o))
  /\ Stopped(o)
  /\ UNCHANGED <<closing, left, group, request, orphans, dirty, late, populated,
                 stopping, kills>>

\* The manager holds no unit and the kernel no process of it.
Confirm(o) ==
  /\ At(o, "confirm")
  /\ unit[App(o)] # "active" /\ App(o) \notin populated
  /\ unit' = Cleared(App(o))
  /\ Stopped(o)
  /\ UNCHANGED <<closing, left, group, request, orphans, dirty, late, populated,
                 stopping, kills>>

BugExpire(o) ==
  /\ At(o, "confirm") /\ App(o) \notin populated /\ StopIncomplete(o)
  /\ UNCHANGED <<closing, left, group, request, orphans, dirty, manager, kills>>

Expire(o) ==
  /\ At(o, "confirm") /\ StopIncomplete(o)
  /\ UNCHANGED <<closing, left, group, request, orphans, dirty, manager, kills>>

-----------------------------------------------------------------------------
(* The service manager (external).                                          *)

Machine ==
  /\ answer' = Silence
  /\ UNCHANGED <<pc, job, closing, held, left, group, flock, trees, kills>>

\* A start request is executed; the manager refuses a name that is loaded.
Execute(a, accepted) ==
  IF unit[a] # "none" THEN ~accepted /\ UNCHANGED <<unit, populated>>
  ELSE \/ /\ accepted /\ populated' = populated \cup {a}
          /\ unit' = [unit EXCEPT ![a] = "active"]
       \* the program could not be executed
       \/ ~accepted /\ unit' = [unit EXCEPT ![a] = "failed"] /\ UNCHANGED populated

ExecuteRequest(o) ==
  /\ request[o] = "sent"
  /\ \E accepted \in BOOLEAN :
       /\ Execute(App(o), accepted)
       /\ request' = [request EXCEPT ![o] = IF accepted THEN "ok" ELSE "refused"]
  /\ Machine /\ UNCHANGED <<late, stopping>>

ExecuteLate(a) ==
  /\ a \in late /\ late' = late \ {a}
  /\ \E accepted \in BOOLEAN : Execute(a, accepted)
  /\ Machine /\ UNCHANGED <<request, stopping>>

\* The main process is gone: cleanly with its whole group, or with a failed
\* record and perhaps a process that does not die.
Exit(a) ==
  /\ unit[a] = "active"
  /\ \/ unit' = [unit EXCEPT ![a] = "none"] /\ populated' = populated \ {a}
     \/ /\ unit' = [unit EXCEPT ![a] = "failed"]
        /\ populated' \in {populated, populated \ {a}}

UnitExits(a) ==
  /\ Exit(a) /\ Machine /\ UNCHANGED <<request, late, stopping>>

StopJob(a) ==
  /\ a \in stopping /\ stopping' = stopping \ {a}
  /\ \/ Exit(a)
     \/ unit[a] # "active" /\ UNCHANGED <<unit, populated>>
  /\ Machine /\ UNCHANGED <<request, late>>

\* The last process of a failed unit dies.
GroupEmpties(a) ==
  /\ unit[a] = "failed" /\ a \in populated /\ populated' = populated \ {a}
  /\ Machine /\ UNCHANGED <<request, late, unit, stopping>>

-----------------------------------------------------------------------------
(* Processes come and go.                                                   *)

Close(o) ==
  /\ ~At(o, "down") /\ ~closing[o]
  /\ LateCloses \/ ~(At(o, "begin") /\ Is(o, "prepare") /\ left[o] # {})
  /\ closing' = [closing EXCEPT ![o] = TRUE]
  /\ answer' = Silence
  /\ UNCHANGED <<pc, job, held, left, group, request, flock, trees, manager, kills>>

\* The queue is drained and every preparation confirmed: the records go and the
\* process exits.
Shutdown(o) ==
  /\ closing[o] /\ pc[o] \in {"idle", "queued"} /\ group[o] = {}
  /\ Confirmed(o)
  /\ record' = record \ held[o]
  /\ held' = [held EXCEPT ![o] = {}]
  /\ pc' = [pc EXCEPT ![o] = "down"]
  /\ job' = [job EXCEPT ![o] = NoJob]
  /\ closing' = [closing EXCEPT ![o] = FALSE]
  /\ answer' = Silence
  /\ UNCHANGED <<group, request, flock, orphans, manager, kills>>

\* The kernel frees the lock, the guards notice the closed pipe, whatever is on
\* disk stays, and its systemd-run goes on.
Die(o) ==
  /\ pc' = [pc EXCEPT ![o] = "down"]
  /\ job' = [job EXCEPT ![o] = NoJob]
  /\ closing' = [closing EXCEPT ![o] = FALSE]
  /\ held' = [held EXCEPT ![o] = {}]
  /\ left' = [left EXCEPT ![o] = {}]
  /\ orphans' = orphans \cup group[o]
  /\ group' = [group EXCEPT ![o] = {}]
  /\ request' = [request EXCEPT ![o] = "none"]
  /\ \/ late' = late
     \/ LateRequests /\ request[o] = "sent" /\ late' = late \cup {App(o)}
  /\ flock' = IF flock = o THEN Nobody ELSE flock
  /\ answer' = Silence
  /\ UNCHANGED <<record, dirty, unit, populated, stopping>>

Kill(o) ==
  /\ ~At(o, "down") /\ kills < MaxKills /\ kills' = kills + 1
  /\ Die(o)

\* The command line exits after an incomplete close.
ExitIncomplete(o) ==
  /\ closing[o] /\ At(o, "idle") /\ group[o] # {}
  /\ Die(o) /\ UNCHANGED kills

Open(o) ==
  /\ At(o, "down") /\ pc' = [pc EXCEPT ![o] = "idle"]
  /\ answer' = Silence
  /\ UNCHANGED <<job, closing, held, left, group, request, flock, trees, manager, kills>>

\* A person removes the record nobody holds, after its processes.
Recover(a) ==
  /\ a \in record /\ \A o \in Owners : a \notin held[o]
  /\ On(orphans, a) = {}
  /\ record' = record \ {a} /\ dirty' = dirty \ {a}
  /\ answer' = Silence
  /\ UNCHANGED <<pc, job, closing, held, left, group, request, flock, orphans,
                 manager, kills>>

-----------------------------------------------------------------------------

Admit(o) == Lock(o) \/ Busy(o) \/ AdmitPlain(o) \/ AdmitPreparation(o)
Begin(o) == BeginRefused(o) \/ BeginStart(o) \/ BeginBuild(o)
            \/ BeginPreparation(o) \/ BeginStop(o)
Prepare(o) == StepRefused(o) \/ StepBlocked(o) \/ Run(o) \/ Ran(o)
              \/ DrainConfirmed(o) \/ DrainUnconfirmed(o)
Start(o) == LaunchRefused(o) \/ Launch(o) \/ Started(o) \/ Rejected(o) \/ GiveUp(o)
Halt(o) == Stop(o) \/ Confirm(o) \/ Expire(o)
Work(o) == Admit(o) \/ Begin(o) \/ Prepare(o) \/ Start(o) \/ Halt(o)

Service(a) == ExecuteLate(a) \/ UnitExits(a) \/ StopJob(a) \/ GroupEmpties(a)

Next ==
  \/ \E o \in Owners :
       \/ \E j \in Jobs : Request(o, j)
       \/ Work(o) \/ GroupEnds(o) \/ ExecuteRequest(o)
       \/ Close(o) \/ Shutdown(o) \/ Kill(o) \/ ExitIncomplete(o) \/ Open(o)
  \/ \E a \in Apps : Service(a) \/ Recover(a)
  \/ OrphanEnds

Spec == Init /\ [][Next]_vars

\* A process works on, a guard stops its group in the end, and a process that
\* shuts down does so.
FairSpec ==
  Spec /\ \A o \in Owners :
            WF_vars(Work(o)) /\ WF_vars(GroupEnds(o)) /\ WF_vars(Shutdown(o))

-----------------------------------------------------------------------------
(* Properties.                                                              *)

Running == {a \in Apps : a \in populated \/ unit[a] = "active"}

\* A retained record has at most one holder, and what a process holds is on
\* disk, through kills, shutdowns and recoveries.
OneHolder ==
  \A o \in Owners : \A a \in held[o] :
    a \in record /\ \A p \in Owners \ {o} : a \notin held[p]

\* A tree that an explicit preparation may have left unfinished has its record,
\* whatever died, so that nobody prepares or starts on it unnoticed.
DirtyIsRecorded == dirty \subseteq record

\* Dependencies are never changed by an explicit preparation beneath an
\* application that has a process, nor by two preparations at a time.
NothingRunsBeneath ==
  \A a \in Apps : <<a, "prepare">> \in Writers =>
    /\ a \notin Running
    /\ Cardinality({o \in Owners : <<a, "prepare">> \in group[o]})
         = IF <<a, "prepare">> \in orphans THEN 0 ELSE 1

\* The manager's record of a unit is only reset, and its name only reused, when
\* none of the unit's processes is left.
ResetOnlyEmpty == \A a \in populated : unit[a] # "none"

\* Whoever holds the coordination lock is a live process in the middle of a
\* request: neither a crash nor a refusal leaves it behind.
LockIsWorked ==
  \A o \in Owners : flock = o <=> pc[o] \in Working

\* A process launches an application only after it confirmed the end of every
\* process group it ever started.
LaunchesAfterCleanup ==
  \A o \in Owners : pc[o] \in {"launch", "asked"} => group[o] = {} /\ left[o] = {}

\* Stop answers that the application ended only when its unit is gone and no
\* process of it remains.
StopIsConfirmed ==
  answer.what = "done" /\ answer.job.kind = "stop" =>
    unit[answer.job.app] = "none" /\ answer.job.app \notin populated

Trees == INSTANCE DependencyTrees WITH running <- Running, changing <- dirty

\* The owners, their crashes and the manager together keep the promise of
\* DependencyTrees.
TreesAreKept == Trees!Spec

\* A request is answered, or its process is gone.
RequestsEnd ==
  \A o \in Owners : pc[o] \notin {"idle", "down"} ~> pc[o] \in {"idle", "down"}

\* A process that shuts down is gone in the end, whatever it was doing.
ShutdownEnds == \A o \in Owners : closing[o] ~> At(o, "down")
=============================================================================
