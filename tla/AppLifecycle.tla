---------------------------- MODULE AppLifecycle ----------------------------
(***************************************************************************)
(* The life of an application (cfe-core/src/es): the command task creates  *)
(* it or requests its end, its own tasks run, make child tasks and ask the *)
(* other services for resources, and the background task scans the         *)
(* application table, waits for the kill timeout and cleans up.  The       *)
(* services release what they keep for the application without the ES      *)
(* lock, while its tasks may still run; then its tasks are deleted.        *)
(*                                                                         *)
(* Slots are the entries of the application table for external             *)
(* applications; LATE_INIT is not told apart from EARLY_INIT.  Per service *)
(* and application only whether something is registered is kept.  A record *)
(* of state UNDEFINED is written as the empty one: whoever reads a record  *)
(* looks at the state first.                                               *)
(***************************************************************************)
EXTENDS Integers, FiniteSets

CONSTANTS
  NumSlots,      \* CFE_PLATFORM_ES_MAX_APPLICATIONS, less the core ones
  Names,         \* names applications are started with
  Tasks,         \* the tasks OSAL has room for
  Used,          \* the services applications register with
  ScanRate,      \* CFE_PLATFORM_ES_APP_SCAN_RATE, in an arbitrary unit
  KillTimeout,   \* CFE_PLATFORM_ES_APP_KILL_TIMEOUT, in scans
  ElapsedTimes,  \* time between two rounds of the background task
  Commands,      \* the requests the ground sends
  ExitStatuses,  \* what applications pass to CFE_ES_ExitApp
  MaxCommands,   \* bound: commands the ground sends
  NoName, NoTask, NoSlot

Services == {"TBL", "SB", "TIME", "EVS"}

ASSUME SizesAssumption ==
  NumSlots \in Nat /\ MaxCommands \in Nat /\ ScanRate \in Nat /\ KillTimeout \in Nat /\ Used \subseteq Services
ASSUME ElapsedAssumption == ElapsedTimes \subseteq Nat \ {0}
ASSUME NoneAssumption ==
  NoName \notin Names /\ NoTask \notin Tasks /\ NoSlot \notin 1 .. NumSlots
ASSUME TasksAssumption == IsFiniteSet(Tasks)

Slots == 1 .. NumSlots
Creators == {"cmd", "bg"}    \* who calls CFE_ES_AppCreate

VARIABLES
  app,                    \* AppTable
  taskApp, parked,        \* TaskTable: owner; tasks in ExitApp's endless wait
  modules,                \* names of loaded modules (OSAL)
  registeredTasks, registeredExternalApps,
  held,                   \* what each service keeps for a slot
  pc, slot, name, op,     \* the command task and the background task
  scan, newCommand,       \* CFE_ES_AppTableScanState_t; index; command counted
  commands                \* commands sent so far

taskVars == <<taskApp, parked, registeredTasks>>
procVars == <<pc, slot, name, op>>
scanVars == <<scan, newCommand, commands>>
vars == <<app, taskApp, parked, modules, registeredTasks,
          registeredExternalApps, held, pc, slot, name, op, scan, newCommand, commands>>

States == {"UNDEFINED", "EARLY_INIT", "RUNNING", "WAITING", "STOPPED"}
SysRequests == {"SYS_RESTART", "SYS_RELOAD", "SYS_DELETE"}
Requests == SysRequests \cup {"UNDEFINED", "APP_RUN", "APP_EXIT", "APP_ERROR"}

ASSUME RequestsAssumption ==
  Commands \subseteq SysRequests /\ ExitStatuses \subseteq Requests \ {"UNDEFINED"}

AppRecord == [state : States, external : BOOLEAN, name : Names \cup {NoName},
              request : Requests, timer : Nat, main : Tasks \cup {NoTask}]
EmptyRecord == [state |-> "UNDEFINED", external |-> FALSE, name |-> NoName,
                request |-> "UNDEFINED", timer |-> 0, main |-> NoTask]

CreatePlaces == {"reserve", "load", "fill", "release", "releaseUnload", "unload"}
BgPlaces == CreatePlaces \cup Services \cup {"idle", "scan", "request", "kill", "resume"}
CmdPlaces == CreatePlaces \cup {"idle", "find", "act"}

Init ==
  /\ app = [s \in Slots |-> EmptyRecord]
  /\ taskApp = [t \in Tasks |-> NoSlot] /\ parked = {}
  /\ modules = {}
  /\ registeredTasks = 0 /\ registeredExternalApps = 0
  /\ held = [v \in Services |-> [s \in Slots |-> "no"]]
  /\ pc = [p \in Creators |-> "idle"]
  /\ slot = [p \in Creators |-> NoSlot]
  /\ name = [p \in Creators |-> NoName]
  /\ op = [p \in Creators |-> "UNDEFINED"]
  /\ scan = [timer |-> ScanRate, pending |-> FALSE, at |-> 1, elapsed |-> 0]
  /\ newCommand = FALSE /\ commands = 0

\* CFE_ES_Global.SharedDataMutex: held over several steps by the scan only.
LockFree == pc["bg"] # "scan"

Goto(p, place) == pc' = [pc EXCEPT ![p] = place]

-----------------------------------------------------------------------------
(* CFE_ES_AppCreate, in the command task or in the background task. *)

\* Mutant: a slot that is reserved and not filled yet counts as free.
FirstFree_filled(s) ==
  /\ ~app[s].external
  /\ \A r \in Slots : r < s => app[r].external

FirstFree(s) ==
  /\ app[s].state = "UNDEFINED"
  /\ \A r \in Slots : r < s => app[r].state # "UNDEFINED"

\* CFE_ES_AppCreate returns: the command task is done, the scan goes on.
Return(p) ==
  /\ Goto(p, IF p = "bg" THEN "resume" ELSE "idle")
  /\ slot' = [slot EXCEPT ![p] = NoSlot]
  /\ name' = [name EXCEPT ![p] = NoName]
  /\ op' = [op EXCEPT ![p] = "UNDEFINED"]

\* The slot is taken in a critical section of its own.
Reserve(p) ==
  /\ pc[p] = "reserve" /\ LockFree
  /\ \/ \E s \in Slots :
          /\ FirstFree(s)
          /\ app' = [app EXCEPT ![s] = [EmptyRecord EXCEPT !.state = "EARLY_INIT"]]
          /\ slot' = [slot EXCEPT ![p] = s]
          /\ Goto(p, "load")
          /\ UNCHANGED <<name, op>>
     \/ /\ \A s \in Slots : app[s].state # "UNDEFINED"
        /\ Return(p)
        /\ UNCHANGED app
  /\ UNCHANGED <<taskVars, modules, registeredExternalApps, held, scanVars>>

\* Mutant: a name that is loaded is loaded again.
LoadModule_again(p) ==
  /\ pc[p] = "load"
  /\ modules' = modules \cup {name[p]}
  /\ Goto(p, "fill")
  /\ UNCHANGED <<app, taskVars, registeredExternalApps, held, slot, name, op, scanVars>>

\* OS_ModuleLoad refuses a name that is loaded; it and the lookup of the
\* entry point may fail for reasons of the file.
LoadModule(p) ==
  /\ pc[p] = "load"
  /\ \/ Goto(p, "release") /\ UNCHANGED modules
     \/ /\ name[p] \notin modules
        /\ modules' = modules \cup {name[p]}
        /\ \E place \in {"fill", "releaseUnload"} : Goto(p, place)
  /\ UNCHANGED <<app, taskVars, registeredExternalApps, held, slot, name, op, scanVars>>

ReleaseSlot(p) ==
  /\ pc[p] \in {"release", "releaseUnload"} /\ LockFree
  /\ app' = [app EXCEPT ![slot[p]] = EmptyRecord]
  /\ \/ pc[p] = "release" /\ Return(p)
     \/ pc[p] = "releaseUnload" /\ Goto(p, "unload") /\ UNCHANGED <<slot, name, op>>
  /\ UNCHANGED <<taskVars, modules, registeredExternalApps, held, scanVars>>

UnloadModule(p) ==
  /\ pc[p] = "unload"
  /\ modules' = modules \ {name[p]}
  /\ Return(p)
  /\ UNCHANGED <<app, taskVars, registeredExternalApps, held, scanVars>>

\* OS_TaskCreate hands out a task that is not in use; which one is immaterial.
TaskLeft == \E t \in Tasks : taskApp[t] = NoSlot
NewTask == CHOOSE t \in Tasks : taskApp[t] = NoSlot

\* The record is filled and the main task created under the lock.  When there
\* is no task left the slot is given back and the module stays loaded.
Fill(p) ==
  /\ pc[p] = "fill" /\ LockFree
  /\ \/ /\ TaskLeft
        /\ app' = [app EXCEPT ![slot[p]] =
                     [@ EXCEPT !.external = TRUE, !.name = name[p],
                               !.request = "APP_RUN", !.timer = 0, !.main = NewTask]]
        /\ taskApp' = [taskApp EXCEPT ![NewTask] = slot[p]]
        /\ registeredTasks' = registeredTasks + 1
        /\ registeredExternalApps' = registeredExternalApps + 1
        /\ newCommand' = (newCommand \/ p = "cmd")
     \/ /\ ~TaskLeft
        /\ app' = [app EXCEPT ![slot[p]] = EmptyRecord]
        /\ UNCHANGED <<taskApp, registeredTasks, registeredExternalApps, newCommand>>
  /\ Return(p)
  /\ UNCHANGED <<parked, modules, held, scan, commands>>

-----------------------------------------------------------------------------
(* The command task: start, stop, restart and reload by name. *)

StartAppCmd(n) ==
  /\ pc["cmd"] = "idle" /\ commands < MaxCommands
  /\ Goto("cmd", "reserve")
  /\ name' = [name EXCEPT !["cmd"] = n]
  /\ commands' = commands + 1
  /\ UNCHANGED <<app, taskVars, modules, registeredExternalApps, held, slot, op,
                 scan, newCommand>>

ControlAppCmd(n, request) ==
  /\ pc["cmd"] = "idle" /\ commands < MaxCommands
  /\ Goto("cmd", "find")
  /\ name' = [name EXCEPT !["cmd"] = n]
  /\ op' = [op EXCEPT !["cmd"] = request]
  /\ commands' = commands + 1
  /\ UNCHANGED <<app, taskVars, modules, registeredExternalApps, held, slot,
                 scan, newCommand>>

\* CFE_ES_GetAppIDByName.
GetAppIDByName ==
  /\ pc["cmd"] = "find" /\ LockFree
  /\ LET Match(s) == app[s].state # "UNDEFINED" /\ app[s].name = name["cmd"]
     IN \/ \E s \in Slots :
             /\ Match(s) /\ \A r \in Slots : r < s => ~Match(r)
             /\ slot' = [slot EXCEPT !["cmd"] = s]
             /\ Goto("cmd", "act")
             /\ UNCHANGED <<name, op>>
        \/ (\A s \in Slots : ~Match(s)) /\ Return("cmd")
  /\ UNCHANGED <<app, taskVars, modules, registeredExternalApps, held, scanVars>>

\* Mutant: an application that is already being ended takes a request.
ControlApp_ending ==
  /\ pc["cmd"] = "act" /\ LockFree
  /\ app' = [app EXCEPT ![slot["cmd"]].request = op["cmd"]]
  /\ newCommand' = TRUE
  /\ Return("cmd")
  /\ UNCHANGED <<taskVars, modules, registeredExternalApps, held, scan, commands>>

\* CFE_ES_DeleteApp, RestartApp, ReloadApp, on the index found before.  A
\* reload is refused too when its file does not exist.
ControlApp ==
  /\ pc["cmd"] = "act" /\ LockFree
  /\ \/ /\ app[slot["cmd"]].state = "RUNNING"
        /\ app' = [app EXCEPT ![slot["cmd"]].request = op["cmd"]]
        /\ newCommand' = TRUE
     \/ /\ app[slot["cmd"]].state # "RUNNING" \/ op["cmd"] = "SYS_RELOAD"
        /\ UNCHANGED <<app, newCommand>>
  /\ Return("cmd")
  /\ UNCHANGED <<taskVars, modules, registeredExternalApps, held, scan, commands>>

-----------------------------------------------------------------------------
(* The tasks of applications. *)

Runs(t) == taskApp[t] # NoSlot /\ t \notin parked

\* Mutant: a call of CFE_ES_RunLoop marks the application as running in any state.
RunLoop_again(t) ==
  /\ Runs(t) /\ LockFree
  /\ app' = [app EXCEPT ![taskApp[t]].state = "RUNNING"]
  /\ UNCHANGED <<taskVars, modules, registeredExternalApps, held, procVars, scanVars>>

\* CFE_ES_RunLoop; what the application does with the result is its affair.
RunLoop(t) ==
  /\ Runs(t) /\ LockFree
  /\ app[taskApp[t]].state = "EARLY_INIT"
  /\ app' = [app EXCEPT ![taskApp[t]].state = "RUNNING"]
  /\ UNCHANGED <<taskVars, modules, registeredExternalApps, held, procVars, scanVars>>

\* Mutant: the status replaces a request that is pending.
ExitApp_status(t, status) ==
  /\ Runs(t) /\ LockFree
  /\ app' = [app EXCEPT ![taskApp[t]].state = "STOPPED", ![taskApp[t]].request = status]
  /\ parked' = parked \cup {t}
  /\ UNCHANGED <<taskApp, registeredTasks, modules, registeredExternalApps, held,
                 procVars, scanVars>>

\* CFE_ES_ExitApp: the status counts only if no request is pending.
ExitApp(t, status) ==
  /\ Runs(t) /\ LockFree
  /\ app' = [app EXCEPT ![taskApp[t]].state = "STOPPED",
                        ![taskApp[t]].request = IF @ = "APP_RUN" THEN status ELSE @]
  /\ parked' = parked \cup {t}
  /\ UNCHANGED <<taskApp, registeredTasks, modules, registeredExternalApps, held,
                 procVars, scanVars>>

CreateChildTask(t) ==
  /\ Runs(t) /\ LockFree
  /\ app[taskApp[t]].main = t
  /\ TaskLeft
  /\ taskApp' = [taskApp EXCEPT ![NewTask] = taskApp[t]]
  /\ registeredTasks' = registeredTasks + 1
  /\ UNCHANGED <<app, parked, modules, registeredExternalApps, held, procVars, scanVars>>

IsMain(t) == \E s \in Slots : app[s].state # "UNDEFINED" /\ app[s].main = t

EndTask(t) ==
  /\ taskApp' = [taskApp EXCEPT ![t] = NoSlot]
  /\ parked' = parked \ {t}
  /\ registeredTasks' = registeredTasks - 1

ExitChildTask(t) ==
  /\ Runs(t) /\ LockFree
  /\ app[taskApp[t]].main # t
  /\ EndTask(t)
  /\ UNCHANGED <<app, modules, registeredExternalApps, held, procVars, scanVars>>

DeleteChildTask(t, u) ==
  /\ Runs(t) /\ LockFree
  /\ taskApp[u] # NoSlot /\ ~IsMain(u)
  /\ EndTask(u)
  /\ UNCHANGED <<app, modules, registeredExternalApps, held, procVars, scanVars>>

Stages == <<"TBL", "SB", "TIME", "EVS", "kill">>
Stage(v) == CHOOSE n \in 1 .. 5 : Stages[n] = v

\* The clean-up of this slot is past service v.
Cleaned(v, s) ==
  /\ scan.at = s
  /\ pc["bg"] \in {Stages[n] : n \in Stage(v) + 1 .. 5}

\* A service registers something for the calling task's application; "late"
\* records that it does so after its own clean-up for that application.
Acquire(t, v) ==
  /\ Runs(t)
  /\ held[v][taskApp[t]] = "no"
  /\ held' = [held EXCEPT ![v][taskApp[t]] =
                IF Cleaned(v, taskApp[t]) THEN "late" ELSE "yes"]
  /\ UNCHANGED <<app, taskVars, modules, registeredExternalApps, procVars, scanVars>>

-----------------------------------------------------------------------------
(* The background task: CFE_ES_RunAppTableScan. *)

StartScan(elapsed) ==
  /\ pc["bg"] = "idle"
  /\ IF ~scan.pending /\ ~newCommand /\ scan.timer > elapsed
     THEN /\ scan' = [scan EXCEPT !.timer = @ - elapsed]
          /\ UNCHANGED <<pc, newCommand>>
     ELSE /\ scan' = [timer |-> ScanRate, pending |-> FALSE, at |-> 1, elapsed |-> elapsed]
          /\ newCommand' = FALSE
          /\ Goto("bg", "resume")
  /\ UNCHANGED <<app, taskVars, modules, registeredExternalApps, held, slot, name, op,
                 commands>>

\* The table is locked, at the start and after each control request.
Lock ==
  /\ pc["bg"] = "resume"
  /\ Goto("bg", "scan")
  /\ UNCHANGED <<app, taskVars, modules, registeredExternalApps, held, slot, name, op,
                 scanVars>>

ScanSlot ==
  /\ pc["bg"] = "scan" /\ scan.at \in Slots
  /\ LET s == scan.at
         a == app[s]
         ending == a.external /\ a.state \in {"WAITING", "STOPPED"}
         asked == a.external /\ a.state = "RUNNING"
                    /\ a.request \notin {"UNDEFINED", "APP_RUN"}
     IN \/ /\ ending
           /\ \/ /\ a.timer > scan.elapsed
                 /\ app' = [app EXCEPT ![s].timer = @ - scan.elapsed]
                 /\ scan' = [scan EXCEPT !.pending = TRUE, !.at = @ + 1]
                 /\ UNCHANGED pc
              \/ /\ a.timer <= scan.elapsed
                 /\ app' = [app EXCEPT ![s].timer = 0]
                 /\ scan' = [scan EXCEPT !.pending = TRUE]
                 /\ Goto("bg", "request")
        \/ /\ asked
           /\ app' = [app EXCEPT ![s].state = "WAITING",
                                 ![s].timer = KillTimeout * ScanRate]
           /\ scan' = [scan EXCEPT !.at = @ + 1]
           /\ UNCHANGED pc
        \/ /\ ~ending /\ ~asked
           /\ scan' = [scan EXCEPT !.at = @ + 1]
           /\ UNCHANGED <<app, pc>>
  /\ UNCHANGED <<taskVars, modules, registeredExternalApps, held, slot, name, op,
                 newCommand, commands>>

EndScan ==
  /\ pc["bg"] = "scan" /\ scan.at \notin Slots
  /\ Goto("bg", "idle")
  /\ UNCHANGED <<app, taskVars, modules, registeredExternalApps, held, slot, name, op,
                 scanVars>>

\* Mutant: a request that makes no sense is left for the next scan.
ProcessControlRequest_again ==
  /\ pc["bg"] = "request"
  /\ IF app[scan.at].request \in {"UNDEFINED", "APP_RUN"}
     THEN /\ scan' = [scan EXCEPT !.at = @ + 1]
          /\ Goto("bg", "resume")
          /\ UNCHANGED <<name, op>>
     ELSE /\ name' = [name EXCEPT !["bg"] = app[scan.at].name]
          /\ op' = [op EXCEPT !["bg"] = app[scan.at].request]
          /\ Goto("bg", "TBL")
          /\ UNCHANGED scan
  /\ UNCHANGED <<app, taskVars, modules, registeredExternalApps, held, slot, newCommand,
                 commands>>

\* CFE_ES_ProcessControlRequest: the start parameters are copied and the
\* request looked at without the lock.  One that makes no sense becomes a
\* deletion for the next scan.
ProcessControlRequest ==
  /\ pc["bg"] = "request"
  /\ LET a == app[scan.at]
     IN IF a.request \in {"UNDEFINED", "APP_RUN"}
        THEN /\ app' = [app EXCEPT ![scan.at].request = "SYS_DELETE"]
             /\ scan' = [scan EXCEPT !.at = @ + 1]
             /\ Goto("bg", "resume")
             /\ UNCHANGED <<name, op>>
        ELSE /\ name' = [name EXCEPT !["bg"] = a.name]
             /\ op' = [op EXCEPT !["bg"] = a.request]
             /\ Goto("bg", "TBL")
             /\ UNCHANGED <<app, scan>>
  /\ UNCHANGED <<taskVars, modules, registeredExternalApps, held, slot, newCommand,
                 commands>>

\* Mutant: an application that has ended by itself is not cleaned up.
CleanUpService_waiting(v) ==
  /\ pc["bg"] = v
  /\ held' = [held EXCEPT ![v][scan.at] =
                IF app[scan.at].state = "STOPPED" THEN @ ELSE "no"]
  /\ Goto("bg", Stages[Stage(v) + 1])
  /\ UNCHANGED <<app, taskVars, modules, registeredExternalApps, slot, name, op, scanVars>>

\* CFE_ES_CleanUpApp, first part: each service forgets the application.
CleanUpService(v) ==
  /\ pc["bg"] = v
  /\ held' = [held EXCEPT ![v][scan.at] = "no"]
  /\ Goto("bg", Stages[Stage(v) + 1])
  /\ UNCHANGED <<app, taskVars, modules, registeredExternalApps, slot, name, op, scanVars>>

\* Second part, under the lock: child tasks, main task, module, record.  A
\* module that cannot be unloaded makes the clean-up fail.
CleanUpES ==
  /\ pc["bg"] = "kill" /\ LockFree
  /\ LET s == scan.at
         children == {t \in Tasks : taskApp[t] = s} \ {app[s].main}
         ended == children \cup {app[s].main}
     IN /\ taskApp' = [t \in Tasks |-> IF t \in ended THEN NoSlot ELSE taskApp[t]]
        /\ parked' = parked \ ended
        /\ registeredTasks' = registeredTasks - Cardinality(children) - 1
        /\ registeredExternalApps' = registeredExternalApps - 1
        /\ app' = [app EXCEPT ![s] = EmptyRecord]
        /\ \/ /\ modules' = modules \ {app[s].name}
              /\ op["bg"] \in {"SYS_RESTART", "SYS_RELOAD"}
              /\ Goto("bg", "reserve")
              /\ UNCHANGED <<slot, name, op>>
           \/ /\ modules' = modules \ {app[s].name}
              /\ op["bg"] \notin {"SYS_RESTART", "SYS_RELOAD"}
              /\ Return("bg")
           \/ UNCHANGED modules /\ Return("bg")
  /\ scan' = [scan EXCEPT !.at = @ + 1]
  /\ UNCHANGED <<held, newCommand, commands>>

-----------------------------------------------------------------------------
(* Next. *)

Create(p) == Reserve(p) \/ LoadModule(p) \/ ReleaseSlot(p) \/ UnloadModule(p) \/ Fill(p)

Command ==
  \/ \E n \in Names : StartAppCmd(n) \/ \E r \in Commands : ControlAppCmd(n, r)
  \/ GetAppIDByName \/ ControlApp \/ Create("cmd")

AppTask(t) ==
  \/ RunLoop(t) \/ CreateChildTask(t) \/ ExitChildTask(t)
  \/ \E status \in ExitStatuses : ExitApp(t, status)
  \/ \E u \in Tasks : DeleteChildTask(t, u)
  \/ \E v \in Used : Acquire(t, v)

Background ==
  \/ \E e \in ElapsedTimes : StartScan(e)
  \/ Lock \/ ScanSlot \/ EndScan \/ ProcessControlRequest
  \/ \E v \in Services : CleanUpService(v)
  \/ CleanUpES \/ Create("bg")

Next == Command \/ Background \/ \E t \in Tasks : AppTask(t)

Spec == Init /\ [][Next]_vars /\ WF_vars(Background)

-----------------------------------------------------------------------------
(* Properties. *)

AppTypes ==
  app \in [Slots -> AppRecord] /\ modules \subseteq Names /\ registeredExternalApps \in Int
TaskTypes ==
  taskApp \in [Tasks -> Slots \cup {NoSlot}] /\ parked \subseteq Tasks /\ registeredTasks \in Int
HeldTypes == held \in [Services -> [Slots -> {"no", "yes", "late"}]]
PlaceTypes ==
  /\ pc \in [Creators -> BgPlaces \cup CmdPlaces] /\ pc["bg"] \in BgPlaces /\ pc["cmd"] \in CmdPlaces
  /\ slot \in [Creators -> Slots \cup {NoSlot}]
  /\ name \in [Creators -> Names \cup {NoName}]
  /\ op \in [Creators -> Requests]
ScanTypes ==
  /\ scan \in [timer : Nat, pending : BOOLEAN, at : Nat, elapsed : Nat]
  /\ commands \in 0 .. MaxCommands

\* Every variable has its type.
TypeOK ==
  /\ AppTypes /\ TaskTypes /\ HeldTypes /\ PlaceTypes /\ ScanTypes
  /\ newCommand \in BOOLEAN

Started(s) == app[s].state # "UNDEFINED" /\ app[s].external

\* A slot that p has reserved and not yet filled or released.
Reserved(p, s) ==
  pc[p] \in {"load", "fill", "release", "releaseUnload"} /\ slot[p] = s

\* Every task belongs to an application that is there, and an application's
\* main task is its own: no task outlives its application or changes hands.
TaskOwnership ==
  /\ \A t \in Tasks : taskApp[t] # NoSlot => Started(taskApp[t])
  /\ \A s \in Slots : Started(s) => app[s].main \in Tasks /\ taskApp[app[s].main] = s
  /\ \A t \in parked : taskApp[t] # NoSlot

\* A slot under construction belongs to the one that reserved it.
SlotOwnership ==
  \A s \in Slots :
    /\ \A p \in Creators : Reserved(p, s) => app[s].state # "UNDEFINED" /\ ~app[s].external
    /\ ~(Reserved("cmd", s) /\ Reserved("bg", s))

LiveTasks == {t \in Tasks : taskApp[t] # NoSlot}
LiveApps == {s \in Slots : Started(s)}

\* Telemetry counts the tasks and the applications there are
\* (es/cfe_es_apps.c, RegisteredTasks and RegisteredExternalApps).
CountsExact ==
  /\ registeredTasks = Cardinality(LiveTasks)
  /\ registeredExternalApps = Cardinality(LiveApps)

\* Commands name applications, CFE_ES_AppCreate does not compare names: that
\* two applications never share one is left to the module table of OSAL, which
\* refuses a name that is loaded.
NamesUnique ==
  \A r, s \in Slots : Started(r) /\ Started(s) /\ app[r].name = app[s].name => r = s

\* The request and the name that ProcessControlRequest copied without the lock
\* are still those of the record while the services clean up: nobody's request
\* is accepted meanwhile and then forgotten.
CopyStaysCurrent ==
  pc["bg"] \in Services \cup {"kill"}
    => /\ Started(scan.at) /\ app[scan.at].state \in {"WAITING", "STOPPED"}
       /\ app[scan.at].request = op["bg"] /\ app[scan.at].name = name["bg"]

\* What a service still keeps for a slot without an application was registered
\* by a task that ran on after the service had cleaned up.
OnlyLateSurvives ==
  \A s \in Slots, v \in Services :
    held[v][s] = "yes" => Started(s)

\* What the command task and the background task know at each place of a call.
PlacesInv ==
  /\ \A p \in Creators :
       /\ pc[p] \in CreatePlaces => name[p] \in Names
       /\ pc[p] \in {"load", "fill", "release", "releaseUnload"} => slot[p] \in Slots
  /\ pc["cmd"] = "act" => slot["cmd"] \in Slots
  /\ pc["cmd"] \in {"find", "act"} => op["cmd"] \in SysRequests
  /\ pc["bg"] \in Services \cup {"request", "kill"} =>
       scan.at \in Slots /\ Started(scan.at) /\ app[scan.at].state \in {"WAITING", "STOPPED"}
  /\ pc["bg"] \in Services \cup {"kill"} => op["bg"] \notin {"UNDEFINED", "APP_RUN"}

\* A creator that has loaded a module and not yet used or unloaded it.
HasModule(p) == pc[p] \in {"fill", "releaseUnload", "unload"}

\* Every module has one user at most, a creator or an application, and is
\* loaded as long as it has.
ModulesInv ==
  /\ \A s \in Slots : Started(s) => app[s].name \in modules
  /\ \A p \in Creators : HasModule(p) => name[p] \in modules
  /\ \A p \in Creators, s \in Slots :
       HasModule(p) /\ Started(s) => app[s].name # name[p]
  /\ HasModule("cmd") /\ HasModule("bg") => name["cmd"] # name["bg"]

CleanedInv ==
  \A s \in Slots, v \in Services : Cleaned(v, s) => held[v][s] # "yes"

\* The inductive invariant: tasks, slots, modules and the counts agree, whoever
\* creates and whoever ends what in which order.  Unique names rest on who uses
\* a module, the current copy on the places of the background task.
LifecycleInv ==
  /\ TypeOK /\ TaskOwnership /\ SlotOwnership /\ CountsExact
  /\ PlacesInv /\ CopyStaysCurrent
  /\ ModulesInv /\ NamesUnique
  /\ CleanedInv /\ OnlyLateSurvives

\* An application that is being ended never runs again in its record: neither
\* RunLoop nor a late command brings it back (AppState only grows).
NoResurrection ==
  [][\A s \in Slots :
       app[s].state \in {"WAITING", "STOPPED"}
         => app'[s].state \in {app[s].state, "STOPPED", "UNDEFINED"}]_vars

\* What the ground asked for stays asked for until the application is removed:
\* the status of its own exit does not replace it (es/cfe_es_api.c:340-353).
RequestSurvivesExit ==
  [][\A s \in Slots :
       Started(s) /\ app[s].request \in SysRequests
         => app'[s].request \in SysRequests \/ app'[s].state = "UNDEFINED"]_vars

\* An application that is asked to end, or ends by itself, is removed, whatever
\* its tasks do.
EndIsServed ==
  \A s \in Slots :
    (Started(s) /\ (app[s].state = "STOPPED" \/ app[s].request \in SysRequests))
      ~> app[s].state = "UNDEFINED"

=============================================================================
