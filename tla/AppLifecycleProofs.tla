------------------------- MODULE AppLifecycleProofs -------------------------
(***************************************************************************)
(* Proofs about the life of an application: the inductive invariant        *)
(* LifecycleInv, and what follows from it, for any number of applications, *)
(* tasks and commands.  Every action has a lemma.  Most of them leave the  *)
(* set of applications and of tasks alone, and for these SameCounts and    *)
(* the frame of the action are enough.                                     *)
(***************************************************************************)
EXTENDS AppLifecycle, FiniteSetTheorems, TLAPS

\* The order of the clean-up stages.
LEMMA StageOrder ==
  /\ Stage("TBL") = 1 /\ Stage("SB") = 2 /\ Stage("TIME") = 3 /\ Stage("EVS") = 4
  /\ Stage("kill") = 5
  /\ \A v \in Services : Stage(v) \in 1 .. 4 /\ Stages[Stage(v)] = v
PROOF
  <1>1. /\ Stages[1] = "TBL" /\ Stages[2] = "SB" /\ Stages[3] = "TIME" /\ Stages[4] = "EVS"
        /\ Stages[5] = "kill"
    BY DEF Stages
  <1>2. \A n \in 1 .. 5 : n = 1 \/ n = 2 \/ n = 3 \/ n = 4 \/ n = 5
    OBVIOUS
  <1>3. Stage("TBL") = 1 /\ Stage("SB") = 2 /\ Stage("TIME") = 3 /\ Stage("EVS") = 4
          /\ Stage("kill") = 5
    BY <1>1, <1>2 DEF Stage
  <1>. QED BY <1>1, <1>3 DEF Services

\* A service has been passed by the clean-up at later stages only.
LEMMA StagesAfter ==
  \A v \in Services : \A n \in Stage(v) + 1 .. 5 : Stages[n] \in {"SB", "TIME", "EVS", "kill"}
PROOF
  <1>1. \A n \in 1 .. 5 : n = 1 \/ n = 2 \/ n = 3 \/ n = 4 \/ n = 5
    OBVIOUS
  <1>2. \A n \in 2 .. 5 : Stages[n] \in {"SB", "TIME", "EVS", "kill"}
    BY <1>1 DEF Stages
  <1>3. \A v \in Services : Stage(v) \in 1 .. 4
    BY StageOrder
  <1>4. \A v \in Services : \A n \in Stage(v) + 1 .. 5 : n \in 2 .. 5
    BY <1>3
  <1>. QED BY <1>2, <1>4

\* The sets that are counted are finite.
LEMMA CountedFinite == IsFiniteSet(LiveTasks) /\ IsFiniteSet(LiveApps)
PROOF
  <1>1. IsFiniteSet(LiveTasks)
    BY TasksAssumption, FS_Subset DEF LiveTasks
  <1>2. IsFiniteSet(Slots)
    BY SizesAssumption, FS_Interval DEF Slots
  <1>3. IsFiniteSet(LiveApps)
    BY <1>2, FS_Subset DEF LiveApps
  <1>. QED BY <1>1, <1>3

LEMMA InitInv == Init => LifecycleInv
PROOF
  <1>. SUFFICES ASSUME Init PROVE LifecycleInv
    OBVIOUS
  <1>1. LiveTasks = {} /\ LiveApps = {}
    BY DEF Init, LiveTasks, LiveApps, Started, EmptyRecord
  <1>2. CountsExact
    BY <1>1, FS_EmptySet DEF CountsExact, Init
  <1>3. TypeOK
    <2>1. EmptyRecord \in AppRecord
      BY DEF EmptyRecord, AppRecord, States, Requests
    <2>2. app \in [Slots -> AppRecord] /\ taskApp \in [Tasks -> Slots \cup {NoSlot}]
      BY <2>1 DEF Init
    <2>3. held \in [Services -> [Slots -> {"no", "yes", "late"}]]
      BY DEF Init
    <2>4. /\ pc \in [Creators -> BgPlaces \cup CmdPlaces]
          /\ pc["bg"] \in BgPlaces /\ pc["cmd"] \in CmdPlaces
      BY DEF Init, Creators, BgPlaces, CmdPlaces
    <2>5. /\ slot \in [Creators -> Slots \cup {NoSlot}]
          /\ name \in [Creators -> Names \cup {NoName}] /\ op \in [Creators -> Requests]
      BY DEF Init, Requests
    <2>6. /\ parked \subseteq Tasks /\ modules \subseteq Names
          /\ registeredTasks \in Int /\ registeredExternalApps \in Int
          /\ commands \in 0 .. MaxCommands
      BY SizesAssumption DEF Init
    <2>7. scan \in [timer : Nat, pending : BOOLEAN, at : Nat, elapsed : Nat]
      BY SizesAssumption DEF Init
    <2>8. newCommand \in BOOLEAN
      BY DEF Init
    <2>. QED BY <2>2, <2>3, <2>4, <2>5, <2>6, <2>7, <2>8
        DEF TypeOK, AppTypes, TaskTypes, HeldTypes, PlaceTypes, ScanTypes
  <1>4. TaskOwnership /\ SlotOwnership /\ OnlyLateSurvives /\ NamesUnique
    BY DEF Init, TaskOwnership, SlotOwnership, OnlyLateSurvives, NamesUnique, Started,
           Reserved, EmptyRecord, Creators
  <1>5. PlacesInv /\ CopyStaysCurrent /\ ModulesInv
    BY DEF Init, PlacesInv, CopyStaysCurrent, ModulesInv, HasModule, Started, EmptyRecord,
           Creators, Services, CreatePlaces
  <1>6. CleanedInv
    BY DEF Init, CleanedInv
  <1>. QED BY <1>2, <1>3, <1>4, <1>5, <1>6 DEF LifecycleInv

-----------------------------------------------------------------------------
(* What most actions leave as it is. *)

SameApps ==
  \A s \in Slots :
    /\ app'[s].state = "UNDEFINED" <=> app[s].state = "UNDEFINED"
    /\ app'[s].external = app[s].external
    /\ app'[s].name = app[s].name /\ app'[s].main = app[s].main

SameTasks == UNCHANGED <<taskApp, registeredTasks, registeredExternalApps, modules>>

\* The same applications with the same tasks are owned and counted as before.
LEMMA KeepsApps ==
  ASSUME LifecycleInv, SameApps, SameTasks,
         \A t \in parked' : t \in parked \/ taskApp[t] # NoSlot
  PROVE  /\ TaskOwnership' /\ CountsExact' /\ NamesUnique'
         /\ \A s \in Slots : Started(s)' <=> Started(s)
PROOF
  <1>1. \A s \in Slots : Started(s)' <=> Started(s)
    BY DEF SameApps, Started
  <1>2. TaskOwnership'
    <2>1. \A t \in Tasks : taskApp[t] # NoSlot => taskApp[t] \in Slots
      BY DEF LifecycleInv, TypeOK, TaskTypes
    <2>. QED BY <1>1, <2>1 DEF LifecycleInv, TaskOwnership, SameApps, SameTasks
  <1>3. CountsExact'
    <2>1. LiveTasks' = LiveTasks /\ LiveApps' = LiveApps
      BY <1>1 DEF LiveTasks, LiveApps, SameTasks
    <2>. QED BY <2>1 DEF LifecycleInv, CountsExact, SameTasks
  <1>4. NamesUnique'
    BY <1>1 DEF LifecycleInv, NamesUnique, SameApps
  <1>. QED BY <1>1, <1>2, <1>3, <1>4

-----------------------------------------------------------------------------
(* The command task. *)

LEMMA StartAppCmdStep ==
  ASSUME LifecycleInv, NEW n \in Names, StartAppCmd(n)
  PROVE  LifecycleInv'
PROOF
  <1>1. TypeOK'
    <2>1. AppTypes' /\ TaskTypes' /\ HeldTypes'
      BY DEF LifecycleInv, TypeOK, AppTypes, TaskTypes, HeldTypes, StartAppCmd, Goto, taskVars
    <2>2. PlaceTypes'
      BY DEF LifecycleInv, TypeOK, PlaceTypes, StartAppCmd, Goto, taskVars, CreatePlaces, CmdPlaces, Creators
    <2>3. ScanTypes'
      BY SizesAssumption DEF LifecycleInv, TypeOK, ScanTypes, StartAppCmd, Goto, taskVars
    <2>4. newCommand' \in BOOLEAN
      BY DEF LifecycleInv, TypeOK, StartAppCmd, Goto, taskVars
    <2>. QED BY <2>1, <2>2, <2>3, <2>4 DEF TypeOK
  <1>2. SameApps /\ SameTasks /\ \A t \in parked' : t \in parked \/ taskApp[t] # NoSlot
    BY DEF StartAppCmd, Goto, taskVars, SameApps, SameTasks
  <1>3. /\ TaskOwnership' /\ CountsExact' /\ NamesUnique'
        /\ \A s \in Slots : Started(s)' <=> Started(s)
    BY <1>2, KeepsApps
  <1>4. SlotOwnership'
    BY <1>2, <1>3 DEF LifecycleInv, SlotOwnership, Reserved, SameApps, StartAppCmd, Goto, taskVars, Creators,
           TypeOK, PlaceTypes
  <1>5. PlacesInv' /\ CopyStaysCurrent'
    BY <1>2, <1>3 DEF LifecycleInv, PlacesInv, CopyStaysCurrent, SameApps, StartAppCmd, Goto, taskVars, Creators,
           CreatePlaces, Services, TypeOK, PlaceTypes
  <1>6. ModulesInv'
    BY <1>2, <1>3 DEF LifecycleInv, ModulesInv, HasModule, SameApps, SameTasks, StartAppCmd, Goto, taskVars, Creators,
           TypeOK, PlaceTypes
  <1>7. CleanedInv' /\ OnlyLateSurvives'
    BY <1>2, <1>3, StagesAfter
    DEF LifecycleInv, CleanedInv, OnlyLateSurvives, Cleaned, StartAppCmd, Goto, taskVars, Creators,
        TypeOK, PlaceTypes
  <1>. QED BY <1>1, <1>3, <1>4, <1>5, <1>6, <1>7 DEF LifecycleInv

LEMMA ControlAppCmdStep ==
  ASSUME LifecycleInv, NEW n \in Names, NEW r \in Commands,
         ControlAppCmd(n, r)
  PROVE  LifecycleInv'
PROOF
  <1>1. TypeOK'
    <2>1. AppTypes' /\ TaskTypes' /\ HeldTypes'
      BY DEF LifecycleInv, TypeOK, AppTypes, TaskTypes, HeldTypes, ControlAppCmd, Goto, taskVars
    <2>2. PlaceTypes'
      BY RequestsAssumption DEF LifecycleInv, TypeOK, PlaceTypes, ControlAppCmd, Goto, taskVars, CreatePlaces, CmdPlaces, Creators, Requests
    <2>3. ScanTypes'
      BY SizesAssumption DEF LifecycleInv, TypeOK, ScanTypes, ControlAppCmd, Goto, taskVars
    <2>4. newCommand' \in BOOLEAN
      BY DEF LifecycleInv, TypeOK, ControlAppCmd, Goto, taskVars
    <2>. QED BY <2>1, <2>2, <2>3, <2>4 DEF TypeOK
  <1>2. SameApps /\ SameTasks /\ \A t \in parked' : t \in parked \/ taskApp[t] # NoSlot
    BY DEF ControlAppCmd, Goto, taskVars, SameApps, SameTasks
  <1>3. /\ TaskOwnership' /\ CountsExact' /\ NamesUnique'
        /\ \A s \in Slots : Started(s)' <=> Started(s)
    BY <1>2, KeepsApps
  <1>4. SlotOwnership'
    BY <1>2, <1>3 DEF LifecycleInv, SlotOwnership, Reserved, SameApps, ControlAppCmd, Goto, taskVars, Creators,
           TypeOK, PlaceTypes
  <1>5. PlacesInv' /\ CopyStaysCurrent'
    BY <1>2, <1>3, RequestsAssumption
    DEF LifecycleInv, PlacesInv, CopyStaysCurrent, SameApps, ControlAppCmd, Goto, taskVars, Creators,
           CreatePlaces, Services, TypeOK, PlaceTypes
  <1>6. ModulesInv'
    BY <1>2, <1>3 DEF LifecycleInv, ModulesInv, HasModule, SameApps, SameTasks, ControlAppCmd, Goto, taskVars, Creators,
           TypeOK, PlaceTypes
  <1>7. CleanedInv' /\ OnlyLateSurvives'
    BY <1>2, <1>3, StagesAfter
    DEF LifecycleInv, CleanedInv, OnlyLateSurvives, Cleaned, ControlAppCmd, Goto, taskVars, Creators,
        TypeOK, PlaceTypes
  <1>. QED BY <1>1, <1>3, <1>4, <1>5, <1>6, <1>7 DEF LifecycleInv

LEMMA GetAppIDByNameStep ==
  ASSUME LifecycleInv, GetAppIDByName
  PROVE  LifecycleInv'
PROOF
  <1>1. TypeOK'
    <2>1. AppTypes' /\ TaskTypes' /\ HeldTypes' /\ ScanTypes'
      BY DEF LifecycleInv, TypeOK, AppTypes, TaskTypes, HeldTypes, ScanTypes, GetAppIDByName, Goto, Return, taskVars, scanVars
    <2>2. PlaceTypes'
      BY DEF LifecycleInv, TypeOK, PlaceTypes, GetAppIDByName, Goto, Return, taskVars, scanVars, CmdPlaces, Creators, Requests
    <2>3. newCommand' \in BOOLEAN
      BY DEF LifecycleInv, TypeOK, GetAppIDByName, Goto, Return, taskVars, scanVars
    <2>. QED BY <2>1, <2>2, <2>3 DEF TypeOK
  <1>2. SameApps /\ SameTasks /\ \A t \in parked' : t \in parked \/ taskApp[t] # NoSlot
    BY DEF GetAppIDByName, Goto, Return, taskVars, scanVars, SameApps, SameTasks
  <1>3. /\ TaskOwnership' /\ CountsExact' /\ NamesUnique'
        /\ \A s \in Slots : Started(s)' <=> Started(s)
    BY <1>2, KeepsApps
  <1>4. SlotOwnership'
    BY <1>2, <1>3 DEF LifecycleInv, SlotOwnership, Reserved, SameApps, GetAppIDByName, Goto, Return, taskVars, scanVars, Creators,
           TypeOK, PlaceTypes
  <1>5. PlacesInv' /\ CopyStaysCurrent'
    BY <1>2, <1>3 DEF LifecycleInv, PlacesInv, CopyStaysCurrent, SameApps, GetAppIDByName, Goto, Return, taskVars, scanVars, Creators,
           CreatePlaces, Services, TypeOK, PlaceTypes
  <1>6. ModulesInv'
    BY <1>2, <1>3 DEF LifecycleInv, ModulesInv, HasModule, SameApps, SameTasks, GetAppIDByName, Goto, Return, taskVars, scanVars, Creators,
           TypeOK, PlaceTypes
  <1>7. CleanedInv' /\ OnlyLateSurvives'
    BY <1>2, <1>3, StagesAfter
    DEF LifecycleInv, CleanedInv, OnlyLateSurvives, Cleaned, GetAppIDByName, Goto, Return, taskVars, scanVars, Creators,
        TypeOK, PlaceTypes
  <1>. QED BY <1>1, <1>3, <1>4, <1>5, <1>6, <1>7 DEF LifecycleInv

-----------------------------------------------------------------------------
(* The background task between applications. *)

LEMMA StartScanStep ==
  ASSUME LifecycleInv, NEW e \in ElapsedTimes, StartScan(e)
  PROVE  LifecycleInv'
PROOF
  <1>1. TypeOK'
    <2>1. AppTypes' /\ TaskTypes' /\ HeldTypes'
      BY DEF LifecycleInv, TypeOK, AppTypes, TaskTypes, HeldTypes, StartScan, Goto, taskVars
    <2>2. PlaceTypes'
      BY DEF LifecycleInv, TypeOK, PlaceTypes, StartScan, Goto, taskVars, BgPlaces, Creators
    <2>3. ScanTypes'
      <3>1. \/ scan.timer > e /\ scan' = [scan EXCEPT !.timer = @ - e]
            \/ scan' = [timer |-> ScanRate, pending |-> FALSE, at |-> 1, elapsed |-> e]
        BY DEF StartScan
      <3>2. e \in Nat /\ ScanRate \in Nat
        BY SizesAssumption, ElapsedAssumption
      <3>3. scan' \in [timer : Nat, pending : BOOLEAN, at : Nat, elapsed : Nat]
        <4>1. CASE scan' = [timer |-> ScanRate, pending |-> FALSE, at |-> 1, elapsed |-> e]
          BY <3>2, <4>1
        <4>2. CASE scan.timer > e /\ scan' = [scan EXCEPT !.timer = @ - e]
          <5>1. scan.timer \in Nat
            BY DEF LifecycleInv, TypeOK, ScanTypes
          <5>2. scan.timer - e \in Nat
            BY <3>2, <4>2, <5>1
          <5>. QED BY <4>2, <5>2 DEF LifecycleInv, TypeOK, ScanTypes
        <4>. QED BY <3>1, <4>1, <4>2
      <3>. QED BY <3>3 DEF LifecycleInv, TypeOK, ScanTypes, StartScan
    <2>4. newCommand' \in BOOLEAN
      BY DEF LifecycleInv, TypeOK, StartScan, Goto, taskVars
    <2>. QED BY <2>1, <2>2, <2>3, <2>4 DEF TypeOK
  <1>2. SameApps /\ SameTasks /\ \A t \in parked' : t \in parked \/ taskApp[t] # NoSlot
    BY DEF StartScan, Goto, taskVars, SameApps, SameTasks
  <1>3. /\ TaskOwnership' /\ CountsExact' /\ NamesUnique'
        /\ \A s \in Slots : Started(s)' <=> Started(s)
    BY <1>2, KeepsApps
  <1>4. SlotOwnership'
    BY <1>2, <1>3 DEF LifecycleInv, SlotOwnership, Reserved, SameApps, StartScan, Goto, taskVars, Creators,
           TypeOK, PlaceTypes
  <1>5. PlacesInv' /\ CopyStaysCurrent'
    BY <1>2, <1>3 DEF LifecycleInv, PlacesInv, CopyStaysCurrent, SameApps, StartScan, Goto, taskVars, Creators,
           CreatePlaces, Services, TypeOK, PlaceTypes
  <1>6. ModulesInv'
    BY <1>2, <1>3 DEF LifecycleInv, ModulesInv, HasModule, SameApps, SameTasks, StartScan, Goto, taskVars, Creators,
           TypeOK, PlaceTypes
  <1>7. CleanedInv' /\ OnlyLateSurvives'
    BY <1>2, <1>3, StagesAfter
    DEF LifecycleInv, CleanedInv, OnlyLateSurvives, Cleaned, StartScan, Goto, taskVars, Creators,
        TypeOK, PlaceTypes
  <1>. QED BY <1>1, <1>3, <1>4, <1>5, <1>6, <1>7 DEF LifecycleInv

LEMMA LockStep ==
  ASSUME LifecycleInv, Lock
  PROVE  LifecycleInv'
PROOF
  <1>1. TypeOK'
    <2>1. AppTypes' /\ TaskTypes' /\ HeldTypes' /\ ScanTypes'
      BY DEF LifecycleInv, TypeOK, AppTypes, TaskTypes, HeldTypes, ScanTypes, Lock, Goto, taskVars, scanVars
    <2>2. PlaceTypes'
      BY DEF LifecycleInv, TypeOK, PlaceTypes, Lock, Goto, taskVars, scanVars, BgPlaces, Creators
    <2>3. newCommand' \in BOOLEAN
      BY DEF LifecycleInv, TypeOK, Lock, Goto, taskVars, scanVars
    <2>. QED BY <2>1, <2>2, <2>3 DEF TypeOK
  <1>2. SameApps /\ SameTasks /\ \A t \in parked' : t \in parked \/ taskApp[t] # NoSlot
    BY DEF Lock, Goto, taskVars, scanVars, SameApps, SameTasks
  <1>3. /\ TaskOwnership' /\ CountsExact' /\ NamesUnique'
        /\ \A s \in Slots : Started(s)' <=> Started(s)
    BY <1>2, KeepsApps
  <1>4. SlotOwnership'
    BY <1>2, <1>3 DEF LifecycleInv, SlotOwnership, Reserved, SameApps, Lock, Goto, taskVars, scanVars, Creators,
           TypeOK, PlaceTypes
  <1>5. PlacesInv' /\ CopyStaysCurrent'
    BY <1>2, <1>3 DEF LifecycleInv, PlacesInv, CopyStaysCurrent, SameApps, Lock, Goto, taskVars, scanVars, Creators,
           CreatePlaces, Services, TypeOK, PlaceTypes
  <1>6. ModulesInv'
    BY <1>2, <1>3 DEF LifecycleInv, ModulesInv, HasModule, SameApps, SameTasks, Lock, Goto, taskVars, scanVars, Creators,
           TypeOK, PlaceTypes
  <1>7. CleanedInv' /\ OnlyLateSurvives'
    BY <1>2, <1>3, StagesAfter
    DEF LifecycleInv, CleanedInv, OnlyLateSurvives, Cleaned, Lock, Goto, taskVars, scanVars, Creators,
        TypeOK, PlaceTypes
  <1>. QED BY <1>1, <1>3, <1>4, <1>5, <1>6, <1>7 DEF LifecycleInv

LEMMA EndScanStep ==
  ASSUME LifecycleInv, EndScan
  PROVE  LifecycleInv'
PROOF
  <1>1. TypeOK'
    <2>1. AppTypes' /\ TaskTypes' /\ HeldTypes' /\ ScanTypes'
      BY DEF LifecycleInv, TypeOK, AppTypes, TaskTypes, HeldTypes, ScanTypes, EndScan, Goto, taskVars, scanVars
    <2>2. PlaceTypes'
      BY DEF LifecycleInv, TypeOK, PlaceTypes, EndScan, Goto, taskVars, scanVars, BgPlaces, Creators
    <2>3. newCommand' \in BOOLEAN
      BY DEF LifecycleInv, TypeOK, EndScan, Goto, taskVars, scanVars
    <2>. QED BY <2>1, <2>2, <2>3 DEF TypeOK
  <1>2. SameApps /\ SameTasks /\ \A t \in parked' : t \in parked \/ taskApp[t] # NoSlot
    BY DEF EndScan, Goto, taskVars, scanVars, SameApps, SameTasks
  <1>3. /\ TaskOwnership' /\ CountsExact' /\ NamesUnique'
        /\ \A s \in Slots : Started(s)' <=> Started(s)
    BY <1>2, KeepsApps
  <1>4. SlotOwnership'
    BY <1>2, <1>3 DEF LifecycleInv, SlotOwnership, Reserved, SameApps, EndScan, Goto, taskVars, scanVars, Creators,
           TypeOK, PlaceTypes
  <1>5. PlacesInv' /\ CopyStaysCurrent'
    BY <1>2, <1>3 DEF LifecycleInv, PlacesInv, CopyStaysCurrent, SameApps, EndScan, Goto, taskVars, scanVars, Creators,
           CreatePlaces, Services, TypeOK, PlaceTypes
  <1>6. ModulesInv'
    BY <1>2, <1>3 DEF LifecycleInv, ModulesInv, HasModule, SameApps, SameTasks, EndScan, Goto, taskVars, scanVars, Creators,
           TypeOK, PlaceTypes
  <1>7. CleanedInv' /\ OnlyLateSurvives'
    BY <1>2, <1>3, StagesAfter
    DEF LifecycleInv, CleanedInv, OnlyLateSurvives, Cleaned, EndScan, Goto, taskVars, scanVars, Creators,
        TypeOK, PlaceTypes
  <1>. QED BY <1>1, <1>3, <1>4, <1>5, <1>6, <1>7 DEF LifecycleInv

-----------------------------------------------------------------------------
(* What changes the record of an application, its tasks running on. *)

LEMMA ControlAppStep ==
  ASSUME LifecycleInv, ControlApp
  PROVE  LifecycleInv'
PROOF
  <1>. DEFINE s == slot["cmd"]
  <1>1. /\ s \in Slots /\ op["cmd"] \in SysRequests
        /\ \/ app[s].state = "RUNNING" /\ app' = [app EXCEPT ![s].request = op["cmd"]]
           \/ app' = app
    BY DEF LifecycleInv, PlacesInv, ControlApp
  <1>2. \A r \in Slots : /\ app'[r].state = app[r].state
                         /\ app'[r].request \in {app[r].request, op["cmd"]}
                         /\ app'[r].request # app[r].request => app[r].state = "RUNNING"
    BY <1>1 DEF LifecycleInv, TypeOK, AppTypes, AppRecord
  <1>3. SameApps /\ SameTasks /\ parked' = parked
    BY <1>1 DEF LifecycleInv, TypeOK, AppTypes, AppRecord, SameApps, SameTasks, ControlApp, taskVars
  <1>4. TypeOK'
    <2>1. AppTypes'
      BY <1>1 DEF LifecycleInv, TypeOK, AppTypes, AppRecord, Requests, ControlApp
    <2>2. TaskTypes' /\ HeldTypes' /\ ScanTypes'
      BY DEF LifecycleInv, TypeOK, TaskTypes, HeldTypes, ScanTypes, ControlApp, taskVars
    <2>3. PlaceTypes'
      BY DEF LifecycleInv, TypeOK, PlaceTypes, ControlApp, Goto, Return, CmdPlaces, Creators, Requests
    <2>4. newCommand' \in BOOLEAN
      BY DEF LifecycleInv, TypeOK, ControlApp
    <2>. QED BY <2>1, <2>2, <2>3, <2>4 DEF TypeOK
  <1>5. /\ TaskOwnership' /\ CountsExact' /\ NamesUnique'
        /\ \A r \in Slots : Started(r)' <=> Started(r)
    BY <1>3, KeepsApps
  <1>6. SlotOwnership'
    BY <1>2, <1>3, <1>5 DEF LifecycleInv, SlotOwnership, Reserved, SameApps, ControlApp, Goto, Return,
           Creators, TypeOK, PlaceTypes
  <1>7. PlacesInv' /\ CopyStaysCurrent'
    BY <1>2, <1>3, <1>5 DEF LifecycleInv, PlacesInv, CopyStaysCurrent, SameApps, ControlApp, Goto, Return,
           Creators, CreatePlaces, Services, TypeOK, PlaceTypes
  <1>8. ModulesInv'
    BY <1>3, <1>5 DEF LifecycleInv, ModulesInv, HasModule, SameApps, SameTasks, ControlApp, Goto, Return,
           Creators, TypeOK, PlaceTypes
  <1>9. CleanedInv' /\ OnlyLateSurvives'
    BY <1>5, StagesAfter
    DEF LifecycleInv, CleanedInv, OnlyLateSurvives, Cleaned, ControlApp, Goto, Return, Creators,
        TypeOK, PlaceTypes
  <1>. QED BY <1>4, <1>5, <1>6, <1>7, <1>8, <1>9 DEF LifecycleInv

LEMMA RunLoopStep ==
  ASSUME LifecycleInv, NEW t \in Tasks, RunLoop(t)
  PROVE  LifecycleInv'
PROOF
  <1>. DEFINE s == taskApp[t]
  <1>. USE DEF taskVars, procVars, scanVars
  <1>1. /\ s \in Slots /\ app[s].state = "EARLY_INIT"
        /\ app' = [app EXCEPT ![s].state = "RUNNING"]
    BY DEF LifecycleInv, TypeOK, TaskTypes, RunLoop, Runs
  <1>2. \A r \in Slots : /\ app'[r].request = app[r].request
                         /\ app[r].state # "EARLY_INIT" => app'[r].state = app[r].state
                         /\ app[r].state = "EARLY_INIT" => app'[r].state \in {"EARLY_INIT", "RUNNING"}
    BY <1>1 DEF LifecycleInv, TypeOK, AppTypes, AppRecord
  <1>3. SameApps /\ SameTasks /\ parked' = parked
    BY <1>1 DEF LifecycleInv, TypeOK, AppTypes, AppRecord, SameApps, SameTasks, RunLoop
  <1>4. TypeOK'
    <2>1. AppTypes'
      BY <1>1 DEF LifecycleInv, TypeOK, AppTypes, AppRecord, States, RunLoop
    <2>2. TaskTypes' /\ HeldTypes' /\ ScanTypes' /\ PlaceTypes'
      BY DEF LifecycleInv, TypeOK, TaskTypes, HeldTypes, ScanTypes, PlaceTypes, RunLoop
    <2>3. newCommand' \in BOOLEAN
      BY DEF LifecycleInv, TypeOK, RunLoop
    <2>. QED BY <2>1, <2>2, <2>3 DEF TypeOK
  <1>5. /\ TaskOwnership' /\ CountsExact' /\ NamesUnique'
        /\ \A r \in Slots : Started(r)' <=> Started(r)
    BY <1>3, KeepsApps
  <1>6. SlotOwnership'
    BY <1>2, <1>3, <1>5 DEF LifecycleInv, SlotOwnership, Reserved, SameApps, RunLoop
  <1>7. PlacesInv' /\ CopyStaysCurrent'
    BY <1>2, <1>3, <1>5 DEF LifecycleInv, PlacesInv, CopyStaysCurrent, SameApps, RunLoop
  <1>8. ModulesInv'
    BY <1>3, <1>5 DEF LifecycleInv, ModulesInv, HasModule, SameApps, SameTasks, RunLoop
  <1>9. CleanedInv' /\ OnlyLateSurvives'
    BY <1>5 DEF LifecycleInv, CleanedInv, OnlyLateSurvives, Cleaned, RunLoop
  <1>. QED BY <1>4, <1>5, <1>6, <1>7, <1>8, <1>9 DEF LifecycleInv

LEMMA ExitAppStep ==
  ASSUME LifecycleInv, NEW t \in Tasks, NEW status \in ExitStatuses, ExitApp(t, status)
  PROVE  LifecycleInv'
PROOF
  <1>. DEFINE s == taskApp[t]
  <1>. USE DEF taskVars, procVars, scanVars
  <1>1. /\ s \in Slots /\ status \in Requests
        /\ app' = [app EXCEPT ![s].state = "STOPPED",
                              ![s].request = IF @ = "APP_RUN" THEN status ELSE @]
    BY RequestsAssumption DEF LifecycleInv, TypeOK, TaskTypes, ExitApp, Runs
  <1>2. Started(s) /\ app[s].state # "UNDEFINED"
    BY <1>1 DEF LifecycleInv, TaskOwnership, Started, ExitApp, Runs
  <1>. DEFINE request == IF app[s].request = "APP_RUN" THEN status ELSE app[s].request
  <1>3. app[s] \in AppRecord /\ request \in Requests
    BY <1>1 DEF LifecycleInv, TypeOK, AppTypes, AppRecord
  <1>4. app' = [app EXCEPT ![s] = [app[s] EXCEPT !.state = "STOPPED", !.request = request]]
    BY <1>1
  <1>5. /\ app'[s].state = "STOPPED" /\ app'[s].request = request
        /\ app'[s] \in AppRecord
        /\ \A r \in Slots \ {s} : app'[r] = app[r]
    <2>. HIDE DEF request
    <2>1. /\ app'[s] = [app[s] EXCEPT !.state = "STOPPED", !.request = request]
          /\ \A r \in Slots \ {s} : app'[r] = app[r]
      BY <1>1, <1>4 DEF LifecycleInv, TypeOK, AppTypes
    <2>2. [app[s] EXCEPT !.state = "STOPPED", !.request = request] \in AppRecord
      BY <1>3 DEF AppRecord, States
    <2>3. app'[s].state = "STOPPED" /\ app'[s].request = request
      BY <1>3, <2>1 DEF AppRecord
    <2>. QED BY <2>1, <2>2, <2>3
  <1>6. \A r \in Slots : /\ app'[r].state \in {app[r].state, "STOPPED"}
                         /\ app[r].request # "APP_RUN" => app'[r].request = app[r].request
                         /\ app'[r].request \in {app[r].request, status}
    BY <1>1, <1>5
  <1>7. SameApps
    BY <1>1, <1>2 DEF LifecycleInv, TypeOK, AppTypes, AppRecord, SameApps
  <1>8. SameTasks /\ \A u \in parked' : u \in parked \/ taskApp[u] # NoSlot
    BY DEF SameTasks, ExitApp, Runs
  <1>9. TypeOK'
    <2>1. AppTypes'
      BY <1>1, <1>4, <1>5 DEF LifecycleInv, TypeOK, AppTypes, ExitApp
    <2>2. TaskTypes' /\ HeldTypes' /\ ScanTypes' /\ PlaceTypes'
      BY DEF LifecycleInv, TypeOK, TaskTypes, HeldTypes, ScanTypes, PlaceTypes, ExitApp
    <2>3. newCommand' \in BOOLEAN
      BY DEF LifecycleInv, TypeOK, ExitApp
    <2>. QED BY <2>1, <2>2, <2>3 DEF TypeOK
  <1>10. /\ TaskOwnership' /\ CountsExact' /\ NamesUnique'
        /\ \A r \in Slots : Started(r)' <=> Started(r)
    BY <1>7, <1>8, KeepsApps
  <1>11. SlotOwnership'
    BY <1>7, <1>10 DEF LifecycleInv, SlotOwnership, Reserved, SameApps, ExitApp
  <1>12. PlacesInv' /\ CopyStaysCurrent'
    <2>1. PlacesInv'
      BY <1>6, <1>10 DEF LifecycleInv, PlacesInv, ExitApp
    <2>2. CopyStaysCurrent'
      <3>. SUFFICES ASSUME pc["bg"] \in Services \cup {"kill"}
                    PROVE  /\ Started(scan.at)' /\ app'[scan.at].state \in {"WAITING", "STOPPED"}
                           /\ app'[scan.at].request = op["bg"] /\ app'[scan.at].name = name["bg"]
        BY DEF CopyStaysCurrent, ExitApp
      <3>1. /\ scan.at \in Slots /\ Started(scan.at)
            /\ app[scan.at].state \in {"WAITING", "STOPPED"} /\ op["bg"] # "APP_RUN"
            /\ app[scan.at].request = op["bg"] /\ app[scan.at].name = name["bg"]
        BY DEF LifecycleInv, PlacesInv, CopyStaysCurrent
      <3>2. Started(scan.at)'
        BY <1>10, <3>1 DEF ExitApp, Started
      <3>. QED BY <1>6, <1>7, <3>1, <3>2 DEF SameApps
    <2>. QED BY <2>1, <2>2
  <1>13. ModulesInv'
    BY <1>7, <1>8, <1>10 DEF LifecycleInv, ModulesInv, HasModule, SameApps, SameTasks, ExitApp
  <1>14. CleanedInv' /\ OnlyLateSurvives'
    BY <1>10 DEF LifecycleInv, CleanedInv, OnlyLateSurvives, Cleaned, ExitApp
  <1>. QED BY <1>9, <1>10, <1>11, <1>12, <1>13, <1>14 DEF LifecycleInv

LEMMA ProcessControlRequestStep ==
  ASSUME LifecycleInv, ProcessControlRequest
  PROVE  LifecycleInv'
PROOF
  <1>. DEFINE s == scan.at
  <1>. USE DEF taskVars
  <1>1. /\ s \in Slots /\ Started(s) /\ app[s].state \in {"WAITING", "STOPPED"}
        /\ \A p \in Creators : ~Reserved(p, s)
    BY DEF LifecycleInv, PlacesInv, SlotOwnership, Started, ProcessControlRequest
  <1>2. /\ app[s] \in AppRecord
        /\ pc["bg"] = "request" /\ pc["bg"] \in BgPlaces
    BY <1>1 DEF LifecycleInv, TypeOK, AppTypes, ProcessControlRequest, BgPlaces
  <1>3. CASE app[s].request \in {"UNDEFINED", "APP_RUN"}
    <2>1. /\ app' = [app EXCEPT ![s].request = "SYS_DELETE"]
          /\ scan' = [scan EXCEPT !.at = @ + 1]
          /\ pc' = [pc EXCEPT !["bg"] = "resume"]
          /\ UNCHANGED <<taskVars, modules, registeredExternalApps, held, slot, name, op, newCommand,
                 commands>>
      BY <1>3 DEF ProcessControlRequest, Goto
    <2>2. SameApps /\ SameTasks /\ parked' = parked
      BY <1>1, <2>1 DEF LifecycleInv, TypeOK, AppTypes, AppRecord, SameApps, SameTasks
    <2>3. TypeOK'
      <3>1. AppTypes'
        BY <1>1, <2>1 DEF LifecycleInv, TypeOK, AppTypes, AppRecord, Requests, SysRequests
      <3>2. TaskTypes' /\ HeldTypes'
        BY <2>1 DEF LifecycleInv, TypeOK, TaskTypes, HeldTypes
      <3>3. PlaceTypes' /\ ScanTypes'
        BY <2>1 DEF LifecycleInv, TypeOK, PlaceTypes, ScanTypes, Creators, BgPlaces
      <3>4. newCommand' \in BOOLEAN
        BY <2>1 DEF LifecycleInv, TypeOK
      <3>. QED BY <3>1, <3>2, <3>3, <3>4 DEF TypeOK
    <2>4. /\ TaskOwnership' /\ CountsExact' /\ NamesUnique'
          /\ \A r \in Slots : Started(r)' <=> Started(r)
      BY <2>2, KeepsApps
    <2>5. pc' = [pc EXCEPT !["bg"] = "resume"] /\ pc'["bg"] = "resume" /\ pc'["cmd"] = pc["cmd"]
      BY <2>1 DEF LifecycleInv, TypeOK, PlaceTypes, Creators
    <2>6. SlotOwnership'
      BY <2>1, <2>2, <2>4, <2>5 DEF LifecycleInv, SlotOwnership, Reserved, SameApps, Creators
    <2>7. PlacesInv' /\ CopyStaysCurrent'
      BY <2>1, <2>2, <2>4, <2>5 DEF LifecycleInv, PlacesInv, CopyStaysCurrent, Creators, CreatePlaces, Services
    <2>8. ModulesInv'
      BY <2>1, <2>2, <2>4, <2>5 DEF LifecycleInv, ModulesInv, HasModule, SameApps, Creators
    <2>9. CleanedInv' /\ OnlyLateSurvives'
      BY <2>1, <2>4, <2>5, StagesAfter DEF LifecycleInv, CleanedInv, OnlyLateSurvives, Cleaned
    <2>. QED BY <2>3, <2>4, <2>6, <2>7, <2>8, <2>9 DEF LifecycleInv
  <1>4. CASE app[s].request \notin {"UNDEFINED", "APP_RUN"}
    <2>1. /\ name' = [name EXCEPT !["bg"] = app[s].name]
          /\ op' = [op EXCEPT !["bg"] = app[s].request]
          /\ pc' = [pc EXCEPT !["bg"] = "TBL"]
          /\ UNCHANGED <<app, scan, taskVars, modules, registeredExternalApps, held, slot,
                         newCommand, commands>>
      BY <1>4 DEF ProcessControlRequest, Goto
    <2>2. SameApps /\ SameTasks /\ parked' = parked
      BY <2>1 DEF SameApps, SameTasks
    <2>3. /\ pc'["bg"] = "TBL" /\ pc'["cmd"] = pc["cmd"]
          /\ name'["bg"] = app[s].name /\ name'["cmd"] = name["cmd"]
          /\ op'["bg"] = app[s].request /\ op'["cmd"] = op["cmd"]
      BY <2>1 DEF LifecycleInv, TypeOK, PlaceTypes, Creators
    <2>4. TypeOK'
      <3>1. AppTypes' /\ TaskTypes' /\ HeldTypes' /\ ScanTypes'
        BY <2>1 DEF LifecycleInv, TypeOK, AppTypes, TaskTypes, HeldTypes, ScanTypes
      <3>2. app[s].name \in Names \cup {NoName} /\ app[s].request \in Requests
        BY <1>2 DEF AppRecord
      <3>3. PlaceTypes'
        BY <2>1, <3>2 DEF LifecycleInv, TypeOK, PlaceTypes, Creators, BgPlaces, Services
      <3>4. newCommand' \in BOOLEAN
        BY <2>1 DEF LifecycleInv, TypeOK
      <3>. QED BY <3>1, <3>3, <3>4 DEF TypeOK
    <2>5. /\ TaskOwnership' /\ CountsExact' /\ NamesUnique'
          /\ \A r \in Slots : Started(r)' <=> Started(r)
      BY <2>2, KeepsApps
    <2>6. SlotOwnership'
      BY <2>1, <2>3, <2>5 DEF LifecycleInv, SlotOwnership, Reserved, Creators
    <2>7. PlacesInv' /\ CopyStaysCurrent'
      BY <1>1, <1>4, <2>1, <2>3, <2>5
      DEF LifecycleInv, PlacesInv, CopyStaysCurrent, Creators, CreatePlaces, Services
    <2>8. ModulesInv'
      BY <2>1, <2>3, <2>5 DEF LifecycleInv, ModulesInv, HasModule, Creators
    <2>9. CleanedInv' /\ OnlyLateSurvives'
      BY <2>1, <2>3, <2>5, StagesAfter DEF LifecycleInv, CleanedInv, OnlyLateSurvives, Cleaned
    <2>. QED BY <2>4, <2>5, <2>6, <2>7, <2>8, <2>9 DEF LifecycleInv
  <1>. QED BY <1>3, <1>4

LEMMA ScanSlotStep ==
  ASSUME LifecycleInv, ScanSlot
  PROVE  LifecycleInv'
PROOF
  <1>. DEFINE s == scan.at
  <1>. USE DEF taskVars
  <1>1. /\ s \in Slots /\ pc["bg"] = "scan"
        /\ UNCHANGED <<taskVars, modules, registeredExternalApps, held, slot, name, op,
                       newCommand, commands>>
    BY DEF ScanSlot
  <1>2. \/ /\ Started(s) /\ app[s].state \in {"WAITING", "STOPPED"} /\ app[s].timer > scan.elapsed
           /\ app' = [app EXCEPT ![s].timer = @ - scan.elapsed]
           /\ scan' = [scan EXCEPT !.pending = TRUE, !.at = @ + 1] /\ pc' = pc
        \/ /\ Started(s) /\ app[s].state \in {"WAITING", "STOPPED"}
           /\ app' = [app EXCEPT ![s].timer = 0]
           /\ scan' = [scan EXCEPT !.pending = TRUE] /\ pc' = [pc EXCEPT !["bg"] = "request"]
        \/ /\ app[s].state = "RUNNING"
           /\ app' = [app EXCEPT ![s].state = "WAITING", ![s].timer = KillTimeout * ScanRate]
           /\ scan' = [scan EXCEPT !.at = @ + 1] /\ pc' = pc
        \/ /\ app' = app
           /\ scan' = [scan EXCEPT !.at = @ + 1] /\ pc' = pc
    BY DEF ScanSlot, Goto, Started
  <1>3. /\ \A r \in Slots : app'[r].request = app[r].request
        /\ \A r \in Slots : app'[r].state # app[r].state
                              => app[r].state = "RUNNING" /\ app'[r].state = "WAITING"
    <2>1. app \in [Slots -> AppRecord]
      BY DEF LifecycleInv, TypeOK, AppTypes
    <2>2. \A r \in Slots \ {s} : app'[r] = app[r]
      BY <1>2, <2>1
    <2>3. /\ app'[s].request = app[s].request
          /\ app'[s].state # app[s].state => app[s].state = "RUNNING" /\ app'[s].state = "WAITING"
      BY <1>1, <1>2, <2>1 DEF AppRecord
    <2> QED
      BY <2>2, <2>3
  <1>4. SameApps
    BY <1>1, <1>2 DEF LifecycleInv, TypeOK, AppTypes, AppRecord, SameApps
  <1>5. SameTasks /\ parked' = parked
    BY <1>1 DEF SameTasks
  <1>6. TypeOK'
    <2>1. AppTypes'
      <3>1. KillTimeout * ScanRate \in Nat
        BY SizesAssumption
      <3>2. scan.elapsed \in Nat
        BY DEF LifecycleInv, TypeOK, ScanTypes
      <3>. QED BY <1>1, <1>2, <3>1, <3>2 DEF LifecycleInv, TypeOK, AppTypes, AppRecord, States
    <2>2. TaskTypes' /\ HeldTypes'
      BY <1>1 DEF LifecycleInv, TypeOK, TaskTypes, HeldTypes
    <2>3. PlaceTypes'
      BY <1>1, <1>2 DEF LifecycleInv, TypeOK, PlaceTypes, Creators, BgPlaces
    <2>4. ScanTypes'
      <3>1. \/ scan' = [scan EXCEPT !.pending = TRUE, !.at = @ + 1]
            \/ scan' = [scan EXCEPT !.pending = TRUE]
            \/ scan' = [scan EXCEPT !.at = @ + 1]
        BY <1>2
      <3>2. scan' \in [timer : Nat, pending : BOOLEAN, at : Nat, elapsed : Nat]
        <4>1. scan.at + 1 \in Nat
          BY DEF LifecycleInv, TypeOK, ScanTypes
        <4>2. CASE scan' = [scan EXCEPT !.pending = TRUE]
          BY <4>2 DEF LifecycleInv, TypeOK, ScanTypes
        <4>3. CASE scan' = [scan EXCEPT !.at = @ + 1]
          BY <4>1, <4>3 DEF LifecycleInv, TypeOK, ScanTypes
        <4>4. CASE scan' = [scan EXCEPT !.pending = TRUE, !.at = @ + 1]
          BY <4>1, <4>4 DEF LifecycleInv, TypeOK, ScanTypes
        <4>. QED BY <3>1, <4>2, <4>3, <4>4
      <3>. QED BY <1>1, <3>2 DEF LifecycleInv, TypeOK, ScanTypes
    <2>5. newCommand' \in BOOLEAN
      BY <1>1 DEF LifecycleInv, TypeOK
    <2>. QED BY <2>1, <2>2, <2>3, <2>4, <2>5 DEF TypeOK
  <1>7. /\ TaskOwnership' /\ CountsExact' /\ NamesUnique'
        /\ \A r \in Slots : Started(r)' <=> Started(r)
    BY <1>4, <1>5, KeepsApps
  <1>8. /\ pc'["bg"] \in {"scan", "request"} /\ pc'["cmd"] = pc["cmd"]
        /\ pc'["bg"] = "request" =>
             /\ scan'.at = s /\ Started(s)' /\ app'[s].state \in {"WAITING", "STOPPED"}
    <2>1. pc'["bg"] \in {"scan", "request"} /\ pc'["cmd"] = pc["cmd"]
      BY <1>1, <1>2 DEF LifecycleInv, TypeOK, PlaceTypes, Creators
    <2>2. ASSUME pc'["bg"] = "request"
          PROVE  /\ scan'.at = s /\ Started(s) /\ app[s].state \in {"WAITING", "STOPPED"}
      BY <1>1, <1>2, <2>2 DEF LifecycleInv, TypeOK, PlaceTypes, ScanTypes, Creators
    <2>. QED BY <1>1, <1>3, <1>7, <2>1, <2>2 DEF Started
  <1>9. SlotOwnership'
    BY <1>1, <1>4, <1>7, <1>8 DEF LifecycleInv, SlotOwnership, Reserved, SameApps, Creators
  <1>10. PlacesInv' /\ CopyStaysCurrent'
    BY <1>1, <1>3, <1>7, <1>8
    DEF LifecycleInv, PlacesInv, CopyStaysCurrent, Creators, CreatePlaces, Services, Started
  <1>11. ModulesInv'
    BY <1>1, <1>4, <1>7, <1>8 DEF LifecycleInv, ModulesInv, HasModule, SameApps, Creators
  <1>12. CleanedInv' /\ OnlyLateSurvives'
    BY <1>1, <1>7, <1>8, StagesAfter DEF LifecycleInv, CleanedInv, OnlyLateSurvives, Cleaned
  <1>. QED BY <1>6, <1>7, <1>9, <1>10, <1>11, <1>12 DEF LifecycleInv

-----------------------------------------------------------------------------
(* The resources the services keep. *)

LEMMA AcquireStep ==
  ASSUME LifecycleInv, NEW t \in Tasks, NEW v \in Services, Acquire(t, v)
  PROVE  LifecycleInv'
PROOF
  <1>. DEFINE s == taskApp[t]
  <1>. USE DEF taskVars, procVars, scanVars
  <1>1. /\ s \in Slots /\ Started(s)
        /\ held' = [held EXCEPT ![v][s] = IF Cleaned(v, s) THEN "late" ELSE "yes"]
        /\ UNCHANGED <<app, taskVars, modules, registeredExternalApps, procVars, scanVars>>
    BY DEF LifecycleInv, TypeOK, TaskTypes, TaskOwnership, Acquire, Runs
  <1>2. TypeOK'
    <2>1. AppTypes' /\ TaskTypes' /\ PlaceTypes' /\ ScanTypes'
      BY <1>1 DEF LifecycleInv, TypeOK, AppTypes, TaskTypes, PlaceTypes, ScanTypes
    <2>2. HeldTypes'
      BY <1>1 DEF LifecycleInv, TypeOK, HeldTypes
    <2>3. newCommand' \in BOOLEAN
      BY <1>1 DEF LifecycleInv, TypeOK
    <2>. QED BY <2>1, <2>2, <2>3 DEF TypeOK
  <1>3. /\ TaskOwnership' /\ SlotOwnership' /\ CountsExact' /\ NamesUnique'
        /\ PlacesInv' /\ CopyStaysCurrent' /\ ModulesInv'
    BY <1>1 DEF LifecycleInv, TaskOwnership, SlotOwnership, CountsExact, LiveTasks, LiveApps,
                NamesUnique, PlacesInv, CopyStaysCurrent, ModulesInv, HasModule, Reserved, Started
  <1>4. \A r \in Slots, u \in Services :
           \/ held'[u][r] = held[u][r]
           \/ u = v /\ r = s /\ held'[u][r] = IF Cleaned(v, s) THEN "late" ELSE "yes"
    BY <1>1 DEF LifecycleInv, TypeOK, HeldTypes
  <1>5. CleanedInv' /\ OnlyLateSurvives'
    BY <1>1, <1>4 DEF LifecycleInv, CleanedInv, OnlyLateSurvives, Cleaned, Started
  <1>. QED BY <1>2, <1>3, <1>5 DEF LifecycleInv

LEMMA CleanUpServiceStep ==
  ASSUME LifecycleInv, NEW v \in Services, CleanUpService(v)
  PROVE  LifecycleInv'
PROOF
  <1>. DEFINE s == scan.at
  <1>. USE DEF taskVars, scanVars
  <1>1. /\ pc["bg"] = v /\ s \in Slots
        /\ held' = [held EXCEPT ![v][s] = "no"]
        /\ pc' = [pc EXCEPT !["bg"] = Stages[Stage(v) + 1]]
        /\ UNCHANGED <<app, taskVars, modules, registeredExternalApps, slot, name, op, scanVars>>
    BY DEF LifecycleInv, PlacesInv, CleanUpService, Goto
  <1>2. /\ pc'["bg"] = Stages[Stage(v) + 1] /\ pc'["cmd"] = pc["cmd"]
        /\ pc'["bg"] \in {"SB", "TIME", "EVS", "kill"}
    BY <1>1, StageOrder, StagesAfter DEF LifecycleInv, TypeOK, PlaceTypes, Creators
  <1>3. SameApps /\ SameTasks /\ parked' = parked
    BY <1>1 DEF SameApps, SameTasks
  <1>4. TypeOK'
    <2>1. AppTypes' /\ TaskTypes' /\ ScanTypes'
      BY <1>1 DEF LifecycleInv, TypeOK, AppTypes, TaskTypes, ScanTypes
    <2>2. HeldTypes'
      BY <1>1 DEF LifecycleInv, TypeOK, HeldTypes
    <2>3. PlaceTypes'
      BY <1>1, <1>2 DEF LifecycleInv, TypeOK, PlaceTypes, Creators, BgPlaces, Services
    <2>4. newCommand' \in BOOLEAN
      BY <1>1 DEF LifecycleInv, TypeOK
    <2>. QED BY <2>1, <2>2, <2>3, <2>4 DEF TypeOK
  <1>5. /\ TaskOwnership' /\ CountsExact' /\ NamesUnique'
        /\ \A r \in Slots : Started(r)' <=> Started(r)
    BY <1>3, KeepsApps
  <1>6. SlotOwnership'
    BY <1>1, <1>2, <1>5 DEF LifecycleInv, SlotOwnership, Reserved, Creators
  <1>7. PlacesInv' /\ CopyStaysCurrent'
    BY <1>1, <1>2, <1>5
    DEF LifecycleInv, PlacesInv, CopyStaysCurrent, Creators, CreatePlaces, Services
  <1>8. ModulesInv'
    BY <1>1, <1>2, <1>5 DEF LifecycleInv, ModulesInv, HasModule, Creators
  <1>9. OnlyLateSurvives'
    BY <1>1, <1>5 DEF LifecycleInv, TypeOK, HeldTypes, OnlyLateSurvives
  <1>10. \A u \in Services : Cleaned(u, s)' => u = v \/ Cleaned(u, s)
    BY <1>1, <1>2, StageOrder DEF Cleaned, Services, Stages
  <1>11. CleanedInv'
    BY <1>1, <1>10 DEF LifecycleInv, TypeOK, HeldTypes, CleanedInv, Cleaned
  <1>. QED BY <1>4, <1>5, <1>6, <1>7, <1>8, <1>9, <1>11 DEF LifecycleInv

-----------------------------------------------------------------------------
(* Child tasks. *)

\* OSAL has a task to give out: it belongs to nobody.
LEMMA NewTaskIsFree ==
  ASSUME TaskLeft
  PROVE  NewTask \in Tasks /\ taskApp[NewTask] = NoSlot
PROOF
  BY DEF TaskLeft, NewTask

\* A step that changes the tasks and nothing else.
LEMMA TaskStep ==
  ASSUME LifecycleInv, UNCHANGED <<app, modules, registeredExternalApps, held, procVars, scanVars>>,
         TaskTypes', TaskOwnership', registeredTasks' = Cardinality(LiveTasks')
  PROVE  LifecycleInv'
PROOF
  <1>. USE DEF procVars, scanVars
  <1>1. TypeOK'
    <2>1. AppTypes' /\ HeldTypes' /\ PlaceTypes' /\ ScanTypes'
      BY DEF LifecycleInv, TypeOK, AppTypes, HeldTypes, PlaceTypes, ScanTypes
    <2>2. newCommand' \in BOOLEAN
      BY DEF LifecycleInv, TypeOK
    <2>. QED BY <2>1, <2>2 DEF TypeOK
  <1>2. /\ SlotOwnership' /\ CountsExact' /\ NamesUnique'
        /\ PlacesInv' /\ CopyStaysCurrent' /\ ModulesInv'
    BY DEF LifecycleInv, SlotOwnership, CountsExact, LiveApps, NamesUnique, PlacesInv,
           CopyStaysCurrent, ModulesInv, HasModule, Reserved, Started
  <1>3. CleanedInv' /\ OnlyLateSurvives'
    BY DEF LifecycleInv, CleanedInv, OnlyLateSurvives, Cleaned, Started
  <1>. QED BY <1>1, <1>2, <1>3 DEF LifecycleInv

LEMMA EndTaskStep ==
  ASSUME LifecycleInv, NEW u \in Tasks, taskApp[u] # NoSlot,
         \A s \in Slots : Started(s) => app[s].main # u,
         EndTask(u),
         UNCHANGED <<app, modules, registeredExternalApps, held, procVars, scanVars>>
  PROVE  LifecycleInv'
PROOF
  <1>1. /\ taskApp' = [taskApp EXCEPT ![u] = NoSlot] /\ parked' = parked \ {u}
        /\ registeredTasks' = registeredTasks - 1
    BY DEF EndTask
  <1>2. TaskTypes'
    BY <1>1 DEF LifecycleInv, TypeOK, TaskTypes
  <1>3. TaskOwnership'
    <2>1. \A t \in Tasks : taskApp'[t] = IF t = u THEN NoSlot ELSE taskApp[t]
      BY <1>1 DEF LifecycleInv, TypeOK, TaskTypes
    <2>2. \A s \in Slots : Started(s)' <=> Started(s)
      BY DEF Started
    <2>3. \A t \in Tasks : taskApp'[t] # NoSlot => taskApp'[t] \in Slots /\ Started(taskApp'[t])
      BY <2>1 DEF LifecycleInv, TypeOK, TaskTypes, TaskOwnership
    <2>4. \A t \in Tasks : taskApp'[t] # NoSlot => Started(taskApp[t])'
      BY <2>2, <2>3 DEF Started
    <2>5. \A s \in Slots : Started(s)' => (app[s].main \in Tasks /\ taskApp[app[s].main] = s)'
      BY <2>1, <2>2 DEF LifecycleInv, TaskOwnership
    <2>6. \A t \in parked' : taskApp'[t] # NoSlot
      BY <1>1, <2>1 DEF LifecycleInv, TypeOK, TaskTypes, TaskOwnership
    <2>. QED BY <2>4, <2>5, <2>6 DEF TaskOwnership
  <1>4. LiveTasks' = LiveTasks \ {u} /\ u \in LiveTasks
    BY <1>1 DEF LifecycleInv, TypeOK, TaskTypes, LiveTasks
  <1>5. registeredTasks' = Cardinality(LiveTasks')
    BY <1>1, <1>4, CountedFinite, FS_RemoveElement DEF LifecycleInv, CountsExact
  <1>. QED BY <1>2, <1>3, <1>5, TaskStep

LEMMA CreateChildTaskStep ==
  ASSUME LifecycleInv, NEW t \in Tasks, CreateChildTask(t)
  PROVE  LifecycleInv'
PROOF
  <1>. DEFINE s == taskApp[t]
  <1>1. /\ NewTask \in Tasks /\ taskApp[NewTask] = NoSlot
        /\ s \in Slots /\ s # NoSlot /\ Started(s)
    BY NewTaskIsFree DEF LifecycleInv, TypeOK, TaskTypes, TaskOwnership, CreateChildTask, Runs
  <1>2. /\ taskApp' = [taskApp EXCEPT ![NewTask] = s] /\ parked' = parked
        /\ registeredTasks' = registeredTasks + 1
        /\ UNCHANGED <<app, modules, registeredExternalApps, held, procVars, scanVars>>
    BY DEF CreateChildTask
  <1>. HIDE DEF s
  <1>3. TaskTypes'
    BY <1>1, <1>2 DEF LifecycleInv, TypeOK, TaskTypes
  <1>4. TaskOwnership'
    <2>1. \A u \in Tasks : taskApp'[u] = IF u = NewTask THEN s ELSE taskApp[u]
      BY <1>2 DEF LifecycleInv, TypeOK, TaskTypes
    <2>2. \A r \in Slots : r # NoSlot /\ (Started(r)' <=> Started(r))
      BY <1>2, NoneAssumption DEF Started, Slots
    <2>3. \A u \in Tasks : taskApp'[u] # NoSlot => taskApp'[u] \in Slots /\ Started(taskApp'[u])
      BY <1>1, <2>1 DEF LifecycleInv, TypeOK, TaskTypes, TaskOwnership
    <2>4. \A u \in Tasks : taskApp'[u] # NoSlot => Started(taskApp[u])'
      BY <2>2, <2>3 DEF Started
    <2>5. \A r \in Slots : Started(r)' => (app[r].main \in Tasks /\ taskApp[app[r].main] = r)'
      BY <1>1, <1>2, <2>1, <2>2 DEF LifecycleInv, TaskOwnership
    <2>6. \A u \in parked' : taskApp'[u] # NoSlot
      BY <1>1, <1>2, <2>1 DEF LifecycleInv, TypeOK, TaskTypes, TaskOwnership
    <2>. QED BY <2>4, <2>5, <2>6 DEF TaskOwnership
  <1>5. LiveTasks' = LiveTasks \cup {NewTask} /\ NewTask \notin LiveTasks
    BY <1>1, <1>2 DEF LifecycleInv, TypeOK, TaskTypes, LiveTasks
  <1>6. registeredTasks' = Cardinality(LiveTasks')
    BY <1>2, <1>5, CountedFinite, FS_AddElement DEF LifecycleInv, CountsExact
  <1>. QED BY <1>2, <1>3, <1>4, <1>6, TaskStep

LEMMA ExitChildTaskStep ==
  ASSUME LifecycleInv, NEW t \in Tasks, ExitChildTask(t)
  PROVE  LifecycleInv'
PROOF
  <1>1. \A s \in Slots : Started(s) => app[s].main # t
    BY DEF LifecycleInv, TaskOwnership, ExitChildTask
  <1>. QED BY <1>1, EndTaskStep DEF ExitChildTask, Runs

LEMMA DeleteChildTaskStep ==
  ASSUME LifecycleInv, NEW t \in Tasks, NEW u \in Tasks, DeleteChildTask(t, u)
  PROVE  LifecycleInv'
PROOF
  <1>1. \A s \in Slots : Started(s) => app[s].main # u
    BY DEF DeleteChildTask, IsMain, Started
  <1>. QED BY <1>1, EndTaskStep DEF DeleteChildTask

-----------------------------------------------------------------------------
(* CFE_ES_AppCreate. *)

LEMMA ReturnPlaces ==
  ASSUME LifecycleInv, NEW p \in Creators, Return(p)
  PROVE  /\ PlaceTypes' /\ pc'[p] \in {"idle", "resume"}
         /\ \A q \in Creators \ {p} : pc'[q] = pc[q] /\ slot'[q] = slot[q] /\ name'[q] = name[q]
                                        /\ op'[q] = op[q]
         /\ p = "bg" => pc'["bg"] = "resume"
PROOF
  BY DEF LifecycleInv, TypeOK, PlaceTypes, Return, Goto, Creators, BgPlaces, CmdPlaces, Requests

LEMMA ReserveStep ==
  ASSUME LifecycleInv, NEW p \in Creators, Reserve(p)
  PROVE  LifecycleInv'
PROOF
  <1>. USE DEF taskVars, scanVars
  <1>1. /\ pc[p] = "reserve"
        /\ UNCHANGED <<taskVars, modules, registeredExternalApps, held, scanVars>>
    BY DEF Reserve
  <1>2. TaskTypes' /\ HeldTypes' /\ ScanTypes' /\ newCommand' \in BOOLEAN
    <2>1. TaskTypes' /\ HeldTypes' /\ ScanTypes'
      BY <1>1 DEF LifecycleInv, TypeOK, TaskTypes, HeldTypes, ScanTypes
    <2>2. newCommand' \in BOOLEAN
      BY <1>1 DEF LifecycleInv, TypeOK
    <2>. QED BY <2>1, <2>2
  <1>3. CASE UNCHANGED app /\ Return(p)
    <2>1. /\ PlaceTypes' /\ pc'[p] \in {"idle", "resume"}
          /\ \A q \in Creators \ {p} : pc'[q] = pc[q] /\ slot'[q] = slot[q] /\ name'[q] = name[q]
                                        /\ op'[q] = op[q]
          /\ p = "bg" => pc'["bg"] = "resume"
      BY <1>3, ReturnPlaces
    <2>2. TypeOK'
      BY <1>1, <1>2, <1>3, <2>1 DEF LifecycleInv, TypeOK, AppTypes
    <2>3. SameApps /\ SameTasks /\ parked' = parked
      BY <1>1, <1>3 DEF SameApps, SameTasks
    <2>4. /\ TaskOwnership' /\ CountsExact' /\ NamesUnique'
          /\ \A r \in Slots : Started(r)' <=> Started(r)
      BY <2>3, KeepsApps
    <2>5. SlotOwnership'
      BY <1>3, <2>1, <2>4 DEF LifecycleInv, SlotOwnership, Reserved, Creators
    <2>6. PlacesInv' /\ CopyStaysCurrent'
      BY <1>1, <1>3, <2>1, <2>4
      DEF LifecycleInv, PlacesInv, CopyStaysCurrent, Creators, CreatePlaces, Services
    <2>7. ModulesInv'
      BY <1>1, <1>3, <2>1, <2>4 DEF LifecycleInv, ModulesInv, HasModule, Creators
    <2>8. CleanedInv' /\ OnlyLateSurvives'
      BY <1>1, <2>1, <2>4, StagesAfter
      DEF LifecycleInv, CleanedInv, OnlyLateSurvives, Cleaned, Creators
    <2>. QED BY <2>2, <2>4, <2>5, <2>6, <2>7, <2>8 DEF LifecycleInv
  <1>4. ASSUME NEW s \in Slots, FirstFree(s),
               app' = [app EXCEPT ![s] = [EmptyRecord EXCEPT !.state = "EARLY_INIT"]],
               slot' = [slot EXCEPT ![p] = s], Goto(p, "load"), UNCHANGED <<name, op>>
        PROVE  LifecycleInv'
    <2>1. /\ app[s].state = "UNDEFINED" /\ ~Started(s)
          /\ \A q \in Creators : ~Reserved(q, s)
      BY <1>4 DEF LifecycleInv, SlotOwnership, FirstFree, Started
    <2>2. /\ app'[s].state = "EARLY_INIT" /\ ~app'[s].external
          /\ \A r \in Slots \ {s} : app'[r] = app[r]
          /\ app' \in [Slots -> AppRecord]
      BY <1>4 DEF LifecycleInv, TypeOK, AppTypes, AppRecord, EmptyRecord, States, Requests
    <2>3. \A r \in Slots : Started(r)' <=> Started(r)
      BY <2>1, <2>2 DEF Started
    <2>4. /\ pc'[p] = "load" /\ slot'[p] = s
          /\ \A q \in Creators \ {p} : pc'[q] = pc[q] /\ slot'[q] = slot[q]
          /\ PlaceTypes'
      BY <1>4 DEF LifecycleInv, TypeOK, PlaceTypes, Goto, Creators, CreatePlaces, BgPlaces, CmdPlaces
    <2>5. TypeOK'
      BY <1>1, <1>2, <2>2, <2>4 DEF LifecycleInv, TypeOK, AppTypes
    <2>6. TaskOwnership' /\ NamesUnique'
      BY <1>1, <2>1, <2>2, <2>3 DEF LifecycleInv, TypeOK, TaskTypes, TaskOwnership, NamesUnique, Started
    <2>7. CountsExact'
      <3>1. LiveTasks' = LiveTasks /\ LiveApps' = LiveApps
        BY <1>1, <2>3 DEF LiveTasks, LiveApps
      <3>. QED BY <1>1, <3>1 DEF LifecycleInv, CountsExact
    <2>8. SlotOwnership'
      BY <2>1, <2>2, <2>4 DEF LifecycleInv, SlotOwnership, Reserved, Creators
    <2>9. PlacesInv' /\ CopyStaysCurrent'
      BY <1>1, <1>4, <2>1, <2>2, <2>3, <2>4
      DEF LifecycleInv, PlacesInv, CopyStaysCurrent, Creators, CreatePlaces, Services
    <2>10. ModulesInv'
      BY <1>1, <1>4, <2>1, <2>2, <2>3, <2>4 DEF LifecycleInv, ModulesInv, HasModule, Creators
    <2>11. CleanedInv' /\ OnlyLateSurvives'
      BY <1>1, <2>3, <2>4, StagesAfter
      DEF LifecycleInv, CleanedInv, OnlyLateSurvives, Cleaned, Creators
    <2>. QED BY <2>5, <2>6, <2>7, <2>8, <2>9, <2>10, <2>11 DEF LifecycleInv
  <1>. QED BY <1>3, <1>4 DEF Reserve


LEMMA LoadModuleStep ==
  ASSUME LifecycleInv, NEW p \in Creators, LoadModule(p)
  PROVE  LifecycleInv'
PROOF
  <1>. USE DEF taskVars, scanVars
  <1>1. /\ pc[p] = "load" /\ name[p] \in Names /\ slot[p] \in Slots
        /\ UNCHANGED <<app, taskVars, registeredExternalApps, held, slot, name, op, scanVars>>
    BY DEF LifecycleInv, PlacesInv, CreatePlaces, LoadModule
  <1>2. \/ pc' = [pc EXCEPT ![p] = "release"] /\ modules' = modules
        \/ /\ name[p] \notin modules /\ modules' = modules \cup {name[p]}
           /\ \/ pc' = [pc EXCEPT ![p] = "fill"]
              \/ pc' = [pc EXCEPT ![p] = "releaseUnload"]
    BY DEF LoadModule, Goto
  <1>3. /\ pc'[p] \in {"release", "fill", "releaseUnload"}
        /\ \A q \in Creators \ {p} : pc'[q] = pc[q]
        /\ pc'[p] # "release" => name[p] \notin modules /\ modules' = modules \cup {name[p]}
        /\ pc'[p] = "release" => modules' = modules
        /\ PlaceTypes'
    BY <1>1, <1>2 DEF LifecycleInv, TypeOK, PlaceTypes, Creators, CreatePlaces, BgPlaces, CmdPlaces
  <1>4. TypeOK'
    <2>1. AppTypes' /\ TaskTypes' /\ HeldTypes' /\ ScanTypes'
      BY <1>1, <1>3 DEF LifecycleInv, TypeOK, AppTypes, TaskTypes, HeldTypes, ScanTypes
    <2>2. newCommand' \in BOOLEAN
      BY <1>1 DEF LifecycleInv, TypeOK
    <2>. QED BY <1>3, <2>1, <2>2 DEF TypeOK
  <1>5. TaskOwnership' /\ CountsExact' /\ NamesUnique'
    BY <1>1 DEF LifecycleInv, TaskOwnership, CountsExact, LiveTasks, LiveApps, NamesUnique, Started
  <1>6. SlotOwnership'
    BY <1>1, <1>3 DEF LifecycleInv, SlotOwnership, Reserved, Creators
  <1>7. PlacesInv' /\ CopyStaysCurrent'
    BY <1>1, <1>3 DEF LifecycleInv, PlacesInv, CopyStaysCurrent, Creators, CreatePlaces, Services, Started
  <1>8. ModulesInv'
    BY <1>1, <1>3 DEF LifecycleInv, ModulesInv, HasModule, Creators, Started
  <1>9. CleanedInv' /\ OnlyLateSurvives'
    BY <1>1, <1>3, StagesAfter
    DEF LifecycleInv, CleanedInv, OnlyLateSurvives, Cleaned, Creators, Started
  <1>. QED BY <1>4, <1>5, <1>6, <1>7, <1>8, <1>9 DEF LifecycleInv

\* Emptying a slot that no application was started in touches no application.
LEMMA EmptySlot ==
  ASSUME LifecycleInv, NEW s \in Slots, ~Started(s),
         app' = [app EXCEPT ![s] = EmptyRecord],
         UNCHANGED <<taskApp, parked, registeredTasks, registeredExternalApps>>
  PROVE  /\ app' \in [Slots -> AppRecord]
         /\ app'[s] = EmptyRecord /\ \A r \in Slots \ {s} : app'[r] = app[r]
         /\ \A r \in Slots : Started(r)' <=> Started(r)
         /\ TaskOwnership' /\ CountsExact' /\ NamesUnique'
PROOF
  <1>1. EmptyRecord \in AppRecord
    BY DEF EmptyRecord, AppRecord, States, Requests
  <1>2. /\ app' \in [Slots -> AppRecord]
        /\ app'[s] = EmptyRecord /\ \A r \in Slots \ {s} : app'[r] = app[r]
    BY <1>1 DEF LifecycleInv, TypeOK, AppTypes
  <1>3. \A r \in Slots : Started(r)' <=> Started(r)
    BY <1>2 DEF Started, EmptyRecord
  <1>4. TaskOwnership' /\ NamesUnique'
    BY <1>2, <1>3 DEF LifecycleInv, TypeOK, TaskTypes, TaskOwnership, NamesUnique, Started
  <1>5. CountsExact'
    <2>1. LiveTasks' = LiveTasks /\ LiveApps' = LiveApps
      BY <1>3 DEF LiveTasks, LiveApps
    <2>. QED BY <2>1 DEF LifecycleInv, CountsExact
  <1>. QED BY <1>2, <1>3, <1>4, <1>5

LEMMA ReleaseSlotStep ==
  ASSUME LifecycleInv, NEW p \in Creators, ReleaseSlot(p)
  PROVE  LifecycleInv'
PROOF
  <1>. USE DEF taskVars, scanVars
  <1>. DEFINE s == slot[p]
  <1>1. /\ pc[p] \in {"release", "releaseUnload"} /\ s \in Slots /\ name[p] \in Names
        /\ app' = [app EXCEPT ![s] = EmptyRecord]
        /\ UNCHANGED <<taskVars, modules, registeredExternalApps, held, scanVars>>
    BY DEF LifecycleInv, PlacesInv, CreatePlaces, ReleaseSlot
  <1>2. /\ ~Started(s) /\ \A q \in Creators \ {p} : ~Reserved(q, s)
    BY <1>1 DEF LifecycleInv, SlotOwnership, Reserved, Creators, Started
  <1>. HIDE DEF s
  <1>3. /\ app' \in [Slots -> AppRecord]
        /\ app'[s] = EmptyRecord /\ \A r \in Slots \ {s} : app'[r] = app[r]
        /\ \A r \in Slots : Started(r)' <=> Started(r)
        /\ TaskOwnership' /\ CountsExact' /\ NamesUnique'
    BY <1>1, <1>2, EmptySlot
  <1>4. /\ PlaceTypes' /\ pc'[p] \in {"idle", "resume", "unload"}
        /\ \A q \in Creators \ {p} : /\ pc'[q] = pc[q] /\ slot'[q] = slot[q]
                                     /\ name'[q] = name[q] /\ op'[q] = op[q]
        /\ pc'[p] = "unload" => name'[p] = name[p] /\ pc[p] = "releaseUnload"
        /\ p = "bg" => pc'["bg"] \in {"resume", "unload"}
    <2>1. CASE Return(p)
      BY <2>1, ReturnPlaces
    <2>2. CASE pc[p] = "releaseUnload" /\ Goto(p, "unload") /\ UNCHANGED <<slot, name, op>>
      BY <2>2 DEF LifecycleInv, TypeOK, PlaceTypes, Goto, Creators, CreatePlaces, BgPlaces, CmdPlaces
    <2>. QED BY <2>1, <2>2 DEF ReleaseSlot
  <1>5. TypeOK'
    <2>1. AppTypes' /\ TaskTypes' /\ HeldTypes' /\ ScanTypes'
      BY <1>1, <1>3 DEF LifecycleInv, TypeOK, AppTypes, TaskTypes, HeldTypes, ScanTypes
    <2>2. newCommand' \in BOOLEAN
      BY <1>1 DEF LifecycleInv, TypeOK
    <2>. QED BY <1>4, <2>1, <2>2 DEF TypeOK
  <1>6. SlotOwnership'
    BY <1>2, <1>3, <1>4 DEF LifecycleInv, SlotOwnership, Reserved, Creators
  <1>7. PlacesInv' /\ CopyStaysCurrent'
    BY <1>1, <1>2, <1>3, <1>4
    DEF LifecycleInv, PlacesInv, CopyStaysCurrent, Creators, CreatePlaces, Services, Started
  <1>8. ModulesInv'
    BY <1>1, <1>2, <1>3, <1>4 DEF LifecycleInv, ModulesInv, HasModule, Creators, Started
  <1>9. CleanedInv' /\ OnlyLateSurvives'
    BY <1>1, <1>3, <1>4, StagesAfter
    DEF LifecycleInv, CleanedInv, OnlyLateSurvives, Cleaned, Creators
  <1>. QED BY <1>3, <1>5, <1>6, <1>7, <1>8, <1>9 DEF LifecycleInv

LEMMA UnloadModuleStep ==
  ASSUME LifecycleInv, NEW p \in Creators, UnloadModule(p)
  PROVE  LifecycleInv'
PROOF
  <1>. USE DEF taskVars, scanVars
  <1>1. /\ pc[p] = "unload" /\ modules' = modules \ {name[p]} /\ Return(p)
        /\ UNCHANGED <<app, taskVars, registeredExternalApps, held, scanVars>>
    BY DEF UnloadModule
  <1>2. /\ PlaceTypes' /\ pc'[p] \in {"idle", "resume"}
        /\ \A q \in Creators \ {p} : /\ pc'[q] = pc[q] /\ slot'[q] = slot[q]
                                     /\ name'[q] = name[q] /\ op'[q] = op[q]
        /\ p = "bg" => pc'["bg"] = "resume"
    BY <1>1, ReturnPlaces
  <1>3. TypeOK'
    <2>1. AppTypes' /\ TaskTypes' /\ HeldTypes' /\ ScanTypes'
      BY <1>1 DEF LifecycleInv, TypeOK, AppTypes, TaskTypes, HeldTypes, ScanTypes
    <2>2. newCommand' \in BOOLEAN
      BY <1>1 DEF LifecycleInv, TypeOK
    <2>. QED BY <1>2, <2>1, <2>2 DEF TypeOK
  <1>4. TaskOwnership' /\ CountsExact' /\ NamesUnique'
    BY <1>1 DEF LifecycleInv, TaskOwnership, CountsExact, LiveTasks, LiveApps, NamesUnique, Started
  <1>5. SlotOwnership'
    BY <1>1, <1>2 DEF LifecycleInv, SlotOwnership, Reserved, Creators
  <1>6. PlacesInv' /\ CopyStaysCurrent'
    BY <1>1, <1>2 DEF LifecycleInv, PlacesInv, CopyStaysCurrent, Creators, CreatePlaces, Services, Started
  <1>7. ModulesInv'
    BY <1>1, <1>2 DEF LifecycleInv, ModulesInv, HasModule, Creators, Started
  <1>8. CleanedInv' /\ OnlyLateSurvives'
    BY <1>1, <1>2, StagesAfter
    DEF LifecycleInv, CleanedInv, OnlyLateSurvives, Cleaned, Creators, Started
  <1>. QED BY <1>3, <1>4, <1>5, <1>6, <1>7, <1>8 DEF LifecycleInv

\* The new application gets the slot, the module that was loaded for it and a
\* task that was nobody's.
LEMMA FillStarts ==
  ASSUME LifecycleInv, NEW p \in Creators, Fill(p), TaskLeft
  PROVE  LifecycleInv'
PROOF
  <1>. DEFINE s == slot[p]
              a == [app[s] EXCEPT !.external = TRUE, !.name = name[p],
                                  !.request = "APP_RUN", !.timer = 0, !.main = NewTask]
  <1>1. /\ pc[p] = "fill" /\ s \in Slots /\ name[p] \in Names
        /\ NewTask \in Tasks /\ taskApp[NewTask] = NoSlot
        /\ app[s].state # "UNDEFINED" /\ ~Started(s) /\ app[s] \in AppRecord
        /\ \A q \in Creators \ {p} : ~Reserved(q, s)
    BY NewTaskIsFree DEF LifecycleInv, PlacesInv, CreatePlaces, SlotOwnership, Reserved, Creators,
           Started, Fill, TypeOK, AppTypes
  <1>2. /\ app' = [app EXCEPT ![s] = a]
        /\ taskApp' = [taskApp EXCEPT ![NewTask] = s]
        /\ registeredTasks' = registeredTasks + 1
        /\ registeredExternalApps' = registeredExternalApps + 1
        /\ Return(p)
        /\ UNCHANGED <<parked, modules, held, scan, commands>>
    BY DEF Fill
  <1>3. /\ a \in AppRecord /\ a.state = app[s].state /\ a.external = TRUE
        /\ a.name = name[p] /\ a.main = NewTask
    BY <1>1 DEF AppRecord, Requests
  <1>. HIDE DEF s, a
  <1>4. /\ app' \in [Slots -> AppRecord] /\ app'[s] = a
        /\ \A r \in Slots \ {s} : app'[r] = app[r]
    BY <1>1, <1>2, <1>3 DEF LifecycleInv, TypeOK, AppTypes
  <1>5. \A r \in Slots : Started(r)' <=> Started(r) \/ r = s
    BY <1>1, <1>3, <1>4 DEF Started
  <1>6. /\ PlaceTypes' /\ pc'[p] \in {"idle", "resume"}
        /\ \A q \in Creators \ {p} : /\ pc'[q] = pc[q] /\ slot'[q] = slot[q]
                                     /\ name'[q] = name[q] /\ op'[q] = op[q]
        /\ p = "bg" => pc'["bg"] = "resume"
    BY <1>2, ReturnPlaces
  <1>7. TypeOK'
    <2>1. AppTypes' /\ HeldTypes' /\ ScanTypes'
      BY <1>2, <1>4 DEF LifecycleInv, TypeOK, AppTypes, HeldTypes, ScanTypes
    <2>2. TaskTypes'
      BY <1>1, <1>2 DEF LifecycleInv, TypeOK, TaskTypes
    <2>3. newCommand' \in BOOLEAN
      <3>1. newCommand' = (newCommand \/ p = "cmd") \/ newCommand' = newCommand
        BY DEF Fill
      <3>2. newCommand \in BOOLEAN
        BY DEF LifecycleInv, TypeOK
      <3>. QED BY <3>1, <3>2
    <2>. QED BY <1>6, <2>1, <2>2, <2>3 DEF TypeOK
  <1>8. \A t \in Tasks : taskApp'[t] = IF t = NewTask THEN s ELSE taskApp[t]
    BY <1>2 DEF LifecycleInv, TypeOK, TaskTypes
  <1>9. s # NoSlot /\ \A r \in Slots : r # NoSlot
    BY <1>1, NoneAssumption DEF Slots
  <1>10. TaskOwnership'
    <2>1. \A t \in Tasks : taskApp'[t] # NoSlot => Started(taskApp[t])'
      <3>. SUFFICES ASSUME NEW t \in Tasks, taskApp'[t] # NoSlot PROVE Started(taskApp[t])'
        OBVIOUS
      <3>1. taskApp'[t] \in Slots /\ (Started(taskApp'[t]) \/ taskApp'[t] = s)
        BY <1>1, <1>8 DEF LifecycleInv, TypeOK, TaskTypes, TaskOwnership
      <3>. QED BY <1>5, <3>1 DEF Started
    <2>2. \A r \in Slots : Started(r)' => (app[r].main \in Tasks /\ taskApp[app[r].main] = r)'
      <3>. SUFFICES ASSUME NEW r \in Slots, Started(r)'
                    PROVE  app'[r].main \in Tasks /\ taskApp'[app'[r].main] = r
        OBVIOUS
      <3>1. CASE r = s
        BY <1>1, <1>3, <1>4, <1>8, <3>1
      <3>2. CASE r # s
        BY <1>1, <1>4, <1>5, <1>8, <1>9, <3>2 DEF LifecycleInv, TaskOwnership
      <3>. QED BY <3>1, <3>2
    <2>3. \A t \in parked' : taskApp'[t] # NoSlot
      BY <1>2, <1>8, <1>9 DEF LifecycleInv, TypeOK, TaskTypes, TaskOwnership
    <2>. QED BY <2>1, <2>2, <2>3 DEF TaskOwnership
  <1>11. CountsExact'
    <2>1. LiveTasks' = LiveTasks \cup {NewTask} /\ NewTask \notin LiveTasks
      BY <1>1, <1>8, <1>9 DEF LiveTasks
    <2>2. LiveApps' = LiveApps \cup {s} /\ s \notin LiveApps
      BY <1>1, <1>5 DEF LiveApps
    <2>. QED BY <1>2, <2>1, <2>2, CountedFinite, FS_AddElement DEF LifecycleInv, CountsExact
  <1>12. SlotOwnership'
    BY <1>1, <1>4, <1>6 DEF LifecycleInv, SlotOwnership, Reserved, Creators
  <1>13. PlacesInv' /\ CopyStaysCurrent'
    BY <1>1, <1>2, <1>4, <1>5, <1>6
    DEF LifecycleInv, PlacesInv, CopyStaysCurrent, Creators, CreatePlaces, Services, Started
  <1>14. ModulesInv' /\ NamesUnique'
    <2>1. \A r \in Slots : Started(r) => app'[r].name = app[r].name /\ app[r].name # name[p]
      BY <1>1, <1>4 DEF LifecycleInv, ModulesInv, HasModule
    <2>2. name[p] \in modules
      BY <1>1 DEF LifecycleInv, ModulesInv, HasModule
    <2>3. NamesUnique'
      BY <1>3, <1>4, <1>5, <2>1 DEF LifecycleInv, NamesUnique
    <2>4. ModulesInv'
      BY <1>1, <1>2, <1>3, <1>4, <1>5, <1>6, <2>1, <2>2
      DEF LifecycleInv, ModulesInv, HasModule, Creators
    <2>. QED BY <2>3, <2>4
  <1>15. CleanedInv' /\ OnlyLateSurvives'
    BY <1>2, <1>5, <1>6, StagesAfter
    DEF LifecycleInv, CleanedInv, OnlyLateSurvives, Cleaned, Creators
  <1>. QED BY <1>7, <1>10, <1>11, <1>12, <1>13, <1>14, <1>15 DEF LifecycleInv

LEMMA FillStep ==
  ASSUME LifecycleInv, NEW p \in Creators, Fill(p)
  PROVE  LifecycleInv'
PROOF
  <1>1. CASE TaskLeft
    BY <1>1, FillStarts
  <1>2. CASE ~TaskLeft
    <2>. DEFINE s == slot[p]
    <2>1. /\ pc[p] = "fill" /\ s \in Slots
          /\ app' = [app EXCEPT ![s] = EmptyRecord] /\ Return(p)
          /\ UNCHANGED <<taskApp, registeredTasks, registeredExternalApps, newCommand>>
          /\ UNCHANGED <<parked, modules, held, scan, commands>>
      BY <1>2 DEF LifecycleInv, PlacesInv, Fill
    <2>2. /\ ~Started(s) /\ \A q \in Creators \ {p} : ~Reserved(q, s)
      BY <2>1 DEF LifecycleInv, SlotOwnership, Reserved, Creators, Started
    <2>. HIDE DEF s
    <2>3. /\ app' \in [Slots -> AppRecord]
          /\ app'[s] = EmptyRecord /\ \A r \in Slots \ {s} : app'[r] = app[r]
          /\ \A r \in Slots : Started(r)' <=> Started(r)
          /\ TaskOwnership' /\ CountsExact' /\ NamesUnique'
      BY <2>1, <2>2, EmptySlot
    <2>4. /\ PlaceTypes' /\ pc'[p] \in {"idle", "resume"}
          /\ \A q \in Creators \ {p} : /\ pc'[q] = pc[q] /\ slot'[q] = slot[q]
                                       /\ name'[q] = name[q] /\ op'[q] = op[q]
          /\ p = "bg" => pc'["bg"] = "resume"
      BY <2>1, ReturnPlaces
    <2>5. TypeOK'
      <3>1. AppTypes' /\ TaskTypes' /\ HeldTypes' /\ ScanTypes'
        BY <2>1, <2>3 DEF LifecycleInv, TypeOK, AppTypes, TaskTypes, HeldTypes, ScanTypes
      <3>2. newCommand' \in BOOLEAN
        BY <2>1 DEF LifecycleInv, TypeOK
      <3>. QED BY <2>4, <3>1, <3>2 DEF TypeOK
    <2>6. SlotOwnership'
      BY <2>2, <2>3, <2>4 DEF LifecycleInv, SlotOwnership, Reserved, Creators
    <2>7. PlacesInv' /\ CopyStaysCurrent'
      BY <2>1, <2>2, <2>3, <2>4
      DEF LifecycleInv, PlacesInv, CopyStaysCurrent, Creators, CreatePlaces, Services, Started
    <2>8. ModulesInv'
      BY <2>1, <2>2, <2>3, <2>4 DEF LifecycleInv, ModulesInv, HasModule, Creators, Started
    <2>9. CleanedInv' /\ OnlyLateSurvives'
      BY <2>1, <2>3, <2>4, StagesAfter
      DEF LifecycleInv, CleanedInv, OnlyLateSurvives, Cleaned, Creators
    <2>. QED BY <2>3, <2>5, <2>6, <2>7, <2>8, <2>9 DEF LifecycleInv
  <1>. QED BY <1>1, <1>2

-----------------------------------------------------------------------------
(* The end of an application. *)

\* The slot is empty again, its tasks are gone, and what the services still
\* keep for it came late.
LEMMA CleanUpESStep ==
  ASSUME LifecycleInv, CleanUpES
  PROVE  LifecycleInv'
PROOF
  <1>. DEFINE s == scan.at
              ended == {t \in Tasks : taskApp[t] = s}
              m == app[s].main
  <1>1. /\ pc["bg"] = "kill" /\ s \in Slots /\ Started(s)
        /\ m \in Tasks /\ taskApp[m] = s /\ m \in ended
        /\ name["bg"] = app[s].name /\ app[s] \in AppRecord
        /\ \A q \in Creators : ~Reserved(q, s)
    BY DEF LifecycleInv, PlacesInv, CopyStaysCurrent, TaskOwnership, SlotOwnership, Started,
           TypeOK, AppTypes, CleanUpES, Services
  <1>2. ended = (ended \ {m}) \cup {m}
    BY <1>1
  <1>3. /\ taskApp' = [t \in Tasks |-> IF t \in ended THEN NoSlot ELSE taskApp[t]]
        /\ parked' = parked \ ended
        /\ registeredTasks' = registeredTasks - Cardinality(ended \ {m}) - 1
        /\ registeredExternalApps' = registeredExternalApps - 1
        /\ app' = [app EXCEPT ![s] = EmptyRecord]
        /\ scan' = [scan EXCEPT !.at = @ + 1]
        /\ UNCHANGED <<held, newCommand, commands>>
    BY <1>2 DEF CleanUpES
  <1>4. \/ /\ modules' = modules \ {app[s].name} /\ op["bg"] \in {"SYS_RESTART", "SYS_RELOAD"}
           /\ pc' = [pc EXCEPT !["bg"] = "reserve"] /\ UNCHANGED <<slot, name, op>>
        \/ modules' \in {modules, modules \ {app[s].name}} /\ Return("bg")
    BY DEF CleanUpES, Goto
  <1>. HIDE DEF s, m, ended
  <1>5. /\ app' \in [Slots -> AppRecord]
        /\ app'[s] = EmptyRecord /\ \A r \in Slots \ {s} : app'[r] = app[r]
    <2>1. EmptyRecord \in AppRecord
      BY DEF EmptyRecord, AppRecord, States, Requests
    <2>. QED BY <1>1, <1>3, <2>1 DEF LifecycleInv, TypeOK, AppTypes
  <1>6. \A r \in Slots : Started(r)' <=> Started(r) /\ r # s
    BY <1>5 DEF Started, EmptyRecord
  <1>7. /\ PlaceTypes' /\ pc'["bg"] \in {"reserve", "resume"} /\ pc'["cmd"] = pc["cmd"]
        /\ slot'["cmd"] = slot["cmd"] /\ name'["cmd"] = name["cmd"] /\ op'["cmd"] = op["cmd"]
        /\ pc'["bg"] = "reserve" => name'["bg"] = name["bg"]
    <2>1. CASE Return("bg")
      BY <2>1, ReturnPlaces DEF Creators
    <2>2. CASE pc' = [pc EXCEPT !["bg"] = "reserve"] /\ UNCHANGED <<slot, name, op>>
      BY <2>2 DEF LifecycleInv, TypeOK, PlaceTypes, Creators, CreatePlaces, BgPlaces, CmdPlaces
    <2>. QED BY <1>4, <2>1, <2>2
  <1>8. TypeOK'
    <2>1. modules' \subseteq Names
      BY <1>4 DEF LifecycleInv, TypeOK, AppTypes
    <2>2. AppTypes'
      BY <1>3, <1>5, <2>1 DEF LifecycleInv, TypeOK, AppTypes
    <2>3. Cardinality(ended \ {m}) \in Nat
      BY TasksAssumption, FS_Subset, FS_CardinalityType DEF ended
    <2>4. TaskTypes'
      BY <1>3, <2>3 DEF LifecycleInv, TypeOK, TaskTypes
    <2>5. HeldTypes' /\ ScanTypes'
      BY <1>3 DEF LifecycleInv, TypeOK, HeldTypes, ScanTypes
    <2>6. newCommand' \in BOOLEAN
      BY <1>3 DEF LifecycleInv, TypeOK
    <2>. QED BY <1>7, <2>2, <2>4, <2>5, <2>6 DEF TypeOK
  <1>9. \A t \in Tasks : taskApp'[t] = IF taskApp[t] = s THEN NoSlot ELSE taskApp[t]
    BY <1>3 DEF ended
  <1>10. \A r \in Slots : r # NoSlot
    BY NoneAssumption DEF Slots
  <1>11. TaskOwnership'
    <2>1. \A t \in Tasks : taskApp'[t] # NoSlot =>
             taskApp'[t] \in Slots /\ taskApp'[t] # s /\ Started(taskApp'[t])
      BY <1>9 DEF LifecycleInv, TypeOK, TaskTypes, TaskOwnership
    <2>2. \A t \in Tasks : taskApp'[t] # NoSlot => Started(taskApp[t])'
      BY <1>6, <2>1 DEF Started
    <2>3. \A r \in Slots : Started(r)' => (app[r].main \in Tasks /\ taskApp[app[r].main] = r)'
      BY <1>5, <1>6, <1>9, <1>10 DEF LifecycleInv, TaskOwnership
    <2>4. \A t \in parked' : taskApp'[t] # NoSlot
      BY <1>3, <1>9 DEF LifecycleInv, TypeOK, TaskTypes, TaskOwnership, ended
    <2>. QED BY <2>2, <2>3, <2>4 DEF TaskOwnership
  <1>12. CountsExact'
    <2>1. LiveTasks' = LiveTasks \ ended /\ ended \subseteq LiveTasks
      BY <1>1, <1>9, <1>10 DEF LiveTasks, ended
    <2>2. IsFiniteSet(ended) /\ LiveTasks \cap ended = ended
      BY <2>1, CountedFinite, FS_Subset
    <2>3. /\ Cardinality(LiveTasks \ ended) = Cardinality(LiveTasks) - Cardinality(ended)
      BY <2>2, CountedFinite, FS_Difference
    <2>4. Cardinality(ended \ {m}) = Cardinality(ended) - 1
      BY <1>1, <2>2, FS_RemoveElement
    <2>5. Cardinality(ended) \in Nat /\ Cardinality(LiveTasks) \in Nat
      BY <2>2, CountedFinite, FS_CardinalityType
    <2>6. registeredTasks' = Cardinality(LiveTasks')
      BY <1>3, <2>1, <2>3, <2>4, <2>5 DEF LifecycleInv, CountsExact
    <2>7. LiveApps' = LiveApps \ {s} /\ s \in LiveApps
      BY <1>1, <1>6 DEF LiveApps
    <2>8. registeredExternalApps' = Cardinality(LiveApps')
      BY <1>3, <2>7, CountedFinite, FS_RemoveElement DEF LifecycleInv, CountsExact
    <2>. QED BY <2>6, <2>8 DEF CountsExact
  <1>13. SlotOwnership'
    BY <1>1, <1>5, <1>7 DEF LifecycleInv, SlotOwnership, Reserved, Creators
  <1>14. PlacesInv' /\ CopyStaysCurrent'
    <2>1. name["bg"] \in Names
      BY <1>1, <1>4 DEF LifecycleInv, ModulesInv, TypeOK, AppTypes
    <2>. QED BY <1>1, <1>7, <2>1
      DEF LifecycleInv, PlacesInv, CopyStaysCurrent, Creators, CreatePlaces, Services
  <1>15. NamesUnique' /\ ModulesInv'
    <2>1. \A r \in Slots \ {s} : Started(r) => app[r].name # app[s].name
      BY <1>1 DEF LifecycleInv, NamesUnique
    <2>2. modules' \in {modules, modules \ {app[s].name}}
      BY <1>4
    <2>3. NamesUnique'
      BY <1>5, <1>6 DEF LifecycleInv, NamesUnique
    <2>4. HasModule("cmd") => name["cmd"] # app[s].name
      BY <1>1 DEF LifecycleInv, ModulesInv, Creators
    <2>5. ModulesInv'
      BY <1>5, <1>6, <1>7, <2>1, <2>2, <2>4 DEF LifecycleInv, ModulesInv, HasModule, Creators
    <2>. QED BY <2>3, <2>5
  <1>16. CleanedInv' /\ OnlyLateSurvives'
    <2>1. \A v \in Services : Cleaned(v, s)
      BY <1>1, StageOrder DEF Cleaned, s, Stages
    <2>2. \A v \in Services : held[v][s] # "yes"
      BY <1>1, <2>1 DEF LifecycleInv, CleanedInv
    <2>3. OnlyLateSurvives'
      BY <1>3, <1>6, <2>2 DEF LifecycleInv, OnlyLateSurvives
    <2>4. CleanedInv'
      BY <1>7, StagesAfter DEF CleanedInv, Cleaned
    <2>. QED BY <2>3, <2>4
  <1>. QED BY <1>8, <1>11, <1>12, <1>13, <1>14, <1>15, <1>16 DEF LifecycleInv

-----------------------------------------------------------------------------
(* Every step. *)

LEMMA NextInv == LifecycleInv /\ [Next]_vars => LifecycleInv'
PROOF
  <1>. SUFFICES ASSUME LifecycleInv, [Next]_vars PROVE LifecycleInv'
    OBVIOUS
  <1>1. CASE UNCHANGED vars
    <2>1. TypeOK'
      <3>1. AppTypes' /\ TaskTypes' /\ HeldTypes' /\ PlaceTypes' /\ ScanTypes'
        BY <1>1 DEF LifecycleInv, TypeOK, AppTypes, TaskTypes, HeldTypes, PlaceTypes, ScanTypes, vars
      <3>2. newCommand' \in BOOLEAN
        BY <1>1 DEF LifecycleInv, TypeOK, vars
      <3>. QED BY <3>1, <3>2 DEF TypeOK
    <2>2. /\ TaskOwnership' /\ SlotOwnership' /\ CountsExact' /\ NamesUnique'
          /\ PlacesInv' /\ CopyStaysCurrent' /\ ModulesInv'
      BY <1>1 DEF LifecycleInv, TaskOwnership, SlotOwnership, CountsExact, LiveTasks, LiveApps,
          NamesUnique, PlacesInv, CopyStaysCurrent, ModulesInv, HasModule, Reserved, Started, vars
    <2>3. CleanedInv' /\ OnlyLateSurvives'
      BY <1>1 DEF LifecycleInv, CleanedInv, OnlyLateSurvives, Cleaned, Started, vars
    <2>. QED BY <2>1, <2>2, <2>3 DEF LifecycleInv
  <1>2. ASSUME NEW p \in Creators, Create(p) PROVE LifecycleInv'
    BY <1>2, ReserveStep, LoadModuleStep, ReleaseSlotStep, UnloadModuleStep, FillStep DEF Create
  <1>3. CASE Command
    BY <1>2, <1>3, StartAppCmdStep, ControlAppCmdStep, GetAppIDByNameStep, ControlAppStep
    DEF Command, Creators
  <1>4. CASE Background
    BY <1>2, <1>4, StartScanStep, LockStep, ScanSlotStep, EndScanStep,
       ProcessControlRequestStep, CleanUpServiceStep, CleanUpESStep
    DEF Background, Creators
  <1>5. ASSUME NEW t \in Tasks, AppTask(t) PROVE LifecycleInv'
    <2>1. Used \subseteq Services
      BY SizesAssumption
    <2>. QED BY <1>5, <2>1, RunLoopStep, CreateChildTaskStep, ExitChildTaskStep, ExitAppStep,
          DeleteChildTaskStep, AcquireStep DEF AppTask
  <1>. QED BY <1>1, <1>3, <1>4, <1>5 DEF Next

-----------------------------------------------------------------------------
(* What a step may do to one record. *)

EndsOnly(s) ==
  app[s].state \in {"WAITING", "STOPPED"}
    => app'[s].state \in {app[s].state, "STOPPED", "UNDEFINED"}

KeepsRequest(s) ==
  Started(s) /\ app[s].request \in SysRequests
    => app'[s].request \in SysRequests \/ app'[s].state = "UNDEFINED"

LEMMA CreateEffect ==
  ASSUME LifecycleInv, NEW p \in Creators, Create(p), NEW s \in Slots
  PROVE  EndsOnly(s) /\ KeepsRequest(s)
PROOF
  <1>. USE DEF EndsOnly, KeepsRequest
  <1>1. app \in [Slots -> AppRecord]
    BY DEF LifecycleInv, TypeOK, AppTypes
  <1>2. CASE UNCHANGED app
    BY <1>2
  <1>3. ASSUME NEW r \in Slots, app' = [app EXCEPT ![r] = EmptyRecord]
        PROVE  EndsOnly(s) /\ KeepsRequest(s)
    BY <1>1, <1>3 DEF EmptyRecord
  <1>4. CASE Reserve(p)
    <2>1. ASSUME NEW r \in Slots, FirstFree(r),
                 app' = [app EXCEPT ![r] = [EmptyRecord EXCEPT !.state = "EARLY_INIT"]]
          PROVE  EndsOnly(s) /\ KeepsRequest(s)
      BY <1>1, <2>1 DEF FirstFree, Started
    <2>. QED BY <1>2, <1>4, <2>1 DEF Reserve
  <1>5. CASE LoadModule(p) \/ UnloadModule(p)
    BY <1>2, <1>5 DEF LoadModule, UnloadModule
  <1>6. CASE ReleaseSlot(p)
    BY <1>3, <1>6 DEF LifecycleInv, PlacesInv, ReleaseSlot
  <1>7. CASE Fill(p)
    <2>1. slot[p] \in Slots /\ ~Started(slot[p])
      BY <1>7 DEF LifecycleInv, PlacesInv, SlotOwnership, Reserved, Started, Fill
    <2>2. CASE app' = [app EXCEPT ![slot[p]] =
                         [@ EXCEPT !.external = TRUE, !.name = name[p],
                                   !.request = "APP_RUN", !.timer = 0, !.main = NewTask]]
      <3>1. CASE s = slot[p]
        BY <1>1, <2>1, <2>2, <3>1 DEF AppRecord
      <3>2. CASE s # slot[p]
        BY <1>1, <2>1, <2>2, <3>2
      <3>. QED BY <3>1, <3>2
    <2>. QED BY <1>3, <1>7, <2>1, <2>2 DEF Fill
  <1>. QED BY <1>4, <1>5, <1>6, <1>7 DEF Create

LEMMA StepEffect ==
  ASSUME LifecycleInv, [Next]_vars, NEW s \in Slots
  PROVE  EndsOnly(s) /\ KeepsRequest(s)
PROOF
  <1>. USE DEF EndsOnly, KeepsRequest
  <1>1. app \in [Slots -> AppRecord]
    BY DEF LifecycleInv, TypeOK, AppTypes
  <1>2. CASE UNCHANGED app
    BY <1>2
  <1>3. CASE Command
    <2>1. CASE ControlApp
      <3>1. slot["cmd"] \in Slots /\ op["cmd"] \in SysRequests
        BY <2>1 DEF LifecycleInv, PlacesInv, ControlApp
      <3>2. CASE app' = [app EXCEPT ![slot["cmd"]].request = op["cmd"]]
        BY <1>1, <3>1, <3>2 DEF AppRecord
      <3>. QED BY <1>2, <2>1, <3>2 DEF ControlApp
    <2>2. CASE GetAppIDByName \/ \E n \in Names : StartAppCmd(n) \/ \E r \in Commands : ControlAppCmd(n, r)
      BY <1>2, <2>2 DEF GetAppIDByName, StartAppCmd, ControlAppCmd
    <2>. QED BY <1>3, <2>1, <2>2, CreateEffect DEF Command, Creators
  <1>4. CASE Background
    <2>1. CASE ScanSlot
      <3>1. \/ app' = app
            \/ app' = [app EXCEPT ![scan.at].timer = @ - scan.elapsed]
            \/ app' = [app EXCEPT ![scan.at].timer = 0]
            \/ /\ app[scan.at].state = "RUNNING"
               /\ app' = [app EXCEPT ![scan.at].state = "WAITING",
                                     ![scan.at].timer = KillTimeout * ScanRate]
        BY <2>1 DEF ScanSlot
      <3>2. /\ app'[s].request = app[s].request
            /\ app'[s].state = app[s].state \/ app[s].state = "RUNNING"
        BY <1>1, <3>1 DEF AppRecord
      <3>. QED BY <3>2
    <2>2. CASE ProcessControlRequest
      <3>1. app' = app \/ app' = [app EXCEPT ![scan.at].request = "SYS_DELETE"]
        BY <2>2 DEF ProcessControlRequest
      <3>. QED BY <1>1, <3>1 DEF AppRecord, SysRequests
    <2>3. CASE CleanUpES
      <3>1. app' = [app EXCEPT ![scan.at] = EmptyRecord]
        BY <2>3 DEF CleanUpES
      <3>. QED BY <1>1, <3>1 DEF EmptyRecord
    <2>4. CASE \/ \E e \in ElapsedTimes : StartScan(e)
               \/ Lock \/ EndScan \/ \E v \in Services : CleanUpService(v)
      BY <1>2, <2>4 DEF StartScan, Lock, EndScan, CleanUpService
    <2>. QED BY <1>4, <2>1, <2>2, <2>3, <2>4, CreateEffect DEF Background, Creators
  <1>5. ASSUME NEW t \in Tasks, AppTask(t) PROVE EndsOnly(s) /\ KeepsRequest(s)
    <2>1. CASE RunLoop(t)
      <3>1. /\ app[taskApp[t]].state = "EARLY_INIT"
            /\ app' = [app EXCEPT ![taskApp[t]].state = "RUNNING"]
        BY <2>1 DEF RunLoop
      <3>. QED BY <1>1, <3>1 DEF AppRecord
    <2>2. ASSUME NEW status \in ExitStatuses, ExitApp(t, status)
          PROVE  EndsOnly(s) /\ KeepsRequest(s)
      <3>1. app' = [app EXCEPT ![taskApp[t]].state = "STOPPED",
                      ![taskApp[t]].request = IF @ = "APP_RUN" THEN status ELSE @]
        BY <2>2 DEF ExitApp
      <3>2. /\ app'[s].state \in {app[s].state, "STOPPED"}
            /\ app[s].request # "APP_RUN" => app'[s].request = app[s].request
        BY <1>1, <3>1 DEF AppRecord
      <3>. QED BY <3>2 DEF SysRequests
    <2>3. CASE \/ CreateChildTask(t) \/ ExitChildTask(t)
               \/ \E u \in Tasks : DeleteChildTask(t, u)
               \/ \E v \in Used : Acquire(t, v)
      BY <1>2, <2>3 DEF CreateChildTask, ExitChildTask, DeleteChildTask, Acquire
    <2>. QED BY <1>5, <2>1, <2>2, <2>3 DEF AppTask
  <1>6. CASE UNCHANGED vars
    BY <1>2, <1>6 DEF vars
  <1>. QED BY <1>3, <1>4, <1>5, <1>6 DEF Next

-----------------------------------------------------------------------------
(* Theorems. *)

\* Tasks, slots, modules and counts agree however starts, exits, commands and
\* the background scan interleave (es/cfe_es_apps.c, es/cfe_es_api.c).
THEOREM LifecycleInvHolds == Spec => []LifecycleInv
PROOF
  BY InitInv, NextInv, PTL DEF Spec

\* Two applications never share a name, although CFE_ES_AppCreate does not
\* compare names (es/cfe_es_apps.c:352-549).
THEOREM NamesUniqueHolds == Spec => []NamesUnique
PROOF
  <1>1. LifecycleInv => NamesUnique
    BY DEF LifecycleInv
  <1>. QED BY <1>1, LifecycleInvHolds, PTL

\* What CFE_ES_ProcessControlRequest copied without the lock is current until
\* the application is gone (es/cfe_es_apps.c:889-1064).
THEOREM CopyStaysCurrentHolds == Spec => []CopyStaysCurrent
PROOF
  <1>1. LifecycleInv => CopyStaysCurrent
    BY DEF LifecycleInv
  <1>. QED BY <1>1, LifecycleInvHolds, PTL

\* A resource without an application was registered after its service had
\* cleaned up (es/cfe_es_apps.c:1073-1173).
THEOREM OnlyLateSurvivesHolds == Spec => []OnlyLateSurvives
PROOF
  <1>1. LifecycleInv => OnlyLateSurvives
    BY DEF LifecycleInv
  <1>. QED BY <1>1, LifecycleInvHolds, PTL

\* An application that is being ended never runs again.
THEOREM NoResurrectionHolds == Spec => NoResurrection
PROOF
  <1>1. LifecycleInv /\ [Next]_vars
          => [\A s \in Slots :
                app[s].state \in {"WAITING", "STOPPED"}
                  => app'[s].state \in {app[s].state, "STOPPED", "UNDEFINED"}]_vars
    BY StepEffect DEF EndsOnly
  <1>. QED BY <1>1, LifecycleInvHolds, PTL DEF Spec, NoResurrection

\* What the ground asked for stays asked for until the application is removed
\* (es/cfe_es_api.c:340-353).
THEOREM RequestSurvivesExitHolds == Spec => RequestSurvivesExit
PROOF
  <1>1. LifecycleInv /\ [Next]_vars
          => [\A s \in Slots :
                Started(s) /\ app[s].request \in SysRequests
                  => app'[s].request \in SysRequests \/ app'[s].state = "UNDEFINED"]_vars
    BY StepEffect DEF KeepsRequest
  <1>. QED BY <1>1, LifecycleInvHolds, PTL DEF Spec, RequestSurvivesExit

=============================================================================
