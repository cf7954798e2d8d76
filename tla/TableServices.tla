--------------------------- MODULE TableServices ---------------------------
(***************************************************************************)
(* Table Services (cfe-core/src/tbl): the table task carries out the       *)
(* ground's commands on the working image of a table, the application that *)
(* owns the table validates, updates and dumps it when it calls            *)
(* CFE_TBL_Manage, and users hold the address of the active image between  *)
(* GetAddress and ReleaseAddress.  Registry and access descriptors are     *)
(* read and written by all of them without a lock.                         *)
(*                                                                         *)
(* A step ends where the code waits for a file, calls the application's    *)
(* validation function, or is between two accesses of the registry that    *)
(* another task may come between: a command that looks and then writes, an *)
(* update that looks, installs and then tells, an address that is taken.   *)
(* Tables are registered and loaded once, as after the initialisation of   *)
(* their owner; the content of a buffer is an image or a part of one.      *)
(*                                                                         *)
(* An index that is used after it was reset leads out of its array.  What  *)
(* lies before LoadBuffs in CFE_TBL_TaskData is the last registry packet,  *)
(* and around Buffers other registry records: one cell each, at None,      *)
(* stands for that memory, and what is decided on it is not determined.    *)
(***************************************************************************)
EXTENDS Integers, FiniteSets

CONSTANTS
  Tables,           \* the tables, all owned by one application
  DoubleBuffered,   \* those with two buffers of their own
  DumpOnly,         \* those that are only dumped
  Sharers,          \* other applications with access to them
  Reads,            \* who takes the address of what: pairs of user and table
  Images, Good,     \* images in files; those the validation function accepts
  NumLoadBuffs,     \* CFE_PLATFORM_TBL_MAX_SIMULTANEOUS_LOADS
  NumValidations,   \* CFE_PLATFORM_TBL_MAX_NUM_VALIDATIONS
  MaxCommands,      \* bound: commands the ground sends
  Owner, Part       \* the owner's task; part of an image

\* CFE_TBL_NO_LOAD_IN_PROGRESS, _NO_VALIDATION_PENDING, _NO_DUMP_PENDING.
None == -1

ASSUME TablesAssumption ==
  DoubleBuffered \subseteq Tables /\ DumpOnly \subseteq Tables \ DoubleBuffered
ASSUME ImagesAssumption == Good \subseteq Images /\ Good # {} /\ Part \notin Images
ASSUME SizesAssumption ==
  NumLoadBuffs \in Nat /\ NumValidations \in Nat /\ MaxCommands \in Nat
ASSUME OwnerAssumption == Owner \notin Sharers
ASSUME ReadsAssumption == Reads \subseteq ({Owner} \cup Sharers) \X Tables

Users == {Owner} \cup Sharers
LoadBuffs == 0 .. NumLoadBuffs - 1
DumpBlocks == 0 .. NumLoadBuffs - 1
ValBlocks == 0 .. NumValidations - 1
Contents == Images \cup {Part}

VARIABLES
  active, inProgress, pending,   \* ActiveBufferIndex, LoadInProgress, LoadPending
  valIndex, dumpIndex,           \* ValidateInactiveIndex, DumpControlIndex
  buffer,                        \* Buffers of each table: content, Validated
  loadBuff, taken,               \* the shared working buffers
  valState, dump,                \* ValidationResults, DumpControlBlocks
  handle,                        \* access descriptors, by user and table
  tbl, commands,                 \* the table task: the command under way
  user,                          \* per user: the call under way
  crossed                        \* history: an abort was carried out while the
                                 \* owner was installing what it aborts

registry == <<active, inProgress, pending, valIndex, dumpIndex>>
buffers == <<buffer, loadBuff, taken>>
blocks == <<valState, dump>>
vars == <<active, inProgress, pending, valIndex, dumpIndex, buffer, loadBuff, taken,
          valState, dump, handle, tbl, commands, user, crossed>>

Buffer == [data : Contents, validated : BOOLEAN]
\* What a load writes to: a buffer of the table or a shared one.
Target == [own : {TRUE}, index : Int] \cup [own : {FALSE}, index : LoadBuffs \cup {None}]
Idle == [pc |-> "idle"]

Init ==
  /\ active = [t \in Tables |-> 0]
  /\ inProgress = [t \in Tables |-> None]
  /\ pending = [t \in Tables |-> FALSE]
  /\ valIndex = [t \in Tables |-> None] /\ dumpIndex = [t \in Tables |-> None]
  /\ \E img \in Good :
       /\ buffer = [t \in Tables |-> [i \in 0 .. 1 \cup {None} |->
                      [data |-> IF i = None THEN Part ELSE img, validated |-> FALSE]]]
       /\ loadBuff = [b \in LoadBuffs \cup {None} |->
                        [data |-> IF b = None THEN Part ELSE img, validated |-> FALSE]]
  /\ taken = [b \in LoadBuffs \cup {None} |-> b = None]
  /\ valState = [v \in ValBlocks |-> "free"]
  /\ dump = [d \in DumpBlocks |-> [state |-> "free", table |-> None, buff |-> None]]
  /\ handle = [u \in Users |-> [t \in Tables |-> [lock |-> FALSE, index |-> 0,
                                                  updated |-> TRUE]]]
  /\ tbl = Idle /\ commands = 0
  /\ user = [u \in Users |-> Idle]
  /\ crossed = FALSE

First(S) == CHOOSE n \in S : \A m \in S : n <= m

\* Where an index of Buffers leads.
Slot(i) == IF i \in 0 .. 1 THEN i ELSE None

\* The working image of a table with a load in progress.
Working(t) ==
  IF t \in DoubleBuffered THEN [own |-> TRUE, index |-> 1 - active[t]]
                          ELSE [own |-> FALSE, index |-> inProgress[t]]
Content(t, where) ==
  IF where.own THEN buffer[t][Slot(where.index)] ELSE loadBuff[where.index]

\* Write f(content) to a buffer.
Store(t, where, content) ==
  IF where.own
  THEN buffer' = [buffer EXCEPT ![t][Slot(where.index)] = content] /\ UNCHANGED loadBuff
  ELSE loadBuff' = [loadBuff EXCEPT ![where.index] = content] /\ UNCHANGED buffer

-----------------------------------------------------------------------------
(* The table task. *)

InactiveLocked(t) ==
  \E u \in Users : handle[u][t].lock /\ handle[u][t].index = 1 - active[t]
FreeLoadBuffs == {b \in LoadBuffs : ~taken[b]}

\* Mutant: the inactive buffer is taken although somebody holds its address.
WorkingAvailable_held(t) ==
  \/ inProgress[t] # None
  \/ t \in DoubleBuffered
  \/ t \notin DoubleBuffered /\ FreeLoadBuffs # {}

\* Mutant: the active buffer is taken for the inactive one.
WorkingIndex_active(t) ==
  IF inProgress[t] # None THEN inProgress[t]
  ELSE IF t \in DoubleBuffered THEN active[t] ELSE First(FreeLoadBuffs)

\* CFE_TBL_GetWorkingBuffer for the table task: the image in progress, or else
\* the inactive buffer if nobody holds it, or else a free shared buffer.
WorkingAvailable(t) ==
  \/ inProgress[t] # None
  \/ t \in DoubleBuffered /\ ~InactiveLocked(t)
  \/ t \notin DoubleBuffered /\ FreeLoadBuffs # {}
WorkingIndex(t) ==
  IF inProgress[t] # None THEN inProgress[t]
  ELSE IF t \in DoubleBuffered THEN 1 - active[t] ELSE First(FreeLoadBuffs)
TakeWorking(t) ==
  /\ inProgress' = [inProgress EXCEPT ![t] = WorkingIndex(t)]
  /\ taken' = IF t \in DoubleBuffered THEN taken
              ELSE [taken EXCEPT ![WorkingIndex(t)] = TRUE]

\* The table task takes a command from its pipe.
Command == tbl.pc = "idle" /\ commands < MaxCommands /\ commands' = commands + 1

\* Mutant: a table is loaded although its update is pending.
LoadCmd_pending(t, img) ==
  /\ Command
  /\ t \notin DumpOnly /\ WorkingAvailable(t)
  /\ TakeWorking(t)
  /\ LET where == [own |-> t \in DoubleBuffered, index |-> WorkingIndex(t)]
     IN /\ Store(t, where, [Content(t, where) EXCEPT !.data = Part])
        /\ tbl' = [pc |-> "read", table |-> t, where |-> where, image |-> img]
  /\ UNCHANGED <<active, pending, valIndex, dumpIndex, blocks, handle, user, crossed>>

\* CFE_TBL_LoadCmd up to the read of the file, which overwrites the buffer.  A
\* new buffer starts as a copy of the active image.
LoadCmd(t, img) ==
  /\ Command
  /\ t \notin DumpOnly /\ ~pending[t] /\ WorkingAvailable(t)
  /\ TakeWorking(t)
  /\ LET where == [own |-> t \in DoubleBuffered, index |-> WorkingIndex(t)]
     IN /\ Store(t, where, [Content(t, where) EXCEPT !.data = Part])
        /\ tbl' = [pc |-> "read", table |-> t, where |-> where, image |-> img]
  /\ UNCHANGED <<active, pending, valIndex, dumpIndex, blocks, handle, user, crossed>>

\* The read ends: with the whole image, with more than the header announced, or
\* short; in the last two cases the load fails and nothing is undone.
LoadRead ==
  /\ tbl.pc = "read"
  /\ \/ Store(tbl.table, tbl.where, [data |-> tbl.image, validated |-> FALSE])
     \/ Store(tbl.table, tbl.where, [Content(tbl.table, tbl.where) EXCEPT !.data = tbl.image])
     \/ UNCHANGED <<buffer, loadBuff>>
  /\ tbl' = Idle
  /\ UNCHANGED <<registry, taken, blocks, handle, user, commands, crossed>>

FreeValBlocks == {v \in ValBlocks : valState[v] = "free"}

\* CFE_TBL_ValidateCmd of the inactive image.
ValidateCmd(t) ==
  /\ Command
  /\ t \in DoubleBuffered \/ inProgress[t] # None
  /\ FreeValBlocks # {}
  /\ valState' = [valState EXCEPT ![First(FreeValBlocks)] = "pending"]
  /\ valIndex' = [valIndex EXCEPT ![t] = First(FreeValBlocks)]
  /\ UNCHANGED <<active, inProgress, pending, dumpIndex, buffers, dump, handle, tbl, user,
                 crossed>>

\* CFE_TBL_ActivateCmd looks for an image that is validated, and marks it.
ActivateCmd(t) ==
  /\ Command
  /\ t \notin DumpOnly /\ inProgress[t] # None
  /\ Content(t, Working(t)).validated \/ Slot(active[t]) = None
  /\ tbl' = [pc |-> "activate", table |-> t]
  /\ UNCHANGED <<registry, buffers, blocks, handle, user, crossed>>

ActivateMark ==
  /\ tbl.pc = "activate"
  /\ pending' = [pending EXCEPT ![tbl.table] = TRUE]
  /\ tbl' = Idle
  /\ UNCHANGED <<active, inProgress, valIndex, dumpIndex, buffers, blocks, handle, user,
                 commands, crossed>>

\* CFE_TBL_AbortLoadCmd looks for a load; CFE_TBL_AbortLoad undoes it.
AbortLoadCmd(t) ==
  /\ Command
  /\ t \notin DumpOnly /\ inProgress[t] # None
  /\ tbl' = [pc |-> "abort", table |-> t]
  /\ UNCHANGED <<registry, buffers, blocks, handle, user, crossed>>

\* The owner is between its look at the load of a table and the end of it.
Updating(t) == user[Owner].pc \in {"update", "notify"} /\ user[Owner].table = t

AbortLoad ==
  /\ tbl.pc = "abort"
  /\ LET t == tbl.table
     IN /\ taken' = IF t \in DoubleBuffered THEN taken
                    ELSE [taken EXCEPT ![inProgress[t]] = FALSE]
        /\ inProgress' = [inProgress EXCEPT ![t] = None]
        /\ pending' = [pending EXCEPT ![t] = FALSE]
        /\ crossed' = (crossed \/ Updating(t))
  /\ tbl' = Idle
  /\ UNCHANGED <<active, valIndex, dumpIndex, buffer, loadBuff, blocks, handle, user, commands>>

FreeDumpBlocks == {d \in DumpBlocks : dump[d].state = "free"}

\* CFE_TBL_DumpCmd of a dump-only table: the owner is asked to fill a buffer.
DumpCmd(t) ==
  /\ Command
  /\ t \in DumpOnly /\ dumpIndex[t] = None
  /\ FreeDumpBlocks # {} /\ WorkingAvailable(t)
  /\ TakeWorking(t)
  /\ loadBuff' = IF inProgress[t] # None THEN loadBuff
                 ELSE [loadBuff EXCEPT ![WorkingIndex(t)].data = buffer[t][0].data]
  /\ dump' = [dump EXCEPT ![First(FreeDumpBlocks)] =
                [state |-> "pending", table |-> t, buff |-> WorkingIndex(t)]]
  /\ dumpIndex' = [dumpIndex EXCEPT ![t] = First(FreeDumpBlocks)]
  /\ UNCHANGED <<active, pending, valIndex, buffer, valState, handle, tbl, user, crossed>>

\* CFE_TBL_HousekeepingCmd: reports one validation, writes the dumps that are
\* ready and frees the working buffer of their tables; with a second dump of
\* the same table it resets the flag before the first buffer.
HousekeepingCmd ==
  /\ tbl.pc = "idle"
  /\ LET ready == {d \in DumpBlocks : dump[d].state = "performed"}
         dumped == {dump[d].table : d \in ready}
         freed == {inProgress[t] : t \in dumped}
                    \cup {n \in {None} : Cardinality(ready) > Cardinality(dumped)}
         performed == {v \in ValBlocks : valState[v] = "performed"}
     IN /\ dump' = [d \in DumpBlocks |->
                      IF d \in ready THEN [dump[d] EXCEPT !.state = "free"] ELSE dump[d]]
        /\ taken' = [b \in LoadBuffs \cup {None} |-> taken[b] /\ b \notin freed]
        /\ inProgress' = [t \in Tables |-> IF t \in dumped THEN None ELSE inProgress[t]]
        /\ valState' = [v \in ValBlocks |->
                          IF performed # {} /\ v = First(performed) THEN "free"
                          ELSE valState[v]]
  /\ UNCHANGED <<active, pending, valIndex, dumpIndex, buffer, loadBuff, handle, tbl, user,
                 commands, crossed>>

-----------------------------------------------------------------------------
(* The users: addresses. *)

\* CFE_TBL_GetAddressInternal: the lock, the index of the active buffer, and
\* what is returned, one after the other.
GetAddress(u, t) ==
  /\ user[u].pc = "idle" /\ <<u, t>> \in Reads
  /\ handle' = [handle EXCEPT ![u][t].lock = TRUE]
  /\ user' = [user EXCEPT ![u] = [pc |-> "index", table |-> t]]
  /\ UNCHANGED <<registry, buffers, blocks, tbl, commands, crossed>>

ReadIndex(u) ==
  /\ user[u].pc = "index"
  /\ user' = [user EXCEPT ![u] = [pc |-> "store", table |-> user[u].table,
                                  index |-> active[user[u].table]]]
  /\ UNCHANGED <<registry, buffers, blocks, handle, tbl, commands, crossed>>

StoreIndex(u) ==
  /\ user[u].pc = "store"
  /\ handle' = [handle EXCEPT ![u][user[u].table] =
                  [lock |-> @.lock, index |-> user[u].index, updated |-> FALSE]]
  /\ user' = [user EXCEPT ![u] = Idle]
  /\ UNCHANGED <<registry, buffers, blocks, tbl, commands, crossed>>

ReleaseAddress(u, t) ==
  /\ user[u].pc = "idle" /\ handle[u][t].lock
  /\ handle' = [handle EXCEPT ![u][t].lock = FALSE]
  /\ UNCHANGED <<registry, buffers, blocks, tbl, user, commands, crossed>>

-----------------------------------------------------------------------------
(* The owner: CFE_TBL_Manage does what is pending, an update first. *)

Locked(t) == \E u \in Users : handle[u][t].lock

\* Mutant: a user that holds the address is not told.
NotifyTblUsersOfUpdate_free(t) ==
  handle' = [u \in Users |-> [handle[u] EXCEPT ![t].updated = @ \/ ~handle[u][t].lock]]

NotifyTblUsersOfUpdate(t) ==
  handle' = [u \in Users |-> [handle[u] EXCEPT ![t].updated = TRUE]]

\* CFE_TBL_UpdateInternal looks for a load to install, and that nobody holds
\* the address of a single-buffered table.
Update(t) ==
  /\ user[Owner].pc = "idle"
  /\ pending[t] /\ inProgress[t] # None
  /\ t \in DoubleBuffered \/ ~Locked(t)
  /\ user' = [user EXCEPT ![Owner] = [pc |-> "update", table |-> t, index |-> inProgress[t]]]
  /\ UNCHANGED <<registry, buffers, blocks, handle, tbl, commands, crossed>>

\* It swaps the buffers (the index becomes a uint8), or copies the working
\* image and frees its buffer.  The build may keep the index it has looked at
\* or read it again.
UpdateImage ==
  /\ user[Owner].pc = "update"
  /\ LET t == user[Owner].table
         Index == {user[Owner].index, inProgress[t]}
     IN /\ \/ /\ t \in DoubleBuffered
              /\ \E i \in Index : active' = [active EXCEPT ![t] = i % 256]
              /\ UNCHANGED buffers
           \/ /\ t \notin DoubleBuffered
              /\ \E i \in Index : buffer' = [buffer EXCEPT ![t][0].data = loadBuff[i].data]
              /\ \E i \in Index : taken' = [taken EXCEPT ![i] = FALSE]
              /\ UNCHANGED <<active, loadBuff>>
        /\ user' = [user EXCEPT ![Owner] = [pc |-> "notify", table |-> t]]
  /\ UNCHANGED <<inProgress, pending, valIndex, dumpIndex, blocks, handle, tbl, commands,
                 crossed>>

UpdateNotify ==
  /\ user[Owner].pc = "notify"
  /\ LET t == user[Owner].table
     IN /\ inProgress' = [inProgress EXCEPT ![t] = None]
        /\ pending' = [pending EXCEPT ![t] = FALSE]
        /\ NotifyTblUsersOfUpdate(t)
  /\ user' = [user EXCEPT ![Owner] = Idle]
  /\ UNCHANGED <<active, valIndex, dumpIndex, buffers, blocks, tbl, commands, crossed>>

\* The working image is a buffer.
HasWorking(t) == IF t \in DoubleBuffered THEN active[t] \in 0 .. 1 ELSE inProgress[t] # None

\* CFE_TBL_Validate: the function judges the working image; without one (the
\* load was aborted or installed) it is given what lies out of the buffers.
Validate(t) ==
  /\ user[Owner].pc = "idle"
  /\ ~pending[t] /\ valIndex[t] # None
  /\ \E ok \in IF HasWorking(t) THEN {Content(t, Working(t)).data \in Good} ELSE BOOLEAN :
       user' = [user EXCEPT ![Owner] = [pc |-> "validate", table |-> t, ok |-> ok]]
  /\ UNCHANGED <<registry, buffers, blocks, handle, tbl, commands, crossed>>

ValidateDone ==
  /\ user[Owner].pc = "validate"
  /\ LET t == user[Owner].table
     IN /\ IF user[Owner].ok
           THEN Store(t, Working(t), [Content(t, Working(t)) EXCEPT !.validated = TRUE])
           ELSE UNCHANGED <<buffer, loadBuff>>
        /\ valState' = [valState EXCEPT ![valIndex[t]] = "performed"]
        /\ valIndex' = [valIndex EXCEPT ![t] = None]
  /\ user' = [user EXCEPT ![Owner] = Idle]
  /\ UNCHANGED <<active, inProgress, pending, dumpIndex, taken, dump, handle, tbl, commands,
                 crossed>>

\* CFE_TBL_DumpToBuffer.
DumpToBuffer(t) ==
  /\ user[Owner].pc = "idle"
  /\ ~pending[t] /\ valIndex[t] = None /\ dumpIndex[t] # None
  /\ loadBuff' = [loadBuff EXCEPT ![dump[dumpIndex[t]].buff].data = buffer[t][0].data]
  /\ dump' = [dump EXCEPT ![dumpIndex[t]].state = "performed"]
  /\ dumpIndex' = [dumpIndex EXCEPT ![t] = None]
  /\ UNCHANGED <<active, inProgress, pending, valIndex, buffer, taken, valState, handle,
                 tbl, user, commands, crossed>>

Manage(t) == Update(t) \/ Validate(t) \/ DumpToBuffer(t)

-----------------------------------------------------------------------------
(* Next. *)

TableTask ==
  \/ \E t \in Tables :
       \/ \E img \in Images : LoadCmd(t, img)
       \/ ValidateCmd(t) \/ ActivateCmd(t) \/ AbortLoadCmd(t) \/ DumpCmd(t)
  \/ LoadRead \/ ActivateMark \/ AbortLoad \/ HousekeepingCmd

UserCall(u) ==
  \/ \E t \in Tables : GetAddress(u, t) \/ ReleaseAddress(u, t)
  \/ ReadIndex(u) \/ StoreIndex(u)

Next ==
  \/ TableTask
  \/ \E u \in Users : UserCall(u)
  \/ (\E t \in Tables : Manage(t)) \/ UpdateImage \/ UpdateNotify \/ ValidateDone

Spec == Init /\ [][Next]_vars

-----------------------------------------------------------------------------
(* Properties. *)

UserState ==
  {Idle} \cup [pc : {"index", "notify"}, table : Tables]
    \cup [pc : {"store"}, table : Tables, index : 0 .. 255]
    \cup [pc : {"update"}, table : Tables, index : Int]
    \cup [pc : {"validate"}, table : Tables, ok : BOOLEAN]

\* Every variable has its type.
TypeOK ==
  /\ active \in [Tables -> 0 .. 255]
  /\ inProgress \in [Tables -> Int]
  /\ \A t \in Tables \ DoubleBuffered : inProgress[t] \in LoadBuffs \cup {None}
  /\ pending \in [Tables -> BOOLEAN]
  /\ valIndex \in [Tables -> ValBlocks \cup {None}]
  /\ dumpIndex \in [Tables -> DumpBlocks \cup {None}]
  /\ buffer \in [Tables -> [0 .. 1 \cup {None} -> Buffer]]
  /\ loadBuff \in [LoadBuffs \cup {None} -> Buffer]
  /\ taken \in [LoadBuffs \cup {None} -> BOOLEAN]
  /\ valState \in [ValBlocks -> {"free", "pending", "performed"}]
  /\ dump \in [DumpBlocks -> [state : {"free", "pending", "performed"},
                              table : Tables \cup {None}, buff : LoadBuffs \cup {None}]]
  /\ handle \in [Users -> [Tables -> [lock : BOOLEAN, index : 0 .. 255, updated : BOOLEAN]]]
  /\ tbl \in {Idle} \cup [pc : {"read"}, table : Tables, where : Target, image : Images]
               \cup [pc : {"activate", "abort"}, table : Tables]
  /\ user \in [Users -> UserState]
  /\ commands \in 0 .. MaxCommands /\ crossed \in BOOLEAN

Loadable == Tables \ DumpOnly

\* The image of a load has been installed, and the load is about to end.
Installed(t) == user[Owner].pc = "notify" /\ user[Owner].table = t

\* A load in progress has a working image of its own: the inactive buffer, or a
\* shared buffer that is taken and that no other load has.
LoadsApart ==
  \A t \in Loadable : inProgress[t] # None /\ ~Installed(t) =>
    IF t \in DoubleBuffered THEN inProgress[t] = 1 - active[t]
    ELSE /\ inProgress[t] \in LoadBuffs /\ taken[inProgress[t]]
         /\ \A s \in Tables \ DoubleBuffered :
              s # t /\ ~Installed(s) => inProgress[s] # inProgress[t]

\* The file being read goes to the working image of its table, whatever was
\* commanded or called since the buffer was chosen, and never to the active one.
ReadsIntoWorking ==
  tbl.pc = "read" =>
    /\ inProgress[tbl.table] # None /\ tbl.where = Working(tbl.table)
    /\ ~pending[tbl.table] /\ ~Updating(tbl.table)

\* What the owner installs is the image it looked for, and it is not aborted.
InstallsInProgress ==
  \A t \in Tables : Updating(t) =>
    /\ pending[t] /\ inProgress[t] # None
    /\ user[Owner].pc = "update" => inProgress[t] = user[Owner].index

\* The table task and the owner agree on what is loaded where, although both
\* read and write the registry without a lock: an activation may even be marked
\* when its image is installed already.  The one thing they must not do is to
\* abort a load while the owner installs it.
TablesInv ==
  TypeOK /\ (~crossed => LoadsApart /\ ReadsIntoWorking /\ InstallsInProgress)

Held(u, t) == handle[u][t].lock /\ ~(user[u].pc \in {"index", "store"} /\ user[u].table = t)

\* An owner that was told of no update holds the image that is active, even
\* after an abort in the middle of one.
NotToldMeansCurrent ==
  \A t \in DoubleBuffered :
    Held(Owner, t) /\ ~handle[Owner][t].updated /\ ~Installed(t) =>
      handle[Owner][t].index = active[t]

\* Between GetAddress and ReleaseAddress the image behind the owner's address
\* does not change, though it may have stopped being the active one, unless a
\* load was aborted while the owner installed it.
OwnersImageStable ==
  [][~crossed' => \A t \in Tables :
       Held(Owner, t) =>
         LET i == handle[Owner][t].index IN buffer'[t][Slot(i)].data = buffer[t][Slot(i)].data]_vars

ActiveImage(t) == buffer[t][Slot(active[t])].data

\* Whatever the ground commands, a table changes only where its owner calls
\* Manage, to the image in progress, whose update is pending.
ChangesInManageOnly ==
  [][~crossed' => \A t \in Tables : ActiveImage(t)' # ActiveImage(t) =>
       /\ UpdateImage /\ Updating(t) /\ pending[t]
       /\ ActiveImage(t)' = Content(t, Working(t)).data]_vars

\* Only an image that the validation function accepts becomes active
\* (docs/src/cfe_tbl.dox:213-215: the cFE refuses to let a table be activated
\* until a successful validation on the inactive image has occurred).
ActiveImageValid ==
  \A t \in Loadable : ActiveImage(t) \in Good

-----------------------------------------------------------------------------
(* The inductive invariant behind these properties. *)

\* Every working image is apart from the others, those of dumps included.
WorkingApart ==
  \A t \in Tables : inProgress[t] # None /\ ~Installed(t) =>
    IF t \in DoubleBuffered THEN inProgress[t] = 1 - active[t]
    ELSE /\ inProgress[t] \in LoadBuffs /\ taken[inProgress[t]]
         /\ \A s \in Tables \ DoubleBuffered :
              s # t /\ ~Installed(s) => inProgress[s] # inProgress[t]

\* A dump-only table has no update pending, and a dump is of such a table, so
\* that writing the dumps ends no load.
DumpsApart ==
  /\ \A t \in DumpOnly : ~pending[t] /\ ~Updating(t)
  /\ tbl.pc \in {"activate", "abort"} => tbl.table \notin DumpOnly
  /\ \A d \in DumpBlocks : dump[d].state # "free" => dump[d].table \in DumpOnly
  /\ \A t \in Tables : dumpIndex[t] # None => dump[dumpIndex[t]].table \in DumpOnly

\* The owner does not update while it takes an address, nor a single-buffered
\* table while it holds its address.
OwnerInOneCall ==
  /\ user[Owner].pc = "store" => user[Owner].index = active[user[Owner].table]
  /\ user[Owner].pc = "update" /\ user[Owner].table \notin DoubleBuffered =>
       user[Owner].index \in LoadBuffs /\ ~handle[Owner][user[Owner].table].lock
  /\ \A u \in Sharers : user[u].pc \notin {"update", "notify", "validate"}

\* Nothing is loaded into the image that the owner holds.
OwnerReadsActive ==
  \A t \in DoubleBuffered :
    /\ handle[Owner][t].index \in 0 .. 1
    /\ Held(Owner, t) /\ inProgress[t] # None /\ ~Installed(t) =>
         handle[Owner][t].index = active[t]

\* What holds as long as no abort crosses an update.
Agreed ==
  /\ \A t \in Tables : active[t] \in 0 .. 1
  /\ WorkingApart
  /\ ReadsIntoWorking
  /\ InstallsInProgress
  /\ OwnerReadsActive

IInv ==
  /\ TypeOK
  /\ DumpsApart
  /\ OwnerInOneCall
  /\ NotToldMeansCurrent
  /\ ~crossed => Agreed
=============================================================================
