------------------------- MODULE TableServicesProofs -------------------------
(***************************************************************************)
(* Proofs about TableServices: its inductive invariant, one lemma per step *)
(* of the table task, of the users and of the owner, and the two           *)
(* properties of the images an address leads to.                           *)
(***************************************************************************)
EXTENDS TableServices, WellFoundedInduction, TLAPS

-----------------------------------------------------------------------------
(* Facts about the operators of the module. *)

\* The loops of the code stop at the first entry that is free.
LEMMA FirstIsMember ==
  ASSUME NEW S \in SUBSET Nat, S # {}
  PROVE  First(S) \in S
<1>1. PICK n \in S : \A m \in S : ~(<<m, n>> \in OpToRel(<, Nat))
  BY NatLessThanWellFounded, WFMin
<1>2. n \in Nat /\ S \subseteq Nat
  OBVIOUS
<1>3. \A m \in S : ~(m < n)
  BY <1>1, <1>2, Zenon DEF OpToRel
<1>4. \A m \in S : n <= m
  BY <1>2, <1>3
<1> QED
  BY <1>4 DEF First

\* None is no index of a block, and an index leads to a buffer or to None.
LEMMA IndexFacts ==
  /\ None \in Int /\ None \notin Nat
  /\ LoadBuffs \subseteq Nat /\ DumpBlocks \subseteq Nat /\ ValBlocks \subseteq Nat
  /\ \A i \in Int : Slot(i) \in 0 .. 1 \cup {None}
  /\ \A i \in 0 .. 1 : Slot(i) = i
  BY SizesAssumption DEF None, LoadBuffs, DumpBlocks, ValBlocks, Slot

\* One access descriptor is replaced.
LEMMA HandleUpdate ==
  ASSUME handle \in [Users -> [Tables -> [lock : BOOLEAN, index : 0 .. 255, updated : BOOLEAN]]],
         NEW u \in Users, NEW t \in Tables,
         NEW h \in [lock : BOOLEAN, index : 0 .. 255, updated : BOOLEAN],
         handle' = [handle EXCEPT ![u] = [handle[u] EXCEPT ![t] = h]]
  PROVE  /\ handle' \in [Users -> [Tables -> [lock : BOOLEAN, index : 0 .. 255, updated : BOOLEAN]]]
         /\ handle'[u][t] = h
         /\ \A v \in Users, s \in Tables : ~(v = u /\ s = t) => handle'[v][s] = handle[v][s]
<1>1. handle'[u] = [handle[u] EXCEPT ![t] = h] /\ \A v \in Users : v # u => handle'[v] = handle[v]
  OBVIOUS
<1>2. /\ handle'[u] \in [Tables -> [lock : BOOLEAN, index : 0 .. 255, updated : BOOLEAN]]
      /\ handle'[u][t] = h /\ \A s \in Tables : s # t => handle'[u][s] = handle[u][s]
  BY <1>1
<1>3. handle' \in [Users -> [Tables -> [lock : BOOLEAN, index : 0 .. 255, updated : BOOLEAN]]]
  BY <1>1, <1>2
<1> QED
  BY <1>1, <1>2, <1>3

LEMMA UserFacts ==
  ASSUME TypeOK, NEW u \in Users
  PROVE  /\ user[u].pc \in {"index", "notify", "store", "update", "validate"} =>
              user[u].table \in Tables
         /\ user[u].pc = "store" => user[u].index \in 0 .. 255
         /\ user[u].pc = "update" => user[u].index \in Int
         /\ user[u].pc = "validate" => user[u].ok \in BOOLEAN
  BY DEF TypeOK, UserState, Idle

LEMMA TblFacts ==
  ASSUME TypeOK
  PROVE  /\ tbl.pc \in {"read", "activate", "abort"} => tbl.table \in Tables
         /\ tbl.pc = "read" => tbl.where \in Target /\ tbl.image \in Images
  BY DEF TypeOK, Idle

\* What a target leads to is a buffer.
LEMMA ContentFacts ==
  ASSUME TypeOK, NEW t \in Tables, NEW where \in Target
  PROVE  Content(t, where) \in Buffer
<1>1. CASE where.own
  <2>1. where.index \in Int
    BY <1>1 DEF Target
  <2>2. PICK i \in 0 .. 1 \cup {None} : i = Slot(where.index)
    BY <2>1, IndexFacts
  <2> QED
    BY <1>1, <2>2 DEF Content, TypeOK
<1>2. CASE ~where.own
  <2>1. where.index \in LoadBuffs \cup {None}
    BY <1>2 DEF Target
  <2> QED
    BY <1>2, <2>1 DEF Content, TypeOK
<1> QED
  BY <1>1, <1>2

\* A working image is a buffer of the table or one of the shared buffers.
LEMMA WorkingFacts ==
  ASSUME TypeOK, NEW t \in Tables
  PROVE  /\ Working(t) \in Target
         /\ Working(t).own <=> t \in DoubleBuffered
         /\ t \in DoubleBuffered => Working(t).index = 1 - active[t]
         /\ t \notin DoubleBuffered => Working(t).index = inProgress[t]
<1>1. active[t] \in 0 .. 255 /\ 1 - active[t] \in Int
  BY DEF TypeOK
<1>2. t \notin DoubleBuffered => inProgress[t] \in LoadBuffs \cup {None}
  BY DEF TypeOK
<1> QED
  BY <1>1, <1>2 DEF Working, Target

\* What TakeWorking takes.
LEMMA WorkingIndexFacts ==
  ASSUME TypeOK, NEW t \in Tables, WorkingAvailable(t)
  PROVE  /\ WorkingIndex(t) \in Int
         /\ t \notin DoubleBuffered => WorkingIndex(t) \in LoadBuffs
<1>1. CASE inProgress[t] # None
  BY <1>1 DEF WorkingIndex, TypeOK
<1>2. CASE inProgress[t] = None /\ t \in DoubleBuffered
  <2>1. active[t] \in 0 .. 255
    BY DEF TypeOK
  <2> QED
    BY <1>2, <2>1 DEF WorkingIndex
<1>3. CASE inProgress[t] = None /\ t \notin DoubleBuffered
  <2>1. FreeLoadBuffs \subseteq Nat /\ FreeLoadBuffs # {} /\ FreeLoadBuffs \subseteq LoadBuffs
    BY <1>3, IndexFacts DEF FreeLoadBuffs, WorkingAvailable
  <2>2. WorkingIndex(t) \in FreeLoadBuffs
    BY <1>3, <2>1, FirstIsMember DEF WorkingIndex
  <2>3. WorkingIndex(t) \in LoadBuffs /\ WorkingIndex(t) \in Nat
    BY <2>1, <2>2
  <2> QED
    BY <2>3
<1> QED
  BY <1>1, <1>2, <1>3

\* It is in no other table's progress, nor active.
LEMMA WorkingIndexApart ==
  ASSUME TypeOK, \A s \in Tables : active[s] \in 0 .. 1, WorkingApart,
         NEW t \in Tables, WorkingAvailable(t), ~Installed(t)
  PROVE  /\ t \in DoubleBuffered => WorkingIndex(t) = 1 - active[t]
         /\ WorkingIndex(t) # None
         /\ t \notin DoubleBuffered =>
              \A s \in Tables \ DoubleBuffered :
                s # t /\ ~Installed(s) => inProgress[s] # WorkingIndex(t)
<1>1. CASE t \in DoubleBuffered
  <2>1. WorkingIndex(t) = 1 - active[t]
    BY <1>1 DEF WorkingIndex, WorkingApart
  <2>2. active[t] \in 0 .. 1
    OBVIOUS
  <2> QED
    BY <1>1, <2>1, <2>2 DEF None
<1>2. CASE t \notin DoubleBuffered
  <2>1. WorkingIndex(t) \in LoadBuffs /\ WorkingIndex(t) # None
    BY <1>2, WorkingIndexFacts, IndexFacts
  <2>2. CASE inProgress[t] # None
    BY <1>2, <2>1, <2>2 DEF WorkingIndex, WorkingApart
  <2>3. CASE inProgress[t] = None
    <3>1. FreeLoadBuffs \subseteq Nat /\ FreeLoadBuffs # {}
      BY <1>2, <2>3, IndexFacts DEF FreeLoadBuffs, WorkingAvailable
    <3>2. WorkingIndex(t) \in FreeLoadBuffs
      BY <1>2, <2>3, <3>1, FirstIsMember DEF WorkingIndex
    <3>3. ~taken[WorkingIndex(t)]
      BY <3>2 DEF FreeLoadBuffs
    <3>4. ASSUME NEW s \in Tables \ DoubleBuffered, ~Installed(s), inProgress[s] = WorkingIndex(t)
          PROVE  FALSE
      <4>1. taken[inProgress[s]]
        BY <2>1, <3>4 DEF WorkingApart
      <4> QED
        BY <3>3, <3>4, <4>1, Zenon
    <3> QED
      BY <1>2, <2>1, <3>4
  <2> QED
    BY <2>2, <2>3
<1> QED
  BY <1>1, <1>2

\* A store changes the one buffer it names.
LEMMA StoreFacts ==
  ASSUME TypeOK, NEW t \in Tables, NEW where \in Target, NEW c \in Buffer,
         Store(t, where, c)
  PROVE  /\ buffer' \in [Tables -> [0 .. 1 \cup {None} -> Buffer]]
         /\ loadBuff' \in [LoadBuffs \cup {None} -> Buffer]
         /\ \A s \in Tables, i \in 0 .. 1 \cup {None} :
              buffer'[s][i] = IF where.own /\ s = t /\ i = Slot(where.index) THEN c
                              ELSE buffer[s][i]
<1>1. CASE where.own
  <2>1. PICK j \in 0 .. 1 \cup {None} : j = Slot(where.index)
    BY <1>1, IndexFacts DEF Target
  <2>2. buffer' = [buffer EXCEPT ![t] = [buffer[t] EXCEPT ![j] = c]]
        /\ loadBuff' = loadBuff
    BY <1>1, <2>1 DEF Store
  <2>3. buffer \in [Tables -> [0 .. 1 \cup {None} -> Buffer]]
    BY DEF TypeOK
  <2>4. buffer'[t] = [buffer[t] EXCEPT ![j] = c] /\ \A s \in Tables : s # t => buffer'[s] = buffer[s]
    BY <2>2, <2>3
  <2>5. buffer' \in [Tables -> [0 .. 1 \cup {None} -> Buffer]]
    BY <2>2, <2>3
  <2>6. loadBuff' \in [LoadBuffs \cup {None} -> Buffer]
    BY <2>2 DEF TypeOK
  <2>7. \A i \in 0 .. 1 \cup {None} : buffer'[t][i] = IF i = j THEN c ELSE buffer[t][i]
    <3>1. buffer[t] \in [0 .. 1 \cup {None} -> Buffer]
      BY <2>3
    <3> QED
      BY <2>4, <3>1
  <2>8. ASSUME NEW s \in Tables, NEW i \in 0 .. 1 \cup {None}
        PROVE  buffer'[s][i] = IF where.own /\ s = t /\ i = Slot(where.index) THEN c
                               ELSE buffer[s][i]
    <3>1. CASE s = t
      BY <1>1, <2>1, <2>7, <3>1
    <3>2. CASE s # t
      BY <2>4, <3>2
    <3> QED
      BY <3>1, <3>2
  <2> QED
    BY <2>5, <2>6, <2>8
<1>2. CASE ~where.own
  <2>1. loadBuff' = [loadBuff EXCEPT ![where.index] = c] /\ buffer' = buffer
    BY <1>2 DEF Store
  <2> QED
    BY <1>2, <2>1 DEF TypeOK
<1> QED
  BY <1>1, <1>2

-----------------------------------------------------------------------------
(* The steps of the table task. *)

\* The table task leaves the users and the active images alone, and takes the
\* inactive image of a table only when nobody holds its address.
LEMMA TaskStep ==
  ASSUME IInv, TypeOK', DumpsApart', UNCHANGED <<active, handle, user>>,
         ~crossed' => ~crossed,
         ~crossed' => WorkingApart' /\ ReadsIntoWorking' /\ InstallsInProgress',
         \A t \in DoubleBuffered : inProgress'[t] # None =>
           inProgress[t] # None \/ ~InactiveLocked(t)
  PROVE  IInv'
<1>1. NotToldMeansCurrent' /\ OwnerInOneCall'
  BY DEF IInv, NotToldMeansCurrent, OwnerInOneCall, Held, Installed
<1>2. ASSUME ~crossed' PROVE OwnerReadsActive'
  <2>1. \A t \in DoubleBuffered :
          Held(Owner, t) /\ ~InactiveLocked(t) => handle[Owner][t].index = active[t]
    <3> SUFFICES ASSUME NEW t \in DoubleBuffered, Held(Owner, t), ~InactiveLocked(t)
                 PROVE  handle[Owner][t].index = active[t]
      OBVIOUS
    <3>1. handle[Owner][t].index # 1 - active[t]
      BY DEF Held, InactiveLocked, Users
    <3>2. active[t] \in 0 .. 1 /\ handle[Owner][t].index \in 0 .. 1
      BY <1>2, TablesAssumption DEF IInv, Agreed, OwnerReadsActive
    <3> QED
      BY <3>1, <3>2
  <2> QED
    BY <1>2, <2>1 DEF IInv, Agreed, OwnerReadsActive, Held, Installed
<1>3. ~crossed' => Agreed'
  BY <1>2 DEF IInv, Agreed
<1> QED
  BY <1>1, <1>3 DEF IInv

LEMMA LoadCmdStep ==
  ASSUME IInv, NEW t \in Tables, NEW img \in Images, LoadCmd(t, img)
  PROVE  IInv'
<1>0. TypeOK
  BY DEF IInv
<1>1. WorkingIndex(t) \in Int /\ (t \notin DoubleBuffered => WorkingIndex(t) \in LoadBuffs)
  BY <1>0, WorkingIndexFacts DEF LoadCmd
<1>2. PICK where \in Target : /\ where = [own |-> t \in DoubleBuffered, index |-> WorkingIndex(t)]
                              /\ where.own <=> t \in DoubleBuffered
                              /\ where.index = WorkingIndex(t)
  <2>1. CASE t \in DoubleBuffered
    <3>1. [own |-> TRUE, index |-> WorkingIndex(t)] \in Target
      BY <1>1 DEF Target
    <3>2. (t \in DoubleBuffered) = TRUE
      BY <2>1
    <3> QED
      BY <3>1, <3>2
  <2>2. CASE t \notin DoubleBuffered
    <3>1. [own |-> FALSE, index |-> WorkingIndex(t)] \in Target
      BY <1>1, <2>2 DEF Target
    <3>2. (t \in DoubleBuffered) = FALSE
      BY <2>2
    <3> QED
      BY <3>1, <3>2
  <2> QED
    BY <2>1, <2>2
<1>3. PICK c \in Buffer : c = [Content(t, where) EXCEPT !.data = Part]
  <2>1. [Content(t, where) EXCEPT !.data = Part] \in Buffer
    BY <1>0, ContentFacts DEF Buffer, Contents
  <2> QED
    BY <2>1
<1>4. /\ UNCHANGED <<active, pending, valIndex, dumpIndex, valState, dump, handle, user, crossed>>
      /\ WorkingAvailable(t) /\ ~pending[t] /\ t \notin DumpOnly
      /\ TakeWorking(t) /\ Store(t, where, c)
      /\ tbl' = [pc |-> "read", table |-> t, where |-> where, image |-> img]
      /\ commands < MaxCommands /\ commands' = commands + 1
  BY <1>2, <1>3 DEF LoadCmd, Command, blocks
<1>5. /\ buffer' \in [Tables -> [0 .. 1 \cup {None} -> Buffer]]
      /\ loadBuff' \in [LoadBuffs \cup {None} -> Buffer]
  BY <1>0, <1>4, StoreFacts
<1>6. /\ inProgress' \in [Tables -> Int] /\ inProgress'[t] = WorkingIndex(t)
      /\ \A s \in Tables \ DoubleBuffered : inProgress'[s] \in LoadBuffs \cup {None}
      /\ \A s \in Tables \ {t} : inProgress'[s] = inProgress[s]
  BY <1>0, <1>1, <1>4 DEF TakeWorking, TypeOK
<1>7. /\ taken' \in [LoadBuffs \cup {None} -> BOOLEAN]
      /\ t \notin DoubleBuffered => taken'[WorkingIndex(t)]
      /\ \A b \in LoadBuffs : taken[b] => taken'[b]
  BY <1>0, <1>1, <1>4 DEF TakeWorking, TypeOK
<1>8. tbl' \in [pc : {"read"}, table : Tables, where : Target, image : Images]
      /\ tbl'.pc = "read" /\ tbl'.table = t /\ tbl'.where = where
  BY <1>4
<1>9. commands' \in 0 .. MaxCommands
  BY <1>0, <1>4, SizesAssumption DEF TypeOK
<1>10. TypeOK'
  BY <1>0, <1>4, <1>5, <1>6, <1>7, <1>8, <1>9 DEF TypeOK
<1>11. DumpsApart'
  BY <1>4, <1>8 DEF IInv, DumpsApart, Updating
<1>12. ASSUME ~crossed'
       PROVE  WorkingApart' /\ ReadsIntoWorking' /\ InstallsInProgress'
  <2>0. Agreed /\ ~crossed
    BY <1>4, <1>12 DEF IInv
  <2>1. ~Updating(t) /\ ~Installed(t)
    BY <1>4, <2>0 DEF Agreed, InstallsInProgress, Updating, Installed
  <2>2. /\ t \in DoubleBuffered => WorkingIndex(t) = 1 - active[t]
        /\ WorkingIndex(t) # None
        /\ t \notin DoubleBuffered =>
             \A s \in Tables \ DoubleBuffered :
               s # t /\ ~Installed(s) => inProgress[s] # WorkingIndex(t)
    BY <1>0, <1>4, <2>0, <2>1, WorkingIndexApart DEF Agreed
  <2>3. \A s \in Tables : (Installed(s)' <=> Installed(s)) /\ (Updating(s)' <=> Updating(s))
    BY <1>4 DEF Installed, Updating
  <2>4. WorkingApart'
    <3> SUFFICES ASSUME NEW s \in Tables, inProgress'[s] # None, ~Installed(s)
                 PROVE  IF s \in DoubleBuffered THEN inProgress'[s] = 1 - active'[s]
                        ELSE /\ inProgress'[s] \in LoadBuffs /\ taken'[inProgress'[s]]
                             /\ \A r \in Tables \ DoubleBuffered :
                                  r # s /\ ~Installed(r) => inProgress'[r] # inProgress'[s]
      BY <2>3 DEF WorkingApart
    <3>1. CASE s = t
      BY <1>1, <1>4, <1>6, <1>7, <2>2, <3>1
    <3>2. CASE s # t
      <4>1. inProgress'[s] = inProgress[s] /\ inProgress[s] # None
        BY <1>6, <3>2
      <4>2. IF s \in DoubleBuffered THEN inProgress[s] = 1 - active[s]
            ELSE /\ inProgress[s] \in LoadBuffs /\ taken[inProgress[s]]
                 /\ \A r \in Tables \ DoubleBuffered :
                      r # s /\ ~Installed(r) => inProgress[r] # inProgress[s]
        BY <2>0, <4>1 DEF Agreed, WorkingApart
      <4>3. s \notin DoubleBuffered /\ t \notin DoubleBuffered =>
              WorkingIndex(t) # inProgress[s]
        BY <2>2, <3>2
      <4> QED
        BY <1>4, <1>6, <1>7, <4>1, <4>2, <4>3
    <3> QED
      BY <3>1, <3>2
  <2>5. Working(t)' = where
    <3>1. CASE t \in DoubleBuffered
      <4>1. (t \in DoubleBuffered) = TRUE
        BY <3>1
      <4>2. where = [own |-> TRUE, index |-> 1 - active[t]]
        BY <1>2, <2>2, <3>1, <4>1, Zenon
      <4> QED
        BY <1>4, <3>1, <4>2 DEF Working
    <3>2. CASE t \notin DoubleBuffered
      <4>1. (t \in DoubleBuffered) = FALSE
        BY <3>2
      <4>2. where = [own |-> FALSE, index |-> inProgress'[t]]
        BY <1>2, <1>6, <4>1, Zenon
      <4> QED
        BY <1>4, <3>2, <4>2 DEF Working
    <3> QED
      BY <3>1, <3>2
  <2>6. ReadsIntoWorking'
    BY <1>4, <1>6, <1>8, <2>1, <2>2, <2>3, <2>5 DEF ReadsIntoWorking
  <2>7. InstallsInProgress'
    BY <1>4, <1>6, <2>0, <2>1, <2>3 DEF Agreed, InstallsInProgress
  <2> QED
    BY <2>4, <2>6, <2>7
<1>13. \A s \in DoubleBuffered : inProgress'[s] # None =>
         inProgress[s] # None \/ ~InactiveLocked(s)
  BY <1>4, <1>6, TablesAssumption DEF WorkingAvailable
<1> QED
  BY <1>4, <1>10, <1>11, <1>12, <1>13, TaskStep

LEMMA LoadReadStep ==
  ASSUME IInv, LoadRead
  PROVE  IInv'
<1>0. TypeOK
  BY DEF IInv
<1>1. UNCHANGED <<active, inProgress, pending, valIndex, dumpIndex, taken, valState, dump,
                  handle, user, commands, crossed>>
      /\ tbl' = Idle
  BY DEF LoadRead, registry, blocks
<1>2. PICK t \in Tables, where \in Target, img \in Images :
        tbl.table = t /\ tbl.where = where /\ tbl.image = img
  BY <1>0, TblFacts DEF LoadRead
<1>3. PICK c \in Buffer : Store(t, where, c) \/ UNCHANGED <<buffer, loadBuff>>
  <2>1. [data |-> img, validated |-> FALSE] \in Buffer
        /\ [Content(t, where) EXCEPT !.data = img] \in Buffer
    BY <1>0, ContentFacts DEF Buffer, Contents
  <2> QED
    BY <1>2, <2>1 DEF LoadRead
<1>4. /\ buffer' \in [Tables -> [0 .. 1 \cup {None} -> Buffer]]
      /\ loadBuff' \in [LoadBuffs \cup {None} -> Buffer]
  <2>1. CASE Store(t, where, c)
    BY <1>0, <2>1, StoreFacts
  <2>2. CASE UNCHANGED <<buffer, loadBuff>>
    BY <1>0, <2>2 DEF TypeOK
  <2> QED
    BY <1>3, <2>1, <2>2
<1>5. TypeOK'
  BY <1>0, <1>1, <1>4 DEF TypeOK
<1>6. DumpsApart'
  BY <1>1 DEF IInv, DumpsApart, Updating, Idle
<1>7. ~crossed' => WorkingApart' /\ ReadsIntoWorking' /\ InstallsInProgress'
  BY <1>1 DEF IInv, Agreed, WorkingApart, ReadsIntoWorking, InstallsInProgress, Updating,
              Installed, Idle
<1> QED
  BY <1>1, <1>5, <1>6, <1>7, TaskStep

LEMMA ValidateCmdStep ==
  ASSUME IInv, NEW t \in Tables, ValidateCmd(t)
  PROVE  IInv'
<1>0. TypeOK
  BY DEF IInv
<1>1. /\ UNCHANGED <<active, inProgress, pending, dumpIndex, buffer, loadBuff, taken, dump,
                     handle, tbl, user, crossed>>
      /\ commands < MaxCommands /\ commands' = commands + 1 /\ tbl.pc = "idle"
      /\ FreeValBlocks # {}
      /\ valState' = [valState EXCEPT ![First(FreeValBlocks)] = "pending"]
      /\ valIndex' = [valIndex EXCEPT ![t] = First(FreeValBlocks)]
  BY DEF ValidateCmd, Command, buffers
<1>2. First(FreeValBlocks) \in ValBlocks
  <2>1. FreeValBlocks \subseteq ValBlocks /\ ValBlocks \subseteq Nat
    BY IndexFacts DEF FreeValBlocks
  <2> QED
    BY <1>1, <2>1, FirstIsMember
<1>3. commands' \in 0 .. MaxCommands
  BY <1>0, <1>1, SizesAssumption DEF TypeOK
<1>4. valState' \in [ValBlocks -> {"free", "pending", "performed"}]
      /\ valIndex' \in [Tables -> ValBlocks \cup {None}]
  BY <1>0, <1>1, <1>2 DEF TypeOK
<1>5. TypeOK'
  BY <1>0, <1>1, <1>3, <1>4 DEF TypeOK
<1>6. DumpsApart'
  BY <1>1 DEF IInv, DumpsApart, Updating
<1>7. ~crossed' => WorkingApart' /\ ReadsIntoWorking' /\ InstallsInProgress'
  BY <1>1 DEF IInv, Agreed, WorkingApart, ReadsIntoWorking, InstallsInProgress, Updating,
              Installed
<1> QED
  BY <1>1, <1>5, <1>6, <1>7, TaskStep

\* A command that looks at the registry before it writes.
LEMMA LookStep ==
  ASSUME IInv, NEW t \in Tables, ActivateCmd(t) \/ AbortLoadCmd(t)
  PROVE  IInv'
<1>0. TypeOK
  BY DEF IInv
<1>1. /\ UNCHANGED <<active, inProgress, pending, valIndex, dumpIndex, buffer, loadBuff, taken,
                     valState, dump, handle, user, crossed>>
      /\ commands < MaxCommands /\ commands' = commands + 1
      /\ t \notin DumpOnly
      /\ \/ tbl' = [pc |-> "activate", table |-> t]
         \/ tbl' = [pc |-> "abort", table |-> t]
  BY DEF ActivateCmd, AbortLoadCmd, Command, registry, buffers, blocks
<1>2. commands' \in 0 .. MaxCommands
  BY <1>0, <1>1, SizesAssumption DEF TypeOK
<1>3. tbl' \in [pc : {"activate", "abort"}, table : Tables] /\ tbl'.table = t
      /\ tbl'.pc # "read"
  BY <1>1
<1>4. TypeOK'
  BY <1>0, <1>1, <1>2, <1>3 DEF TypeOK
<1>5. DumpsApart'
  BY <1>1, <1>3 DEF IInv, DumpsApart, Updating
<1>6. ~crossed' => WorkingApart' /\ ReadsIntoWorking' /\ InstallsInProgress'
  BY <1>1, <1>3 DEF IInv, Agreed, WorkingApart, ReadsIntoWorking, InstallsInProgress, Updating,
                    Installed
<1> QED
  BY <1>1, <1>4, <1>5, <1>6, TaskStep

LEMMA ActivateMarkStep ==
  ASSUME IInv, ActivateMark
  PROVE  IInv'
<1>0. TypeOK
  BY DEF IInv
<1>1. PICK t \in Tables : t = tbl.table /\ t \notin DumpOnly
  BY <1>0, TblFacts DEF ActivateMark, IInv, DumpsApart
<1>2. /\ UNCHANGED <<active, inProgress, valIndex, dumpIndex, buffer, loadBuff, taken, valState,
                     dump, handle, user, commands, crossed>>
      /\ pending' = [pending EXCEPT ![t] = TRUE] /\ tbl' = Idle
  BY <1>1 DEF ActivateMark, buffers, blocks
<1>3. pending' \in [Tables -> BOOLEAN] /\ \A s \in Tables : pending'[s] <=> s = t \/ pending[s]
  BY <1>0, <1>2 DEF TypeOK
<1>4. TypeOK'
  BY <1>0, <1>2, <1>3 DEF TypeOK
<1>5. DumpsApart'
  BY <1>1, <1>2, <1>3, TablesAssumption DEF IInv, DumpsApart, Updating, Idle
<1>6. ~crossed' => WorkingApart' /\ ReadsIntoWorking' /\ InstallsInProgress'
  BY <1>2, <1>3 DEF IInv, Agreed, WorkingApart, ReadsIntoWorking, InstallsInProgress, Updating,
                    Installed, Idle
<1> QED
  BY <1>2, <1>4, <1>5, <1>6, TaskStep

LEMMA AbortLoadStep ==
  ASSUME IInv, AbortLoad
  PROVE  IInv'
<1>0. TypeOK
  BY DEF IInv
<1>1. PICK t \in Tables : t = tbl.table
  BY <1>0, TblFacts DEF AbortLoad
<1>2. /\ UNCHANGED <<active, valIndex, dumpIndex, buffer, loadBuff, valState, dump, handle,
                     user, commands>>
      /\ tbl' = Idle
      /\ taken' = IF t \in DoubleBuffered THEN taken
                  ELSE [taken EXCEPT ![inProgress[t]] = FALSE]
      /\ inProgress' = [inProgress EXCEPT ![t] = None]
      /\ pending' = [pending EXCEPT ![t] = FALSE]
      /\ crossed' = (crossed \/ Updating(t))
  BY <1>1 DEF AbortLoad, blocks
<1>3. /\ \A s \in Tables : pending'[s] <=> s # t /\ pending[s]
      /\ inProgress'[t] = None /\ \A s \in Tables \ {t} : inProgress'[s] = inProgress[s]
      /\ \A b \in LoadBuffs : t \in DoubleBuffered \/ b # inProgress[t] => taken'[b] = taken[b]
  BY <1>0, <1>2 DEF TypeOK
<1>4. /\ pending' \in [Tables -> BOOLEAN] /\ inProgress' \in [Tables -> Int]
      /\ taken' \in [LoadBuffs \cup {None} -> BOOLEAN]
      /\ \A s \in Tables \ DoubleBuffered : inProgress'[s] \in LoadBuffs \cup {None}
  <2>1. inProgress' \in [Tables -> Int]
    BY <1>0, <1>2, IndexFacts DEF TypeOK
  <2>2. \A s \in Tables \ DoubleBuffered : inProgress'[s] \in LoadBuffs \cup {None}
    BY <1>0, <1>3 DEF TypeOK
  <2>3. pending' \in [Tables -> BOOLEAN] /\ taken' \in [LoadBuffs \cup {None} -> BOOLEAN]
    BY <1>0, <1>2 DEF TypeOK
  <2> QED
    BY <2>1, <2>2, <2>3
<1>5. TypeOK'
  <2>1. crossed' \in BOOLEAN
    BY <1>2
  <2> QED
    BY <1>0, <1>2, <1>4, <2>1 DEF TypeOK
<1>6. \A s \in Tables : (Installed(s)' <=> Installed(s)) /\ (Updating(s)' <=> Updating(s))
  BY <1>2 DEF Installed, Updating
<1>7. DumpsApart'
  BY <1>2, <1>3, <1>6, TablesAssumption DEF IInv, DumpsApart, Idle
<1>8. ASSUME ~crossed'
      PROVE  WorkingApart' /\ ReadsIntoWorking' /\ InstallsInProgress'
  <2>0. Agreed /\ ~Updating(t) /\ ~Installed(t)
    BY <1>2, <1>8 DEF IInv, Updating, Installed
  <2>1. WorkingApart'
    <3> SUFFICES ASSUME NEW s \in Tables, inProgress'[s] # None, ~Installed(s)
                 PROVE  IF s \in DoubleBuffered THEN inProgress'[s] = 1 - active'[s]
                        ELSE /\ inProgress'[s] \in LoadBuffs /\ taken'[inProgress'[s]]
                             /\ \A r \in Tables \ DoubleBuffered :
                                  r # s /\ ~Installed(r) => inProgress'[r] # inProgress'[s]
      BY <1>6 DEF WorkingApart
    <3>1. s # t /\ inProgress'[s] = inProgress[s] /\ inProgress[s] # None
      BY <1>3
    <3>2. IF s \in DoubleBuffered THEN inProgress[s] = 1 - active[s]
          ELSE /\ inProgress[s] \in LoadBuffs /\ taken[inProgress[s]]
               /\ \A r \in Tables \ DoubleBuffered :
                    r # s /\ ~Installed(r) => inProgress[r] # inProgress[s]
      BY <2>0, <3>1 DEF Agreed, WorkingApart
    <3>3. s \notin DoubleBuffered => taken'[inProgress[s]]
      BY <1>3, <2>0, <3>1, <3>2
    <3>4. \A r \in Tables : inProgress'[r] = inProgress[r] \/ inProgress'[r] = None
      BY <1>3
    <3> QED
      BY <1>2, <3>1, <3>2, <3>3, <3>4
  <2>2. ReadsIntoWorking'
    BY <1>2 DEF ReadsIntoWorking, Idle
  <2>3. InstallsInProgress'
    BY <1>2, <1>3, <1>6, <2>0 DEF Agreed, InstallsInProgress
  <2> QED
    BY <2>1, <2>2, <2>3
<1>9. ~crossed' => ~crossed
  BY <1>2
<1>10. \A s \in DoubleBuffered : inProgress'[s] # None => inProgress[s] # None
  BY <1>3, TablesAssumption
<1> QED
  BY <1>2, <1>5, <1>7, <1>8, <1>9, <1>10, TaskStep

LEMMA DumpCmdStep ==
  ASSUME IInv, NEW t \in Tables, DumpCmd(t)
  PROVE  IInv'
<1>0. TypeOK
  BY DEF IInv
<1>1. /\ UNCHANGED <<active, pending, valIndex, buffer, valState, handle, tbl, user, crossed>>
      /\ commands < MaxCommands /\ commands' = commands + 1 /\ tbl.pc = "idle"
      /\ t \in DumpOnly /\ t \notin DoubleBuffered /\ WorkingAvailable(t)
      /\ TakeWorking(t) /\ FreeDumpBlocks # {}
  BY TablesAssumption DEF DumpCmd, Command
<1>2. PICK w \in LoadBuffs : w = WorkingIndex(t) /\ w \in Nat /\ w # None /\ w \in Int
  BY <1>0, <1>1, WorkingIndexFacts, IndexFacts
<1>3. PICK d \in DumpBlocks : d = First(FreeDumpBlocks)
  <2>1. FreeDumpBlocks \subseteq DumpBlocks /\ DumpBlocks \subseteq Nat
    BY IndexFacts DEF FreeDumpBlocks
  <2> QED
    BY <1>1, <2>1, FirstIsMember
<1>4. /\ loadBuff' = IF inProgress[t] # None THEN loadBuff
                     ELSE [loadBuff EXCEPT ![w] = [loadBuff[w] EXCEPT !.data = buffer[t][0].data]]
      /\ dump' = [dump EXCEPT ![d] = [state |-> "pending", table |-> t, buff |-> w]]
      /\ dumpIndex' = [dumpIndex EXCEPT ![t] = d]
  BY <1>2, <1>3 DEF DumpCmd
<1>5. /\ inProgress' \in [Tables -> Int] /\ inProgress'[t] = w
      /\ \A s \in Tables \ {t} : inProgress'[s] = inProgress[s]
      /\ \A s \in Tables \ DoubleBuffered : inProgress'[s] \in LoadBuffs \cup {None}
      /\ taken' \in [LoadBuffs \cup {None} -> BOOLEAN] /\ taken'[w]
      /\ \A b \in LoadBuffs : taken[b] => taken'[b]
  BY <1>0, <1>1, <1>2 DEF TakeWorking, TypeOK
<1>6. loadBuff' \in [LoadBuffs \cup {None} -> Buffer]
  <2>1. loadBuff[w] \in Buffer /\ buffer[t][0] \in Buffer
    BY <1>0 DEF TypeOK
  <2>2. [loadBuff[w] EXCEPT !.data = buffer[t][0].data] \in Buffer
    BY <2>1 DEF Buffer
  <2> QED
    BY <1>0, <1>4, <2>2 DEF TypeOK
<1>7. /\ dump' \in [DumpBlocks -> [state : {"free", "pending", "performed"},
                                   table : Tables \cup {None}, buff : LoadBuffs \cup {None}]]
      /\ dumpIndex' \in [Tables -> DumpBlocks \cup {None}]
  BY <1>0, <1>4 DEF TypeOK
<1>8. commands' \in 0 .. MaxCommands
  BY <1>0, <1>1, SizesAssumption DEF TypeOK
<1>9. TypeOK'
  BY <1>0, <1>1, <1>5, <1>6, <1>7, <1>8 DEF TypeOK
<1>10. DumpsApart'
  <2>1. /\ dump'[d].table = t /\ dumpIndex'[t] = d
        /\ \A e \in DumpBlocks \ {d} : dump'[e] = dump[e]
        /\ \A s \in Tables \ {t} : dumpIndex'[s] = dumpIndex[s]
    BY <1>0, <1>4 DEF TypeOK
  <2>2. \A s \in Tables : dumpIndex[s] # None => dumpIndex[s] \in DumpBlocks
    BY <1>0 DEF TypeOK
  <2> QED
    BY <1>1, <2>1, <2>2 DEF IInv, DumpsApart, Updating
<1>11. ASSUME ~crossed'
       PROVE  WorkingApart' /\ ReadsIntoWorking' /\ InstallsInProgress'
  <2>0. Agreed /\ ~Updating(t) /\ ~Installed(t)
    BY <1>1, <1>11 DEF IInv, DumpsApart, Updating, Installed
  <2>1. \A s \in Tables \ DoubleBuffered : s # t /\ ~Installed(s) => inProgress[s] # w
    BY <1>0, <1>1, <1>2, <2>0, WorkingIndexApart DEF Agreed
  <2>2. \A s \in Tables : (Installed(s)' <=> Installed(s)) /\ (Updating(s)' <=> Updating(s))
    BY <1>1 DEF Installed, Updating
  <2>3. WorkingApart'
    <3> SUFFICES ASSUME NEW s \in Tables, inProgress'[s] # None, ~Installed(s)
                 PROVE  IF s \in DoubleBuffered THEN inProgress'[s] = 1 - active'[s]
                        ELSE /\ inProgress'[s] \in LoadBuffs /\ taken'[inProgress'[s]]
                             /\ \A r \in Tables \ DoubleBuffered :
                                  r # s /\ ~Installed(r) => inProgress'[r] # inProgress'[s]
      BY <2>2 DEF WorkingApart
    <3>1. CASE s = t
      BY <1>1, <1>2, <1>5, <2>1, <3>1
    <3>2. CASE s # t
      <4>1. inProgress'[s] = inProgress[s] /\ inProgress[s] # None
        BY <1>5, <3>2
      <4>2. IF s \in DoubleBuffered THEN inProgress[s] = 1 - active[s]
            ELSE /\ inProgress[s] \in LoadBuffs /\ taken[inProgress[s]]
                 /\ \A r \in Tables \ DoubleBuffered :
                      r # s /\ ~Installed(r) => inProgress[r] # inProgress[s]
        BY <2>0, <4>1 DEF Agreed, WorkingApart
      <4> QED
        BY <1>1, <1>5, <2>1, <3>2, <4>1, <4>2
    <3> QED
      BY <3>1, <3>2
  <2>4. ReadsIntoWorking'
    BY <1>1 DEF ReadsIntoWorking
  <2>5. InstallsInProgress'
    BY <1>1, <1>5, <2>0, <2>2 DEF Agreed, InstallsInProgress
  <2> QED
    BY <2>3, <2>4, <2>5
<1>12. \A s \in DoubleBuffered : inProgress'[s] # None => inProgress[s] # None
  BY <1>1, <1>5, TablesAssumption
<1> QED
  BY <1>1, <1>9, <1>10, <1>11, <1>12, TaskStep

LEMMA HousekeepingCmdStep ==
  ASSUME IInv, HousekeepingCmd
  PROVE  IInv'
<1> DEFINE ready == {d \in DumpBlocks : dump[d].state = "performed"}
           dumped == {dump[d].table : d \in ready}
           freed == {inProgress[t] : t \in dumped}
                      \cup {n \in {None} : Cardinality(ready) > Cardinality(dumped)}
           performed == {v \in ValBlocks : valState[v] = "performed"}
<1>0. TypeOK
  BY DEF IInv
<1>1. /\ UNCHANGED <<active, pending, valIndex, dumpIndex, buffer, loadBuff, handle, tbl,
                     user, commands, crossed>>
      /\ tbl.pc = "idle"
      /\ dump' = [d \in DumpBlocks |->
                    IF d \in ready THEN [dump[d] EXCEPT !.state = "free"] ELSE dump[d]]
      /\ taken' = [b \in LoadBuffs \cup {None} |-> taken[b] /\ b \notin freed]
      /\ inProgress' = [t \in Tables |-> IF t \in dumped THEN None ELSE inProgress[t]]
      /\ valState' = [v \in ValBlocks |->
                        IF performed # {} /\ v = First(performed) THEN "free"
                        ELSE valState[v]]
  BY DEF HousekeepingCmd
<1>2. dumped \subseteq DumpOnly /\ dumped \subseteq Tables \ DoubleBuffered
  BY TablesAssumption DEF IInv, DumpsApart
<1>3. dump' \in [DumpBlocks -> [state : {"free", "pending", "performed"},
                                table : Tables \cup {None}, buff : LoadBuffs \cup {None}]]
      /\ \A d \in DumpBlocks : /\ dump'[d].table = dump[d].table
                               /\ dump'[d].state # "free" => dump[d].state # "free"
  <2> SUFFICES ASSUME NEW d \in DumpBlocks
               PROVE  /\ dump'[d] \in [state : {"free", "pending", "performed"},
                                       table : Tables \cup {None},
                                       buff : LoadBuffs \cup {None}]
                      /\ dump'[d].table = dump[d].table
                      /\ dump'[d].state # "free" => dump[d].state # "free"
    BY <1>1
  <2>1. dump[d] \in [state : {"free", "pending", "performed"},
                     table : Tables \cup {None}, buff : LoadBuffs \cup {None}]
    BY <1>0 DEF TypeOK
  <2>2. dump'[d] = [dump[d] EXCEPT !.state = "free"] \/ dump'[d] = dump[d]
    BY <1>1
  <2> QED
    BY <2>1, <2>2
<1>4. /\ inProgress' \in [Tables -> Int]
      /\ \A t \in Tables \ DoubleBuffered : inProgress'[t] \in LoadBuffs \cup {None}
      /\ \A t \in Tables : inProgress'[t] = inProgress[t] \/ inProgress'[t] = None
      /\ \A t \in Tables : t \notin dumped => inProgress'[t] = inProgress[t]
      /\ \A t \in Tables : inProgress'[t] # None => t \notin dumped
  <2> HIDE DEF dumped
  <2>1. \A t \in Tables : inProgress'[t] = IF t \in dumped THEN None ELSE inProgress[t]
    BY <1>1
  <2>2. inProgress' \in [Tables -> Int]
    BY <1>0, <1>1, IndexFacts DEF TypeOK
  <2> QED
    BY <1>0, <2>1, <2>2 DEF TypeOK
<1>5. valState' \in [ValBlocks -> {"free", "pending", "performed"}]
  <2> HIDE DEF performed
  <2> QED
    BY <1>0, <1>1 DEF TypeOK
<1>6. /\ taken' \in [LoadBuffs \cup {None} -> BOOLEAN]
      /\ \A b \in LoadBuffs : taken[b] /\ b \notin freed => taken'[b]
  <2> HIDE DEF freed
  <2>1. \A b \in LoadBuffs \cup {None} : (taken[b] /\ b \notin freed) \in BOOLEAN
    OBVIOUS
  <2> QED
    BY <1>1, <2>1
<1>7. \A b \in LoadBuffs : b \in freed => \E t \in dumped : b = inProgress[t]
  <2> HIDE DEF dumped, ready
  <2> QED
    BY IndexFacts
<1> HIDE DEF ready, dumped, freed, performed
<1>8. TypeOK'
  BY <1>0, <1>1, <1>3, <1>4, <1>5, <1>6 DEF TypeOK
<1>9. DumpsApart'
  <2>1. \A t \in Tables : dumpIndex[t] # None => dumpIndex[t] \in DumpBlocks
    BY <1>0 DEF TypeOK
  <2> QED
    BY <1>1, <1>3, <2>1 DEF IInv, DumpsApart, Updating
<1>10. ASSUME ~crossed'
       PROVE  WorkingApart' /\ ReadsIntoWorking' /\ InstallsInProgress'
  <2>0. Agreed /\ \A t \in dumped : ~Updating(t) /\ ~Installed(t)
    BY <1>1, <1>2, <1>10 DEF IInv, DumpsApart, Updating, Installed
  <2>1. \A s \in Tables : (Installed(s)' <=> Installed(s)) /\ (Updating(s)' <=> Updating(s))
    BY <1>1 DEF Installed, Updating
  <2>2. WorkingApart'
    <3> SUFFICES ASSUME NEW s \in Tables, inProgress'[s] # None, ~Installed(s)
                 PROVE  IF s \in DoubleBuffered THEN inProgress'[s] = 1 - active'[s]
                        ELSE /\ inProgress'[s] \in LoadBuffs /\ taken'[inProgress'[s]]
                             /\ \A r \in Tables \ DoubleBuffered :
                                  r # s /\ ~Installed(r) => inProgress'[r] # inProgress'[s]
      BY <2>1 DEF WorkingApart
    <3>1. s \notin dumped /\ inProgress'[s] = inProgress[s] /\ inProgress[s] # None
      BY <1>4
    <3>2. IF s \in DoubleBuffered THEN inProgress[s] = 1 - active[s]
          ELSE /\ inProgress[s] \in LoadBuffs /\ taken[inProgress[s]]
               /\ \A r \in Tables \ DoubleBuffered :
                    r # s /\ ~Installed(r) => inProgress[r] # inProgress[s]
      BY <2>0, <3>1 DEF Agreed, WorkingApart
    <3>3. s \notin DoubleBuffered => taken'[inProgress[s]]
      <4>1. s \notin DoubleBuffered => \A r \in dumped : inProgress[r] # inProgress[s]
        BY <1>2, <2>0, <3>1, <3>2
      <4> QED
        BY <1>6, <1>7, <3>2, <4>1
    <3>4. s \notin DoubleBuffered =>
            \A r \in Tables \ DoubleBuffered :
              r # s /\ ~Installed(r) => inProgress'[r] # inProgress'[s]
      BY <1>4, <3>1, <3>2
    <3> QED
      BY <1>1, <3>1, <3>2, <3>3, <3>4
  <2>3. ReadsIntoWorking'
    BY <1>1 DEF ReadsIntoWorking
  <2>4. InstallsInProgress'
    BY <1>1, <1>4, <2>0, <2>1 DEF Agreed, InstallsInProgress
  <2> QED
    BY <2>2, <2>3, <2>4
<1>11. \A t \in DoubleBuffered : inProgress'[t] # None => inProgress[t] # None
  BY <1>4, TablesAssumption
<1> QED
  BY <1>1, <1>8, <1>9, <1>10, <1>11, TaskStep

-----------------------------------------------------------------------------
(* The steps of the users. *)

\* A user's call for an address changes neither the registry nor the buffers,
\* and is no update.
LEMMA UserStep ==
  ASSUME IInv, TypeOK', OwnerInOneCall', NotToldMeansCurrent', ~crossed => OwnerReadsActive',
         UNCHANGED <<active, inProgress, pending, dumpIndex, taken, dump, tbl, crossed>>,
         user'[Owner].pc \in {"update", "notify"} \/ user[Owner].pc \in {"update", "notify"} =>
           user'[Owner] = user[Owner]
  PROVE  IInv'
<1>1. \A t \in Tables : (Installed(t)' <=> Installed(t)) /\ (Updating(t)' <=> Updating(t))
  BY DEF Installed, Updating
<1>2. DumpsApart'
  BY <1>1, TablesAssumption DEF IInv, DumpsApart
<1>3. ASSUME ~crossed PROVE Agreed'
  <2>0. Agreed
    BY <1>3 DEF IInv
  <2>1. WorkingApart'
    BY <1>1, <2>0 DEF Agreed, WorkingApart
  <2>2. ReadsIntoWorking'
    <3>1. tbl.pc = "read" => tbl.table \in Tables
      BY TblFacts DEF IInv
    <3> QED
      BY <1>1, <2>0, <3>1 DEF Agreed, ReadsIntoWorking, Working
  <2>3. InstallsInProgress'
    BY <1>1, <2>0 DEF Agreed, InstallsInProgress, Updating
  <2> QED
    BY <1>3, <2>0, <2>1, <2>2, <2>3 DEF Agreed
<1> QED
  BY <1>2, <1>3 DEF IInv

LEMMA GetAddressStep ==
  ASSUME IInv, NEW u \in Users, NEW t \in Tables, GetAddress(u, t)
  PROVE  IInv'
<1>0. TypeOK
  BY DEF IInv
<1>1. /\ UNCHANGED <<active, inProgress, pending, valIndex, dumpIndex, buffer, loadBuff,
                     taken, valState, dump, tbl, commands, crossed>>
      /\ user[u].pc = "idle"
      /\ handle' = [handle EXCEPT ![u] = [handle[u] EXCEPT ![t] =
                      [handle[u][t] EXCEPT !.lock = TRUE]]]
      /\ user' = [user EXCEPT ![u] = [pc |-> "index", table |-> t]]
  BY DEF GetAddress, registry, buffers, blocks
<1>2. handle' \in [Users -> [Tables -> [lock : BOOLEAN, index : 0 .. 255, updated : BOOLEAN]]]
      /\ handle'[u][t].index = handle[u][t].index
      /\ \A v \in Users, s \in Tables : ~(v = u /\ s = t) => handle'[v][s] = handle[v][s]
  <2>1. handle[u][t] \in [lock : BOOLEAN, index : 0 .. 255, updated : BOOLEAN]
    BY <1>0 DEF TypeOK
  <2>2. PICK h \in [lock : BOOLEAN, index : 0 .. 255, updated : BOOLEAN] :
          h = [handle[u][t] EXCEPT !.lock = TRUE] /\ h.index = handle[u][t].index
    <3>1. /\ [handle[u][t] EXCEPT !.lock = TRUE] \in
                [lock : BOOLEAN, index : 0 .. 255, updated : BOOLEAN]
          /\ [handle[u][t] EXCEPT !.lock = TRUE].index = handle[u][t].index
      BY <2>1
    <3> QED
      BY <3>1, Zenon
  <2>3. handle' = [handle EXCEPT ![u] = [handle[u] EXCEPT ![t] = h]]
    BY <1>1, <2>2
  <2>4. handle \in [Users -> [Tables -> [lock : BOOLEAN, index : 0 .. 255, updated : BOOLEAN]]]
    BY <1>0 DEF TypeOK
  <2>5. /\ handle' \in [Users -> [Tables -> [lock : BOOLEAN, index : 0 .. 255, updated : BOOLEAN]]]
        /\ handle'[u][t] = h
        /\ \A v \in Users, s \in Tables : ~(v = u /\ s = t) => handle'[v][s] = handle[v][s]
    BY <2>3, <2>4, HandleUpdate
  <2> QED
    BY <2>2, <2>5, Zenon
<1>3. /\ user'[u] = [pc |-> "index", table |-> t] /\ user'[u].pc = "index"
      /\ \A v \in Users \ {u} : user'[v] = user[v]
  BY <1>0, <1>1 DEF TypeOK
<1>4. TypeOK'
  <2>1. [pc |-> "index", table |-> t] \in UserState
    BY DEF UserState
  <2>2. user' \in [Users -> UserState]
    BY <1>0, <1>1, <2>1 DEF TypeOK
  <2> QED
    BY <1>0, <1>1, <1>2, <2>2 DEF TypeOK
<1>5. /\ \A s \in Tables :
           Held(Owner, s)' => Held(Owner, s) /\ handle'[Owner][s] = handle[Owner][s]
      /\ \A s \in Tables : handle'[Owner][s].index = handle[Owner][s].index
  <2>1. CASE u = Owner
    <3>1. user[Owner].pc \notin {"index", "store"}
      BY <1>1, <2>1
    <3>2. \A s \in Tables : Held(Owner, s)' => s # t
      BY <1>3, <2>1 DEF Held
    <3>3. \A s \in Tables : s # t => handle'[Owner][s] = handle[Owner][s]
      BY <1>2 DEF Users
    <3>4. \A s \in Tables : handle'[Owner][s].index = handle[Owner][s].index
      BY <1>2, <2>1, <3>3
    <3> QED
      BY <3>1, <3>2, <3>3, <3>4 DEF Held
  <2>2. CASE u # Owner
    <3>1. user'[Owner] = user[Owner] /\ \A s \in Tables : handle'[Owner][s] = handle[Owner][s]
      BY <1>2, <1>3, <2>2 DEF Users
    <3> QED
      BY <3>1 DEF Held
  <2> QED
    BY <2>1, <2>2
<1>6. user'[Owner].pc # "index" => user'[Owner] = user[Owner] /\ handle'[Owner] = handle[Owner]
  BY <1>0, <1>1, <1>3 DEF Users, TypeOK
<1>7. user[Owner].pc # "idle" => user'[Owner] = user[Owner]
  BY <1>1, <1>3 DEF Users
<1>8. OwnerInOneCall'
  BY <1>1, <1>3, <1>6 DEF IInv, OwnerInOneCall, Users
<1>9. \A s \in Tables : Installed(s)' <=> Installed(s)
  BY <1>6, <1>7 DEF Installed
<1>10. NotToldMeansCurrent' /\ (~crossed => OwnerReadsActive')
  BY <1>1, <1>5, <1>9, TablesAssumption DEF IInv, Agreed, OwnerReadsActive, NotToldMeansCurrent
<1> QED
  BY <1>1, <1>4, <1>6, <1>7, <1>8, <1>10, UserStep

LEMMA ReadIndexStep ==
  ASSUME IInv, NEW u \in Users, ReadIndex(u)
  PROVE  IInv'
<1>0. TypeOK
  BY DEF IInv
<1>1. PICK t \in Tables : user[u].table = t
  BY <1>0, UserFacts DEF ReadIndex
<1>2. /\ UNCHANGED <<active, inProgress, pending, valIndex, dumpIndex, buffer, loadBuff,
                     taken, valState, dump, tbl, commands, handle, crossed>>
      /\ user[u].pc = "index"
      /\ user' = [user EXCEPT ![u] = [pc |-> "store", table |-> t, index |-> active[t]]]
  BY <1>1 DEF ReadIndex, registry, buffers, blocks
<1>3. /\ user'[u] = [pc |-> "store", table |-> t, index |-> active[t]]
      /\ user'[u].pc = "store" /\ user'[u].table = t /\ user'[u].index = active[t]
      /\ \A v \in Users \ {u} : user'[v] = user[v]
  BY <1>0, <1>2 DEF TypeOK
<1>4. TypeOK'
  <2>1. active[t] \in 0 .. 255
    BY <1>0 DEF TypeOK
  <2>2. [pc |-> "store", table |-> t, index |-> active[t]] \in UserState
    BY <2>1 DEF UserState
  <2>3. user' \in [Users -> UserState]
    BY <1>0, <1>2, <2>2 DEF TypeOK
  <2> QED
    BY <1>0, <1>2, <2>3 DEF TypeOK
<1>5. \A s \in Tables : Held(Owner, s)' <=> Held(Owner, s)
  <2>1. user'[Owner].pc \in {"index", "store"} <=> user[Owner].pc \in {"index", "store"}
    BY <1>2, <1>3 DEF Users
  <2>2. user'[Owner].table = user[Owner].table
    BY <1>1, <1>3 DEF Users
  <2> QED
    BY <1>2, <2>1, <2>2 DEF Held
<1>6. user'[Owner].pc # "store" => user'[Owner] = user[Owner]
  BY <1>3 DEF Users
<1>7. user[Owner].pc # "index" => user'[Owner] = user[Owner]
  BY <1>2, <1>3 DEF Users
<1>8. OwnerInOneCall'
  BY <1>2, <1>3, <1>6 DEF IInv, OwnerInOneCall, Users
<1>9. \A s \in Tables : Installed(s)' <=> Installed(s)
  BY <1>6, <1>7 DEF Installed
<1>10. NotToldMeansCurrent' /\ (~crossed => OwnerReadsActive')
  BY <1>2, <1>5, <1>9, TablesAssumption DEF IInv, Agreed, OwnerReadsActive, NotToldMeansCurrent
<1> QED
  BY <1>2, <1>4, <1>6, <1>7, <1>8, <1>10, UserStep

LEMMA StoreIndexStep ==
  ASSUME IInv, NEW u \in Users, StoreIndex(u)
  PROVE  IInv'
<1>0. TypeOK
  BY DEF IInv
<1>1. PICK t \in Tables, i \in 0 .. 255 : user[u].table = t /\ user[u].index = i
  BY <1>0, UserFacts DEF StoreIndex
<1>2. PICK h : h = [lock |-> handle[u][t].lock, index |-> i, updated |-> FALSE]
  OBVIOUS
<1>3. /\ UNCHANGED <<active, inProgress, pending, valIndex, dumpIndex, buffer, loadBuff,
                     taken, valState, dump, tbl, commands, crossed>>
      /\ user[u].pc = "store"
      /\ user' = [user EXCEPT ![u] = Idle]
      /\ handle' = [handle EXCEPT ![u] = [handle[u] EXCEPT ![t] = h]]
  BY <1>1, <1>2 DEF StoreIndex, registry, buffers, blocks
<1>4. /\ handle' \in [Users -> [Tables -> [lock : BOOLEAN, index : 0 .. 255, updated : BOOLEAN]]]
      /\ handle'[u][t].index = i
      /\ \A v \in Users, s \in Tables : ~(v = u /\ s = t) => handle'[v][s] = handle[v][s]
  <2>1. handle[u][t].lock \in BOOLEAN
    BY <1>0 DEF TypeOK
  <2>2. h \in [lock : BOOLEAN, index : 0 .. 255, updated : BOOLEAN] /\ h.index = i
    BY <1>2, <2>1
  <2> QED
    BY <1>0, <1>3, <2>2 DEF TypeOK
<1>5. user'[u].pc = "idle" /\ \A v \in Users \ {u} : user'[v] = user[v]
  BY <1>0, <1>3 DEF TypeOK, Idle
<1>6. TypeOK'
  <2>1. user' \in [Users -> UserState]
    BY <1>0, <1>3 DEF TypeOK, UserState
  <2> QED
    BY <1>0, <1>3, <1>4, <2>1 DEF TypeOK
<1>7. u = Owner => i = active[t]
  BY <1>1, <1>3 DEF IInv, OwnerInOneCall
<1>8. ASSUME NEW s \in Tables, Held(Owner, s)'
      PROVE  \/ handle'[Owner][s].index = active[s]
             \/ Held(Owner, s) /\ handle'[Owner][s] = handle[Owner][s]
  <2>1. CASE u = Owner /\ s = t
    BY <1>4, <1>7, <2>1
  <2>2. CASE ~(u = Owner /\ s = t)
    BY <1>1, <1>4, <1>5, <1>8, <2>2 DEF Held, Users
  <2> QED
    BY <2>1, <2>2
<1>9. user'[Owner].pc # "idle" => user'[Owner] = user[Owner] /\ handle'[Owner] = handle[Owner]
  BY <1>0, <1>3, <1>5 DEF Users, TypeOK
<1>10. user[Owner].pc # "store" => user'[Owner] = user[Owner]
  BY <1>3, <1>5 DEF Users
<1>11. OwnerInOneCall'
  BY <1>3, <1>5, <1>9 DEF IInv, OwnerInOneCall, Users
<1>12. \A s \in Tables : Installed(s)' <=> Installed(s)
  BY <1>9, <1>10 DEF Installed
<1>13. NotToldMeansCurrent'
  BY <1>3, <1>8, <1>12, TablesAssumption DEF IInv, NotToldMeansCurrent
<1>14. ASSUME ~crossed PROVE OwnerReadsActive'
  <2>1. \A s \in Tables : active[s] \in 0 .. 1
    BY <1>14 DEF IInv, Agreed
  <2>2. \A s \in DoubleBuffered : handle'[Owner][s].index \in 0 .. 1
    BY <1>4, <1>7, <1>14, <2>1, TablesAssumption DEF IInv, Agreed, OwnerReadsActive, Users
  <2> QED
    BY <1>3, <1>8, <1>12, <1>14, <2>2, TablesAssumption DEF IInv, Agreed, OwnerReadsActive
<1> QED
  BY <1>3, <1>6, <1>9, <1>10, <1>11, <1>13, <1>14, UserStep

LEMMA ReleaseAddressStep ==
  ASSUME IInv, NEW u \in Users, NEW t \in Tables, ReleaseAddress(u, t)
  PROVE  IInv'
<1>0. TypeOK
  BY DEF IInv
<1>1. /\ UNCHANGED <<active, inProgress, pending, valIndex, dumpIndex, buffer, loadBuff,
                     taken, valState, dump, tbl, commands, user, crossed>>
      /\ handle' = [handle EXCEPT ![u] = [handle[u] EXCEPT ![t] =
                      [handle[u][t] EXCEPT !.lock = FALSE]]]
  BY DEF ReleaseAddress, registry, buffers, blocks
<1>2. /\ handle' \in [Users -> [Tables -> [lock : BOOLEAN, index : 0 .. 255, updated : BOOLEAN]]]
      /\ ~handle'[u][t].lock /\ handle'[u][t].index = handle[u][t].index
      /\ \A v \in Users, s \in Tables : ~(v = u /\ s = t) => handle'[v][s] = handle[v][s]
  <2>1. handle[u][t] \in [lock : BOOLEAN, index : 0 .. 255, updated : BOOLEAN]
    BY <1>0 DEF TypeOK
  <2>2. PICK h \in [lock : BOOLEAN, index : 0 .. 255, updated : BOOLEAN] :
          h = [handle[u][t] EXCEPT !.lock = FALSE] /\ ~h.lock /\ h.index = handle[u][t].index
    <3>1. /\ [handle[u][t] EXCEPT !.lock = FALSE] \in
                [lock : BOOLEAN, index : 0 .. 255, updated : BOOLEAN]
          /\ ~[handle[u][t] EXCEPT !.lock = FALSE].lock
          /\ [handle[u][t] EXCEPT !.lock = FALSE].index = handle[u][t].index
      BY <2>1
    <3> QED
      BY <3>1, Zenon
  <2>3. handle' = [handle EXCEPT ![u] = [handle[u] EXCEPT ![t] = h]]
    BY <1>1, <2>2
  <2>4. handle \in [Users -> [Tables -> [lock : BOOLEAN, index : 0 .. 255, updated : BOOLEAN]]]
    BY <1>0 DEF TypeOK
  <2>5. /\ handle' \in [Users -> [Tables -> [lock : BOOLEAN, index : 0 .. 255, updated : BOOLEAN]]]
        /\ handle'[u][t] = h
        /\ \A v \in Users, s \in Tables : ~(v = u /\ s = t) => handle'[v][s] = handle[v][s]
    BY <2>3, <2>4, HandleUpdate
  <2> QED
    BY <2>2, <2>5, Zenon
<1>3. TypeOK'
  BY <1>0, <1>1, <1>2 DEF TypeOK
<1>4. /\ \A s \in Tables :
           Held(Owner, s)' => Held(Owner, s) /\ handle'[Owner][s] = handle[Owner][s]
      /\ \A s \in Tables : handle'[Owner][s].index = handle[Owner][s].index
      /\ \A s \in Tables : handle'[Owner][s].lock => handle[Owner][s].lock
  BY <1>1, <1>2 DEF Held, Users
<1>5. OwnerInOneCall'
  <2>1. user[Owner].pc = "update" => user[Owner].table \in Tables
    BY <1>0, UserFacts DEF Users
  <2> QED
    BY <1>1, <1>4, <2>1 DEF IInv, OwnerInOneCall
<1>6. NotToldMeansCurrent' /\ (~crossed => OwnerReadsActive')
  BY <1>1, <1>4, TablesAssumption
     DEF IInv, Agreed, OwnerReadsActive, NotToldMeansCurrent, Installed
<1> QED
  BY <1>1, <1>3, <1>5, <1>6, UserStep

-----------------------------------------------------------------------------
(* The steps of the owner. *)

LEMMA UpdateStep ==
  ASSUME IInv, NEW t \in Tables, Update(t)
  PROVE  IInv'
<1>0. TypeOK
  BY DEF IInv
<1>1. /\ UNCHANGED <<active, inProgress, pending, valIndex, dumpIndex, buffer, loadBuff, taken,
                     valState, dump, handle, tbl, commands, crossed>>
      /\ user[Owner].pc = "idle" /\ pending[t] /\ inProgress[t] # None
      /\ t \in DoubleBuffered \/ ~Locked(t)
      /\ user' = [user EXCEPT ![Owner] = [pc |-> "update", table |-> t,
                                          index |-> inProgress[t]]]
  BY DEF Update, registry, buffers, blocks
<1>2. /\ user'[Owner] = [pc |-> "update", table |-> t, index |-> inProgress[t]]
      /\ user'[Owner].pc = "update" /\ user'[Owner].table = t
      /\ user'[Owner].index = inProgress[t]
      /\ \A u \in Users \ {Owner} : user'[u] = user[u]
  BY <1>0, <1>1 DEF TypeOK, Users
<1>3. TypeOK'
  <2>1. [pc |-> "update", table |-> t, index |-> inProgress[t]] \in UserState
    BY <1>0 DEF TypeOK, UserState
  <2>2. user' \in [Users -> UserState]
    BY <1>0, <1>1, <2>1 DEF TypeOK
  <2> QED
    BY <1>0, <1>1, <2>2 DEF TypeOK
<1>4. /\ \A s \in Tables : ~Installed(s) /\ ~Installed(s)' /\ ~Updating(s)
      /\ \A s \in Tables : Updating(s)' <=> s = t
      /\ \A s \in Tables : Held(Owner, s)' <=> Held(Owner, s)
  BY <1>1, <1>2 DEF Installed, Updating, Held
<1>5. DumpsApart'
  BY <1>1, <1>4, TablesAssumption DEF IInv, DumpsApart
<1>6. OwnerInOneCall'
  <2>1. t \notin DoubleBuffered => inProgress[t] \in LoadBuffs /\ ~handle[Owner][t].lock
    BY <1>0, <1>1 DEF TypeOK, Locked, Users
  <2>2. \A u \in Sharers : user'[u] = user[u]
    BY <1>2, OwnerAssumption DEF Users
  <2> QED
    BY <1>1, <1>2, <2>1, <2>2 DEF IInv, OwnerInOneCall
<1>7. NotToldMeansCurrent'
  BY <1>1, <1>4, TablesAssumption DEF IInv, NotToldMeansCurrent
<1>8. ASSUME ~crossed PROVE Agreed'
  <2>0. Agreed
    BY <1>8 DEF IInv
  <2>1. WorkingApart'
    BY <1>1, <1>4, <2>0 DEF Agreed, WorkingApart
  <2>2. ReadsIntoWorking'
    <3>1. tbl.pc = "read" => tbl.table \in Tables
      BY <1>0, TblFacts
    <3> QED
      BY <1>1, <1>4, <2>0, <3>1 DEF Agreed, ReadsIntoWorking, Working
  <2>3. InstallsInProgress'
    BY <1>1, <1>2, <1>4 DEF InstallsInProgress
  <2>4. OwnerReadsActive'
    BY <1>1, <1>4, <2>0, TablesAssumption DEF Agreed, OwnerReadsActive
  <2> QED
    BY <1>1, <2>0, <2>1, <2>2, <2>3, <2>4 DEF Agreed
<1> QED
  BY <1>1, <1>3, <1>5, <1>6, <1>7, <1>8 DEF IInv

\* What UpdateImage writes: the index it uses is one it has looked at, and
\* without an abort it is that of the load in progress.
LEMMA UpdateImageFacts ==
  ASSUME IInv, UpdateImage
  PROVE  \E t \in Tables :
           /\ user[Owner].pc = "update" /\ user[Owner].table = t
           /\ user' = [user EXCEPT ![Owner] = [pc |-> "notify", table |-> t]]
           /\ UNCHANGED <<inProgress, pending, valIndex, dumpIndex, loadBuff, valState, dump,
                          handle, tbl, commands, crossed>>
           /\ ~crossed => pending[t] /\ inProgress[t] # None
           /\ \/ /\ t \in DoubleBuffered /\ UNCHANGED <<buffer, taken>>
                 /\ \E i \in Int : /\ active' = [active EXCEPT ![t] = i % 256]
                                   /\ ~crossed => i = inProgress[t]
              \/ /\ t \notin DoubleBuffered /\ UNCHANGED active
                 /\ \E i, j \in LoadBuffs \cup {None} :
                      /\ buffer' = [buffer EXCEPT ![t] = [buffer[t] EXCEPT ![0] =
                                      [buffer[t][0] EXCEPT !.data = loadBuff[i].data]]]
                      /\ taken' = [taken EXCEPT ![j] = FALSE]
                      /\ ~crossed => i = inProgress[t] /\ j = inProgress[t]
<1>0. TypeOK
  BY DEF IInv
<1>1. PICK t \in Tables : user[Owner].table = t
  BY <1>0, UserFacts DEF UpdateImage, Users
<1>2. user[Owner].pc = "update"
  BY DEF UpdateImage
<1>3. PICK k, l \in Int : /\ k = user[Owner].index /\ l = inProgress[t]
                          /\ t \notin DoubleBuffered =>
                               k \in LoadBuffs /\ l \in LoadBuffs \cup {None}
  <2>1. user[Owner].index \in Int /\ inProgress[t] \in Int
    BY <1>0, <1>2, UserFacts DEF Users, TypeOK
  <2>2. t \notin DoubleBuffered =>
          user[Owner].index \in LoadBuffs /\ inProgress[t] \in LoadBuffs \cup {None}
    BY <1>0, <1>1, <1>2 DEF IInv, OwnerInOneCall, TypeOK
  <2> QED
    BY <2>1, <2>2
<1>4. ~crossed => pending[t] /\ inProgress[t] # None /\ k = l
  BY <1>1, <1>2, <1>3 DEF IInv, Agreed, InstallsInProgress, Updating
<1>5. \/ /\ t \in DoubleBuffered
         /\ \E i \in {k, l} : active' = [active EXCEPT ![t] = i % 256]
         /\ UNCHANGED <<buffer, loadBuff, taken>>
      \/ /\ t \notin DoubleBuffered /\ UNCHANGED <<active, loadBuff>>
         /\ \E i \in {k, l} : buffer' = [buffer EXCEPT ![t] = [buffer[t] EXCEPT ![0] =
                                      [buffer[t][0] EXCEPT !.data = loadBuff[i].data]]]
         /\ \E i \in {k, l} : taken' = [taken EXCEPT ![i] = FALSE]
  BY <1>1, <1>3 DEF UpdateImage, buffers
<1>6. /\ user' = [user EXCEPT ![Owner] = [pc |-> "notify", table |-> t]]
      /\ UNCHANGED <<inProgress, pending, valIndex, dumpIndex, valState, dump, handle, tbl,
                     commands, crossed>>
  BY <1>1 DEF UpdateImage, blocks
<1>7. CASE t \in DoubleBuffered
  <2>1. PICK i \in {k, l} : active' = [active EXCEPT ![t] = i % 256]
    BY <1>5, <1>7
  <2>2. UNCHANGED <<buffer, loadBuff, taken>>
    BY <1>5, <1>7
  <2>3. i \in Int /\ (~crossed => i = inProgress[t])
    BY <1>3, <1>4
  <2>4. \E n \in Int : /\ active' = [active EXCEPT ![t] = n % 256]
                       /\ ~crossed => n = inProgress[t]
    BY <2>1, <2>3, Zenon
  <2> QED
    BY <1>1, <1>2, <1>4, <1>6, <1>7, <2>2, <2>4
<1>8. CASE t \notin DoubleBuffered
  <2>1. PICK i \in {k, l} : buffer' = [buffer EXCEPT ![t] = [buffer[t] EXCEPT ![0] =
                                      [buffer[t][0] EXCEPT !.data = loadBuff[i].data]]]
    BY <1>5, <1>8
  <2>2. PICK j \in {k, l} : taken' = [taken EXCEPT ![j] = FALSE]
    BY <1>5, <1>8
  <2>3. /\ i \in LoadBuffs \cup {None} /\ j \in LoadBuffs \cup {None}
        /\ ~crossed => i = inProgress[t] /\ j = inProgress[t]
    BY <1>3, <1>4, <1>8
  <2>4. \E m, n \in LoadBuffs \cup {None} :
          /\ buffer' = [buffer EXCEPT ![t] = [buffer[t] EXCEPT ![0] =
                          [buffer[t][0] EXCEPT !.data = loadBuff[m].data]]]
          /\ taken' = [taken EXCEPT ![n] = FALSE]
          /\ ~crossed => m = inProgress[t] /\ n = inProgress[t]
    BY <2>1, <2>2, <2>3, Zenon
  <2>5. UNCHANGED <<active, loadBuff>>
    BY <1>5, <1>8
  <2> QED
    BY <1>1, <1>2, <1>4, <1>6, <1>8, <2>4, <2>5
<1> QED
  BY <1>7, <1>8

LEMMA UpdateImageStep ==
  ASSUME IInv, UpdateImage
  PROVE  IInv'
<1>0. TypeOK
  BY DEF IInv
<1>1. PICK t \in Tables :
        /\ user[Owner].pc = "update" /\ user[Owner].table = t
        /\ user' = [user EXCEPT ![Owner] = [pc |-> "notify", table |-> t]]
        /\ UNCHANGED <<inProgress, pending, valIndex, dumpIndex, loadBuff, valState, dump,
                       handle, tbl, commands, crossed>>
        /\ ~crossed => pending[t] /\ inProgress[t] # None
        /\ \/ /\ t \in DoubleBuffered /\ UNCHANGED <<buffer, taken>>
              /\ \E i \in Int : /\ active' = [active EXCEPT ![t] = i % 256]
                                /\ ~crossed => i = inProgress[t]
           \/ /\ t \notin DoubleBuffered /\ UNCHANGED active
              /\ \E i, j \in LoadBuffs \cup {None} :
                   /\ buffer' = [buffer EXCEPT ![t] = [buffer[t] EXCEPT ![0] =
                                   [buffer[t][0] EXCEPT !.data = loadBuff[i].data]]]
                   /\ taken' = [taken EXCEPT ![j] = FALSE]
                   /\ ~crossed => i = inProgress[t] /\ j = inProgress[t]
  BY UpdateImageFacts, Zenon
<1>2. /\ user'[Owner] = [pc |-> "notify", table |-> t]
      /\ user'[Owner].pc = "notify" /\ user'[Owner].table = t
      /\ \A u \in Users \ {Owner} : user'[u] = user[u]
  BY <1>0, <1>1 DEF TypeOK, Users
<1>3. user' \in [Users -> UserState]
  <2>1. [pc |-> "notify", table |-> t] \in UserState
    BY DEF UserState
  <2> QED
    BY <1>0, <1>1, <2>1 DEF TypeOK
<1>4. /\ active' \in [Tables -> 0 .. 255]
      /\ \A s \in Tables \ {t} : active'[s] = active[s]
      /\ t \notin DoubleBuffered => active'[t] = active[t]
  <2>1. CASE t \in DoubleBuffered
    <3>1. PICK i \in Int : active' = [active EXCEPT ![t] = i % 256]
      BY <1>1, <2>1
    <3>2. i % 256 \in 0 .. 255
      OBVIOUS
    <3> QED
      BY <1>0, <2>1, <3>1, <3>2 DEF TypeOK
  <2>2. CASE t \notin DoubleBuffered
    BY <1>0, <1>1, <2>2 DEF TypeOK
  <2> QED
    BY <2>1, <2>2
<1>5. buffer' \in [Tables -> [0 .. 1 \cup {None} -> Buffer]]
  <2>1. CASE t \in DoubleBuffered
    BY <1>0, <1>1, <2>1 DEF TypeOK
  <2>2. CASE t \notin DoubleBuffered
    <3>1. PICK i \in LoadBuffs \cup {None} :
            buffer' = [buffer EXCEPT ![t] = [buffer[t] EXCEPT ![0] =
                         [buffer[t][0] EXCEPT !.data = loadBuff[i].data]]]
      BY <1>1, <2>2
    <3>2. buffer[t][0] \in Buffer /\ loadBuff[i] \in Buffer
      BY <1>0 DEF TypeOK
    <3>3. PICK b \in Buffer : b = [buffer[t][0] EXCEPT !.data = loadBuff[i].data]
      BY <3>2 DEF Buffer
    <3>4. buffer' = [buffer EXCEPT ![t] = [buffer[t] EXCEPT ![0] = b]]
      BY <3>1, <3>3
    <3>5. [buffer[t] EXCEPT ![0] = b] \in [0 .. 1 \cup {None} -> Buffer]
      BY <1>0 DEF TypeOK
    <3> QED
      BY <1>0, <3>4, <3>5 DEF TypeOK
  <2> QED
    BY <2>1, <2>2
<1>6. taken' \in [LoadBuffs \cup {None} -> BOOLEAN]
  BY <1>0, <1>1 DEF TypeOK
<1>7. TypeOK'
  BY <1>0, <1>1, <1>3, <1>4, <1>5, <1>6 DEF TypeOK
<1>8. /\ \A s \in Tables : (Updating(s) <=> s = t) /\ (Updating(s)' <=> s = t)
      /\ \A s \in Tables : ~Installed(s) /\ (Installed(s)' <=> s = t)
      /\ \A s \in Tables : Held(Owner, s)' <=> Held(Owner, s)
  BY <1>1, <1>2 DEF Installed, Updating, Held
<1>9. DumpsApart'
  BY <1>1, <1>8, TablesAssumption DEF IInv, DumpsApart
<1>10. OwnerInOneCall'
  <2>1. \A u \in Sharers : user'[u] = user[u]
    BY <1>2, OwnerAssumption DEF Users
  <2> QED
    BY <1>2, <2>1 DEF IInv, OwnerInOneCall
<1>11. NotToldMeansCurrent'
  BY <1>1, <1>4, <1>8, TablesAssumption DEF IInv, NotToldMeansCurrent
<1>12. ASSUME ~crossed PROVE Agreed'
  <2>0. Agreed
    BY <1>12 DEF IInv
  <2>1. \A s \in Tables : active'[s] \in 0 .. 1
    <3>1. CASE t \in DoubleBuffered
      <4>1. PICK i \in Int : active' = [active EXCEPT ![t] = i % 256] /\ i = inProgress[t]
        BY <1>1, <1>12, <3>1
      <4>2. inProgress[t] = 1 - active[t] /\ active[t] \in 0 .. 1
        BY <1>1, <1>8, <1>12, <2>0, <3>1 DEF Agreed, WorkingApart
      <4>3. i \in 0 .. 1
        BY <4>1, <4>2
      <4>4. i % 256 \in 0 .. 1
        BY <4>3
      <4>5. active'[t] \in 0 .. 1
        BY <1>0, <4>1, <4>4 DEF TypeOK
      <4> QED
        BY <1>4, <2>0, <4>5 DEF Agreed
    <3>2. CASE t \notin DoubleBuffered
      BY <1>1, <2>0, <3>2 DEF Agreed
    <3> QED
      BY <3>1, <3>2
  <2>2. WorkingApart'
    <3> SUFFICES ASSUME NEW s \in Tables, inProgress[s] # None, s # t
                 PROVE  IF s \in DoubleBuffered THEN inProgress[s] = 1 - active'[s]
                        ELSE /\ inProgress[s] \in LoadBuffs /\ taken'[inProgress[s]]
                             /\ \A r \in Tables \ DoubleBuffered :
                                  r # s /\ r # t => inProgress[r] # inProgress[s]
      BY <1>1, <1>8 DEF WorkingApart
    <3>1. IF s \in DoubleBuffered THEN inProgress[s] = 1 - active[s]
          ELSE /\ inProgress[s] \in LoadBuffs /\ taken[inProgress[s]]
               /\ \A r \in Tables \ DoubleBuffered : r # s => inProgress[r] # inProgress[s]
      BY <1>8, <2>0 DEF Agreed, WorkingApart
    <3>2. ASSUME s \notin DoubleBuffered PROVE taken'[inProgress[s]]
      <4>1. CASE t \in DoubleBuffered
        BY <1>1, <3>1, <3>2, <4>1
      <4>2. CASE t \notin DoubleBuffered
        <5>1. PICK j \in LoadBuffs \cup {None} :
                taken' = [taken EXCEPT ![j] = FALSE] /\ j = inProgress[t]
          BY <1>1, <1>12, <4>2
        <5>2. j # inProgress[s]
          BY <3>1, <3>2, <4>2, <5>1
        <5> QED
          BY <1>0, <3>1, <3>2, <5>1, <5>2 DEF TypeOK
      <4> QED
        BY <4>1, <4>2
    <3> QED
      BY <1>4, <3>1, <3>2
  <2>3. ReadsIntoWorking'
    <3>1. tbl.pc = "read" => tbl.table \in Tables
      BY <1>0, TblFacts
    <3> QED
      BY <1>1, <1>4, <1>8, <2>0, <3>1 DEF Agreed, ReadsIntoWorking, Working
  <2>4. InstallsInProgress'
    BY <1>1, <1>2, <1>8, <1>12 DEF InstallsInProgress
  <2>5. OwnerReadsActive'
    BY <1>1, <1>4, <1>8, <2>0, TablesAssumption DEF Agreed, OwnerReadsActive
  <2> QED
    BY <2>1, <2>2, <2>3, <2>4, <2>5 DEF Agreed
<1> QED
  BY <1>1, <1>7, <1>9, <1>10, <1>11, <1>12 DEF IInv

LEMMA UpdateNotifyStep ==
  ASSUME IInv, UpdateNotify
  PROVE  IInv'
<1>0. TypeOK
  BY DEF IInv
<1>1. PICK t \in Tables : user[Owner].table = t
  BY <1>0, UserFacts DEF UpdateNotify, Users
<1>2. /\ UNCHANGED <<active, valIndex, dumpIndex, buffer, loadBuff, taken, valState, dump, tbl,
                     commands, crossed>>
      /\ user[Owner].pc = "notify" /\ user' = [user EXCEPT ![Owner] = Idle]
      /\ inProgress' = [inProgress EXCEPT ![t] = None]
      /\ pending' = [pending EXCEPT ![t] = FALSE]
      /\ handle' = [u \in Users |-> [handle[u] EXCEPT ![t] =
                                       [handle[u][t] EXCEPT !.updated = TRUE]]]
  BY <1>1 DEF UpdateNotify, NotifyTblUsersOfUpdate, buffers, blocks
<1>3. /\ user'[Owner].pc = "idle"
      /\ \A u \in Users \ {Owner} : user'[u] = user[u]
  BY <1>0, <1>2 DEF TypeOK, Users, Idle
<1>4. user' \in [Users -> UserState]
  BY <1>0, <1>2 DEF TypeOK, UserState
<1>5. /\ inProgress'[t] = None /\ \A s \in Tables \ {t} : inProgress'[s] = inProgress[s]
      /\ pending' \in [Tables -> BOOLEAN] /\ ~pending'[t]
      /\ \A s \in Tables \ {t} : pending'[s] = pending[s]
  BY <1>0, <1>2 DEF TypeOK
<1>6. /\ inProgress' \in [Tables -> Int]
      /\ \A s \in Tables \ DoubleBuffered : inProgress'[s] \in LoadBuffs \cup {None}
  <2>1. inProgress' \in [Tables -> Int]
    BY <1>0, <1>2, IndexFacts DEF TypeOK
  <2> QED
    BY <1>0, <1>5, <2>1 DEF TypeOK
<1>7. /\ handle' \in [Users -> [Tables -> [lock : BOOLEAN, index : 0 .. 255, updated : BOOLEAN]]]
      /\ \A u \in Users : handle'[u][t].updated /\ handle'[u][t].index = handle[u][t].index
      /\ \A u \in Users, s \in Tables : s # t => handle'[u][s] = handle[u][s]
  <2> SUFFICES ASSUME NEW u \in Users
               PROVE  /\ handle'[u] \in [Tables -> [lock : BOOLEAN, index : 0 .. 255,
                                                    updated : BOOLEAN]]
                      /\ handle'[u][t].updated /\ handle'[u][t].index = handle[u][t].index
                      /\ \A s \in Tables : s # t => handle'[u][s] = handle[u][s]
    BY <1>2
  <2>1. /\ handle[u][t] \in [lock : BOOLEAN, index : 0 .. 255, updated : BOOLEAN]
        /\ handle[u] \in [Tables -> [lock : BOOLEAN, index : 0 .. 255, updated : BOOLEAN]]
    BY <1>0 DEF TypeOK
  <2>2. PICK h \in [lock : BOOLEAN, index : 0 .. 255, updated : BOOLEAN] :
          h = [handle[u][t] EXCEPT !.updated = TRUE] /\ h.updated /\ h.index = handle[u][t].index
    <3>1. /\ [handle[u][t] EXCEPT !.updated = TRUE] \in
                [lock : BOOLEAN, index : 0 .. 255, updated : BOOLEAN]
          /\ [handle[u][t] EXCEPT !.updated = TRUE].updated
          /\ [handle[u][t] EXCEPT !.updated = TRUE].index = handle[u][t].index
      BY <2>1
    <3> QED
      BY <3>1, Zenon
  <2>3. handle'[u] = [handle[u] EXCEPT ![t] = h]
    BY <1>2, <2>2
  <2>4. handle'[u] \in [Tables -> [lock : BOOLEAN, index : 0 .. 255, updated : BOOLEAN]]
    BY <2>1, <2>3
  <2>5. handle'[u][t] = h /\ \A s \in Tables : s # t => handle'[u][s] = handle[u][s]
    BY <2>1, <2>3
  <2> QED
    BY <2>2, <2>4, <2>5
<1>8. TypeOK'
  BY <1>0, <1>2, <1>4, <1>5, <1>6, <1>7 DEF TypeOK
<1>9. /\ \A s \in Tables : (Updating(s) <=> s = t) /\ ~Updating(s)'
      /\ \A s \in Tables : (Installed(s) <=> s = t) /\ ~Installed(s)'
      /\ \A s \in Tables : s # t => (Held(Owner, s)' <=> Held(Owner, s))
  BY <1>1, <1>2, <1>3, <1>7 DEF Installed, Updating, Held, Users
<1>10. DumpsApart'
  BY <1>2, <1>5, <1>9, TablesAssumption DEF IInv, DumpsApart
<1>11. OwnerInOneCall'
  <2>1. \A u \in Sharers : user'[u] = user[u]
    BY <1>3, OwnerAssumption DEF Users
  <2> QED
    BY <1>3, <2>1 DEF IInv, OwnerInOneCall
<1>12. NotToldMeansCurrent'
  <2> SUFFICES ASSUME NEW s \in DoubleBuffered, Held(Owner, s)', ~handle'[Owner][s].updated
               PROVE  handle'[Owner][s].index = active'[s]
    BY DEF NotToldMeansCurrent
  <2>1. s \in Tables /\ s # t
    BY <1>7, TablesAssumption DEF Users
  <2>2. handle'[Owner][s] = handle[Owner][s] /\ Held(Owner, s) /\ ~Installed(s)
    BY <1>7, <1>9, <2>1 DEF Users
  <2>3. handle[Owner][s].index = active[s]
    BY <2>2 DEF IInv, NotToldMeansCurrent
  <2> QED
    BY <1>2, <2>2, <2>3
<1>13. ASSUME ~crossed PROVE Agreed'
  <2>0. Agreed
    BY <1>13 DEF IInv
  <2>1. WorkingApart'
    BY <1>2, <1>5, <1>9, <2>0 DEF Agreed, WorkingApart
  <2>2. ReadsIntoWorking'
    <3> SUFFICES ASSUME tbl.pc = "read"
                 PROVE  /\ inProgress'[tbl.table] # None /\ tbl.where = Working(tbl.table)'
                        /\ ~pending'[tbl.table] /\ ~Updating(tbl.table)'
      BY <1>2 DEF ReadsIntoWorking
    <3>1. PICK s \in Tables : s = tbl.table
      BY <1>0, TblFacts
    <3>2. inProgress[s] # None /\ tbl.where = Working(s) /\ ~pending[s] /\ ~Updating(s)
      BY <2>0, <3>1 DEF Agreed, ReadsIntoWorking
    <3>3. s # t
      BY <1>9, <3>2
    <3>4. Working(s)' = Working(s)
      BY <1>2, <1>5, <3>3 DEF Working
    <3> QED
      BY <1>2, <1>5, <1>9, <3>1, <3>2, <3>3, <3>4
  <2>3. InstallsInProgress'
    BY <1>9 DEF InstallsInProgress
  <2>4. OwnerReadsActive'
    <3> SUFFICES ASSUME NEW s \in DoubleBuffered
                 PROVE  /\ handle'[Owner][s].index \in 0 .. 1
                        /\ Held(Owner, s)' /\ inProgress'[s] # None =>
                             handle'[Owner][s].index = active'[s]
      BY DEF OwnerReadsActive
    <3>1. s \in Tables /\ handle[Owner][s].index \in 0 .. 1
      BY <2>0, TablesAssumption DEF Agreed, OwnerReadsActive
    <3>2. CASE s = t
      BY <1>5, <1>7, <3>1, <3>2 DEF Users
    <3>3. CASE s # t
      BY <1>2, <1>5, <1>7, <1>9, <2>0, <3>1, <3>3 DEF Users, Agreed, OwnerReadsActive
    <3> QED
      BY <3>2, <3>3
  <2> QED
    BY <1>2, <2>0, <2>1, <2>2, <2>3, <2>4 DEF Agreed
<1> QED
  BY <1>2, <1>8, <1>10, <1>11, <1>12, <1>13 DEF IInv

LEMMA ValidateStep ==
  ASSUME IInv, NEW t \in Tables, Validate(t)
  PROVE  IInv'
<1>0. TypeOK
  BY DEF IInv
<1>1. UNCHANGED <<active, inProgress, pending, valIndex, dumpIndex, buffer, loadBuff, taken,
                  valState, dump, handle, tbl, commands, crossed>>
      /\ user[Owner].pc = "idle"
  BY DEF Validate, registry, buffers, blocks
<1>2. PICK ok \in BOOLEAN :
        user' = [user EXCEPT ![Owner] = [pc |-> "validate", table |-> t, ok |-> ok]]
  <2>1. (Content(t, Working(t)).data \in Good) \in BOOLEAN
    OBVIOUS
  <2>2. PICK ok \in IF HasWorking(t) THEN {Content(t, Working(t)).data \in Good} ELSE BOOLEAN :
          user' = [user EXCEPT ![Owner] = [pc |-> "validate", table |-> t, ok |-> ok]]
    BY DEF Validate
  <2>3. ok \in BOOLEAN
    BY <2>1, <2>2, Zenon
  <2> QED
    BY <2>2, <2>3
<1>3. user'[Owner].pc = "validate" /\ \A u \in Users \ {Owner} : user'[u] = user[u]
  BY <1>0, <1>2 DEF TypeOK, Users
<1>4. TypeOK'
  <2>1. [pc |-> "validate", table |-> t, ok |-> ok] \in UserState
    BY DEF UserState
  <2>2. user' \in [Users -> UserState]
    BY <1>0, <1>2, <2>1 DEF TypeOK
  <2> QED
    BY <1>0, <1>1, <2>2 DEF TypeOK
<1>5. \A s \in Tables : Held(Owner, s)' <=> Held(Owner, s)
  BY <1>1, <1>3 DEF Held
<1>6. OwnerInOneCall'
  <2>1. \A u \in Sharers : user'[u] = user[u]
    BY <1>3, OwnerAssumption DEF Users
  <2> QED
    BY <1>3, <2>1 DEF IInv, OwnerInOneCall
<1>7. NotToldMeansCurrent' /\ (~crossed => OwnerReadsActive')
  BY <1>1, <1>3, <1>5, TablesAssumption
     DEF IInv, Agreed, OwnerReadsActive, NotToldMeansCurrent, Installed
<1> QED
  BY <1>1, <1>3, <1>4, <1>6, <1>7, UserStep

LEMMA ValidateDoneFacts ==
  ASSUME IInv, ValidateDone
  PROVE  /\ buffer' \in [Tables -> [0 .. 1 \cup {None} -> Buffer]]
         /\ loadBuff' \in [LoadBuffs \cup {None} -> Buffer]
         /\ \A t \in Tables, i \in 0 .. 1 \cup {None} : buffer'[t][i].data = buffer[t][i].data
<1>0. TypeOK
  BY DEF IInv
<1>1. PICK t \in Tables : user[Owner].table = t
  BY <1>0, UserFacts DEF ValidateDone, Users
<1>2. CASE Store(t, Working(t), [Content(t, Working(t)) EXCEPT !.validated = TRUE])
  <2>1. PICK where \in Target, old \in Buffer : /\ where = Working(t)
                                                /\ old = Content(t, where)
    BY <1>0, WorkingFacts, ContentFacts
  <2>2. PICK c \in Buffer : c = [old EXCEPT !.validated = TRUE] /\ c.data = old.data
    <3>1. /\ [old EXCEPT !.validated = TRUE] \in Buffer
          /\ [old EXCEPT !.validated = TRUE].data = old.data
      BY DEF Buffer
    <3> QED
      BY <3>1, Zenon
  <2>3. Store(t, where, c)
    BY <1>2, <2>1, <2>2
  <2>4. where.own => old = buffer[t][Slot(where.index)]
    BY <2>1 DEF Content
  <2>5. /\ buffer' \in [Tables -> [0 .. 1 \cup {None} -> Buffer]]
        /\ loadBuff' \in [LoadBuffs \cup {None} -> Buffer]
    BY <1>0, <2>3, StoreFacts
  <2>6. ASSUME NEW s \in Tables, NEW i \in 0 .. 1 \cup {None}
        PROVE  buffer'[s][i] = IF where.own /\ s = t /\ i = Slot(where.index) THEN c
                               ELSE buffer[s][i]
    BY <1>0, <2>3, StoreFacts
  <2> QED
    BY <2>2, <2>4, <2>5, <2>6
<1>3. CASE UNCHANGED <<buffer, loadBuff>>
  BY <1>0, <1>3 DEF TypeOK
<1> QED
  BY <1>1, <1>2, <1>3 DEF ValidateDone

LEMMA ValidateDoneStep ==
  ASSUME IInv, ValidateDone
  PROVE  IInv'
<1>0. TypeOK
  BY DEF IInv
<1>1. PICK t \in Tables : user[Owner].table = t
  BY <1>0, UserFacts DEF ValidateDone, Users
<1>2. /\ UNCHANGED <<active, inProgress, pending, dumpIndex, taken, dump, handle, tbl, commands,
                     crossed>>
      /\ user[Owner].pc = "validate" /\ user' = [user EXCEPT ![Owner] = Idle]
      /\ valState' = [valState EXCEPT ![valIndex[t]] = "performed"]
      /\ valIndex' = [valIndex EXCEPT ![t] = None]
  BY <1>1 DEF ValidateDone
<1>3. user'[Owner].pc = "idle" /\ \A u \in Users \ {Owner} : user'[u] = user[u]
  BY <1>0, <1>2 DEF TypeOK, Users, Idle
<1>4. TypeOK'
  <2>1. user' \in [Users -> UserState]
    BY <1>0, <1>2 DEF TypeOK, UserState
  <2>2. valState' \in [ValBlocks -> {"free", "pending", "performed"}]
        /\ valIndex' \in [Tables -> ValBlocks \cup {None}]
    BY <1>0, <1>2 DEF TypeOK
  <2> QED
    BY <1>0, <1>2, <2>1, <2>2, ValidateDoneFacts DEF TypeOK
<1>5. \A s \in Tables : Held(Owner, s)' <=> Held(Owner, s)
  BY <1>2, <1>3 DEF Held
<1>6. OwnerInOneCall'
  <2>1. \A u \in Sharers : user'[u] = user[u]
    BY <1>3, OwnerAssumption DEF Users
  <2> QED
    BY <1>3, <2>1 DEF IInv, OwnerInOneCall
<1>7. NotToldMeansCurrent' /\ (~crossed => OwnerReadsActive')
  BY <1>2, <1>3, <1>5, TablesAssumption
     DEF IInv, Agreed, OwnerReadsActive, NotToldMeansCurrent, Installed
<1> QED
  BY <1>2, <1>3, <1>4, <1>6, <1>7, UserStep

LEMMA DumpToBufferStep ==
  ASSUME IInv, NEW t \in Tables, DumpToBuffer(t)
  PROVE  IInv'
<1>0. TypeOK
  BY DEF IInv
<1>1. UNCHANGED <<active, inProgress, pending, valIndex, buffer, taken, valState, handle, tbl,
                  user, commands, crossed>>
  BY DEF DumpToBuffer
<1>2. PICK d \in DumpBlocks : d = dumpIndex[t] /\ d # None
  BY <1>0 DEF DumpToBuffer, TypeOK
<1>3. PICK w, e : w = dump[d].buff /\ e = [dump[d] EXCEPT !.state = "performed"]
  OBVIOUS
<1>4. /\ loadBuff' = [loadBuff EXCEPT ![w] = [loadBuff[w] EXCEPT !.data = buffer[t][0].data]]
      /\ dump' = [dump EXCEPT ![d] = e]
      /\ dumpIndex' = [dumpIndex EXCEPT ![t] = None]
  BY <1>2, <1>3 DEF DumpToBuffer
<1>5. /\ e \in [state : {"free", "pending", "performed"},
                table : Tables \cup {None}, buff : LoadBuffs \cup {None}]
      /\ e.table = dump[d].table /\ dump[d].table \in DumpOnly
      /\ w \in LoadBuffs \cup {None}
  <2>1. dump[d] \in [state : {"free", "pending", "performed"},
                     table : Tables \cup {None}, buff : LoadBuffs \cup {None}]
    BY <1>0 DEF TypeOK
  <2>2. dump[d].table \in DumpOnly
    BY <1>2 DEF IInv, DumpsApart
  <2> QED
    BY <1>3, <2>1, <2>2
<1>6. loadBuff' \in [LoadBuffs \cup {None} -> Buffer]
  <2>1. loadBuff[w] \in Buffer /\ buffer[t][0] \in Buffer
    BY <1>0, <1>5 DEF TypeOK
  <2>2. [loadBuff[w] EXCEPT !.data = buffer[t][0].data] \in Buffer
    BY <2>1 DEF Buffer
  <2> QED
    BY <1>0, <1>4, <2>2 DEF TypeOK
<1>7. /\ dump' \in [DumpBlocks -> [state : {"free", "pending", "performed"},
                                   table : Tables \cup {None}, buff : LoadBuffs \cup {None}]]
      /\ dumpIndex' \in [Tables -> DumpBlocks \cup {None}]
      /\ \A b \in DumpBlocks : IF b = d THEN dump'[b].table \in DumpOnly
                               ELSE dump'[b] = dump[b]
      /\ \A s \in Tables : dumpIndex'[s] # None =>
           dumpIndex'[s] = dumpIndex[s] /\ dumpIndex[s] \in DumpBlocks
  BY <1>0, <1>4, <1>5 DEF TypeOK
<1>8. TypeOK'
  BY <1>0, <1>1, <1>6, <1>7 DEF TypeOK
<1>9. DumpsApart'
  BY <1>1, <1>7 DEF IInv, DumpsApart, Updating
<1>10. OwnerInOneCall' /\ NotToldMeansCurrent'
  BY <1>1 DEF IInv, OwnerInOneCall, NotToldMeansCurrent, Held, Installed
<1>11. ~crossed => Agreed'
  <2>1. ~crossed => WorkingApart' /\ ReadsIntoWorking' /\ InstallsInProgress'
    BY <1>1 DEF IInv, Agreed, WorkingApart, ReadsIntoWorking, InstallsInProgress, Working,
                Installed, Updating
  <2>2. ~crossed => OwnerReadsActive'
    BY <1>1 DEF IInv, Agreed, OwnerReadsActive, Held, Installed
  <2> QED
    BY <1>1, <2>1, <2>2 DEF IInv, Agreed
<1> QED
  BY <1>1, <1>8, <1>9, <1>10, <1>11 DEF IInv

-----------------------------------------------------------------------------
(* The theorems. *)

LEMMA EveryStep ==
  ASSUME IInv, [Next]_vars
  PROVE  IInv'
<1>1. CASE TableTask
  BY <1>1, LoadCmdStep, LoadReadStep, ValidateCmdStep, LookStep, ActivateMarkStep, AbortLoadStep,
     DumpCmdStep, HousekeepingCmdStep DEF TableTask
<1>2. CASE \E u \in Users : UserCall(u)
  BY <1>2, GetAddressStep, ReadIndexStep, StoreIndexStep, ReleaseAddressStep DEF UserCall
<1>3. CASE (\E t \in Tables : Manage(t)) \/ UpdateImage \/ UpdateNotify \/ ValidateDone
  BY <1>3, UpdateStep, UpdateImageStep, UpdateNotifyStep, ValidateStep, DumpToBufferStep,
     ValidateDoneStep DEF Manage
<1>4. CASE UNCHANGED vars
  <2>1. TypeOK'
    BY <1>4 DEF vars, IInv, TypeOK
  <2>2. OwnerInOneCall' /\ NotToldMeansCurrent'
    BY <1>4 DEF vars, IInv, OwnerInOneCall, NotToldMeansCurrent, Held, Installed
  <2>3. ~crossed => OwnerReadsActive'
    BY <1>4 DEF vars, IInv, Agreed, OwnerReadsActive, Held, Installed
  <2> QED
    BY <1>4, <2>1, <2>2, <2>3, UserStep DEF vars
<1> QED
  BY <1>1, <1>2, <1>3, <1>4 DEF Next

LEMMA InitInv == Init => IInv
<1> SUFFICES ASSUME Init PROVE IInv
  OBVIOUS
<1>1. TypeOK
  <2>1. PICK img \in Good :
          /\ buffer = [t \in Tables |-> [i \in 0 .. 1 \cup {None} |->
                         [data |-> IF i = None THEN Part ELSE img, validated |-> FALSE]]]
          /\ loadBuff = [b \in LoadBuffs \cup {None} |->
                           [data |-> IF b = None THEN Part ELSE img, validated |-> FALSE]]
    BY DEF Init
  <2>2. /\ [data |-> img, validated |-> FALSE] \in Buffer
        /\ [data |-> Part, validated |-> FALSE] \in Buffer
    BY ImagesAssumption DEF Buffer, Contents
  <2>3. \A i : [data |-> IF i = None THEN Part ELSE img, validated |-> FALSE] \in Buffer
    BY <2>2, Zenon
  <2>4. /\ buffer \in [Tables -> [0 .. 1 \cup {None} -> Buffer]]
        /\ loadBuff \in [LoadBuffs \cup {None} -> Buffer]
    BY <2>1, <2>3
  <2>5. handle \in [Users -> [Tables -> [lock : BOOLEAN, index : 0 .. 255, updated : BOOLEAN]]]
    BY DEF Init
  <2>6. /\ active \in [Tables -> 0 .. 255]
        /\ inProgress \in [Tables -> Int] /\ pending \in [Tables -> BOOLEAN]
        /\ \A t \in Tables \ DoubleBuffered : inProgress[t] \in LoadBuffs \cup {None}
        /\ valIndex \in [Tables -> ValBlocks \cup {None}]
        /\ dumpIndex \in [Tables -> DumpBlocks \cup {None}]
    BY IndexFacts DEF Init
  <2>7. taken \in [LoadBuffs \cup {None} -> BOOLEAN]
    BY DEF Init
  <2>8. /\ valState \in [ValBlocks -> {"free", "pending", "performed"}]
        /\ dump \in [DumpBlocks -> [state : {"free", "pending", "performed"},
                                    table : Tables \cup {None}, buff : LoadBuffs \cup {None}]]
        /\ tbl = Idle /\ commands \in 0 .. MaxCommands /\ crossed \in BOOLEAN
    <3>1. \A d \in DumpBlocks :
            [state |-> "free", table |-> None, buff |-> None] \in
              [state : {"free", "pending", "performed"},
               table : Tables \cup {None}, buff : LoadBuffs \cup {None}]
      OBVIOUS
    <3>2. dump = [d \in DumpBlocks |-> [state |-> "free", table |-> None, buff |-> None]]
      BY DEF Init
    <3>3. dump \in [DumpBlocks -> [state : {"free", "pending", "performed"},
                                   table : Tables \cup {None}, buff : LoadBuffs \cup {None}]]
      BY <3>1, <3>2
    <3>4. valState \in [ValBlocks -> {"free", "pending", "performed"}]
      BY DEF Init
    <3>5. commands = 0 /\ tbl = Idle /\ crossed = FALSE
      BY Zenon DEF Init
    <3>6. commands \in 0 .. MaxCommands
      BY <3>5, SizesAssumption
    <3> QED
      BY <3>3, <3>4, <3>5, <3>6
  <2>9. user \in [Users -> UserState]
    BY DEF Init, UserState
  <2> QED
    BY <2>4, <2>5, <2>6, <2>7, <2>8, <2>9 DEF Init, TypeOK
<1>2. \A u \in Users : user[u].pc = "idle"
  BY DEF Init, Idle
<1>3. tbl.pc = "idle"
  BY DEF Init, Idle
<1>4. DumpsApart
  BY <1>2, <1>3, TablesAssumption DEF Init, DumpsApart, Updating, Users
<1>5. OwnerInOneCall
  BY <1>2 DEF OwnerInOneCall, Users
<1>6. \A t \in DoubleBuffered : handle[Owner][t].index = 0 /\ ~handle[Owner][t].lock
  BY TablesAssumption DEF Init, Users
<1>7. NotToldMeansCurrent
  BY <1>6 DEF NotToldMeansCurrent, Held
<1>8. Agreed
  <2>1. (\A t \in Tables : active[t] \in 0 .. 1) /\ WorkingApart
    BY DEF Init, WorkingApart
  <2>2. ReadsIntoWorking /\ InstallsInProgress
    BY <1>2, <1>3 DEF ReadsIntoWorking, InstallsInProgress, Updating, Users
  <2>3. OwnerReadsActive
    BY <1>6 DEF OwnerReadsActive, Held
  <2> QED
    BY <2>1, <2>2, <2>3 DEF Agreed
<1> QED
  BY <1>1, <1>4, <1>5, <1>7, <1>8 DEF IInv

LEMMA Invariance == Spec => []IInv
<1>1. IInv /\ [Next]_vars => IInv'
  BY EveryStep
<1> QED
  BY <1>1, InitInv, PTL DEF Spec

\* With the table task and CFE_TBL_Manage reading and writing the registry
\* without a lock, and an activation marked as late as may be: as long as no
\* load is aborted while the owner installs it, every load has a working image
\* of its own, a file is read into the image it was meant for, and what the
\* owner installs is the load it has looked for.
THEOREM TablesCorrect == Spec => []TablesInv
<1>1. IInv => TablesInv
  BY DEF IInv, Agreed, TablesInv, WorkingApart, LoadsApart, Loadable
<1> QED
  BY <1>1, Invariance, PTL

\* An owner that CFE_TBL_NotifyTblUsersOfUpdate has not told of an update holds
\* the address of the active image, even if a load was aborted under it.
THEOREM OwnerIsTold == Spec => []NotToldMeansCurrent
<1>1. IInv => NotToldMeansCurrent
  BY DEF IInv
<1> QED
  BY <1>1, Invariance, PTL

\* Without such an abort, only a file being loaded and the installation of a
\* table with one buffer write to a buffer of a table: the first to the
\* inactive one, the second when the owner does not hold the address.
LEMMA WhatIsWritten ==
  ASSUME IInv, ~crossed, [Next]_vars, NEW t \in Tables, NEW i \in 0 .. 1 \cup {None},
         buffer'[t][i].data # buffer[t][i].data
  PROVE  \/ /\ t \in DoubleBuffered /\ i = 1 - active[t] /\ UNCHANGED active
            /\ (inProgress[t] # None /\ ~Installed(t)) \/ ~InactiveLocked(t)
         \/ /\ UpdateImage /\ Updating(t) /\ ~handle[Owner][t].lock /\ i = 0
            /\ t \notin DoubleBuffered /\ pending[t] /\ UNCHANGED active
            /\ buffer'[t][i].data = loadBuff[inProgress[t]].data
<1>0. TypeOK /\ Agreed
  BY DEF IInv
<1>1. ASSUME NEW s \in Tables, NEW img \in Images, LoadCmd(s, img)
      PROVE  /\ t \in DoubleBuffered /\ i = 1 - active[t] /\ UNCHANGED active
             /\ (inProgress[t] # None /\ ~Installed(t)) \/ ~InactiveLocked(t)
  <2> DEFINE where == [own |-> s \in DoubleBuffered, index |-> WorkingIndex(s)]
             c == [Content(s, where) EXCEPT !.data = Part]
  <2>1. WorkingAvailable(s) /\ Store(s, where, c) /\ UNCHANGED active /\ ~pending[s]
    BY <1>1 DEF LoadCmd
  <2>2. (where.own <=> s \in DoubleBuffered) /\ where.index = WorkingIndex(s)
    OBVIOUS
  <2> HIDE DEF where, c
  <2>3. ~Installed(s)
    BY <1>0, <2>1 DEF Agreed, InstallsInProgress, Updating, Installed
  <2>4. CASE s \in DoubleBuffered
    <3>1. buffer' = [buffer EXCEPT ![s] = [buffer[s] EXCEPT ![Slot(WorkingIndex(s))] = c]]
      BY <2>1, <2>2, <2>4 DEF Store
    <3>2. WorkingIndex(s) = 1 - active[s]
      BY <1>0, <2>1, <2>3, <2>4, WorkingIndexApart DEF Agreed
    <3>3. active[s] \in 0 .. 1
      BY <1>0 DEF Agreed
    <3>4. Slot(WorkingIndex(s)) = 1 - active[s]
      BY <3>2, <3>3, IndexFacts
    <3>5. s = t /\ i = Slot(WorkingIndex(s))
      BY <1>0, <3>1 DEF TypeOK
    <3> QED
      BY <2>1, <2>3, <2>4, <3>4, <3>5 DEF WorkingAvailable
  <2>5. CASE s \notin DoubleBuffered
    BY <2>1, <2>2, <2>5 DEF Store
  <2> QED
    BY <2>4, <2>5
<1>2. ASSUME LoadRead
      PROVE  /\ t \in DoubleBuffered /\ i = 1 - active[t] /\ UNCHANGED active
             /\ inProgress[t] # None /\ ~Installed(t)
  <2>1. PICK s \in Tables, where \in Target :
          /\ tbl.table = s /\ tbl.where = where /\ inProgress[s] # None /\ where = Working(s)
          /\ ~Updating(s)
    BY <1>0, <1>2, TblFacts DEF LoadRead, Agreed, ReadsIntoWorking
  <2>2. PICK c : Store(s, where, c) \/ UNCHANGED buffer
    BY <1>2, <2>1 DEF LoadRead
  <2>3. where.own /\ buffer' = [buffer EXCEPT ![s] = [buffer[s] EXCEPT ![Slot(where.index)] = c]]
    BY <2>2 DEF Store
  <2>4. s = t /\ i = Slot(where.index)
    BY <1>0, <2>3 DEF TypeOK
  <2>5. s \in DoubleBuffered /\ where.index = 1 - active[s]
    BY <1>0, <2>1, <2>3, WorkingFacts
  <2>6. Slot(where.index) = 1 - active[s]
    <3>1. active[s] \in 0 .. 1
      BY <1>0 DEF Agreed
    <3> QED
      BY <2>5, <3>1, IndexFacts
  <2>7. ~Installed(t)
    BY <2>1, <2>4 DEF Updating, Installed
  <2> QED
    BY <1>2, <2>1, <2>4, <2>5, <2>6, <2>7 DEF LoadRead, registry
<1>3. ASSUME UpdateImage
      PROVE  /\ Updating(t) /\ ~handle[Owner][t].lock /\ i = 0
             /\ t \notin DoubleBuffered /\ pending[t] /\ UNCHANGED active
             /\ buffer'[t][i].data = loadBuff[inProgress[t]].data
  <2>1. PICK s \in Tables :
          /\ user[Owner].pc = "update" /\ user[Owner].table = s /\ pending[s]
          /\ \/ UNCHANGED buffer
             \/ /\ s \notin DoubleBuffered /\ UNCHANGED active
                /\ buffer' = [buffer EXCEPT ![s] = [buffer[s] EXCEPT ![0] =
                                [buffer[s][0] EXCEPT !.data = loadBuff[inProgress[s]].data]]]
    BY <1>3, UpdateImageFacts
  <2>2. /\ s \notin DoubleBuffered /\ UNCHANGED active
        /\ buffer' = [buffer EXCEPT ![s] = [buffer[s] EXCEPT ![0] =
                        [buffer[s][0] EXCEPT !.data = loadBuff[inProgress[s]].data]]]
    BY <2>1
  <2>3. PICK b : b = [buffer[s][0] EXCEPT !.data = loadBuff[inProgress[s]].data]
    OBVIOUS
  <2>4. buffer' = [buffer EXCEPT ![s] = [buffer[s] EXCEPT ![0] = b]]
    BY <2>2, <2>3
  <2>5. s = t /\ i = 0 /\ buffer'[t][i] = b
    BY <1>0, <2>4 DEF TypeOK
  <2>6. b.data = loadBuff[inProgress[s]].data
    <3>1. buffer[s][0] \in Buffer
      BY <1>0 DEF TypeOK
    <3> QED
      BY <2>3, <3>1 DEF Buffer
  <2>7. ~handle[Owner][s].lock /\ Updating(s)
    BY <2>1, <2>2 DEF IInv, OwnerInOneCall, Updating
  <2> QED
    BY <2>1, <2>2, <2>5, <2>6, <2>7
<1>4. ~ValidateDone
  BY ValidateDoneFacts
<1>5. buffer' # buffer
  OBVIOUS
<1>6. CASE TableTask
  BY <1>1, <1>2, <1>5, <1>6
     DEF TableTask, ValidateCmd, ActivateCmd, ActivateMark, AbortLoadCmd, AbortLoad, DumpCmd,
         HousekeepingCmd, buffers
<1>7. CASE \E u \in Users : UserCall(u)
  BY <1>5, <1>7 DEF UserCall, GetAddress, ReadIndex, StoreIndex, ReleaseAddress, buffers
<1>8. CASE (\E s \in Tables : Manage(s)) \/ UpdateNotify
  BY <1>5, <1>8 DEF Manage, Update, UpdateNotify, Validate, DumpToBuffer, buffers
<1>9. CASE UNCHANGED vars
  BY <1>5, <1>9 DEF vars
<1> QED
  BY <1>3, <1>4, <1>6, <1>7, <1>8, <1>9 DEF Next

\* An abort that crossed an update is never forgotten.
LEMMA CrossedStays ==
  ASSUME [Next]_vars, crossed
  PROVE  crossed'
  BY DEF Next, TableTask, LoadCmd, LoadRead, ValidateCmd, ActivateCmd, ActivateMark, AbortLoadCmd,
         AbortLoad, DumpCmd, HousekeepingCmd, UserCall, GetAddress, ReadIndex, StoreIndex,
         ReleaseAddress, Manage, Update, UpdateImage, UpdateNotify, Validate, ValidateDone,
         DumpToBuffer, vars

\* As long as no load is aborted while the owner installs it, the image behind
\* an address the owner holds does not change until it calls
\* CFE_TBL_ReleaseAddress, although loads and updates go on.
THEOREM OwnersImageKept == Spec => OwnersImageStable
<1>1. ASSUME IInv, [Next]_vars, ~crossed', NEW t \in Tables, Held(Owner, t)
      PROVE  buffer'[t][Slot(handle[Owner][t].index)].data
               = buffer[t][Slot(handle[Owner][t].index)].data
  <2>0. ~crossed /\ Agreed
    BY <1>1, CrossedStays DEF IInv
  <2>1. PICK h \in 0 .. 255 : h = handle[Owner][t].index
    BY <1>1 DEF IInv, TypeOK, Users
  <2>2. PICK i \in 0 .. 1 \cup {None} : i = Slot(h) /\ (i # None => i = h)
    BY <2>1, IndexFacts DEF Slot
  <2> SUFFICES ASSUME buffer'[t][i].data # buffer[t][i].data
               PROVE  FALSE
    BY <2>1, <2>2
  <2>3. handle[Owner][t].lock
    BY <1>1 DEF Held
  <2>4. active[t] \in 0 .. 1
    BY <2>0 DEF Agreed
  <2>5. t \in DoubleBuffered /\ i = 1 - active[t]
        /\ ((inProgress[t] # None /\ ~Installed(t)) \/ ~InactiveLocked(t))
    BY <1>1, <2>0, <2>3, WhatIsWritten
  <2>6. h = 1 - active[t]
    BY <2>2, <2>4, <2>5 DEF None
  <2>7. inProgress[t] # None /\ ~Installed(t) => h = active[t]
    BY <1>1, <2>0, <2>1, <2>5 DEF Agreed, OwnerReadsActive
  <2>8. InactiveLocked(t)
    BY <2>1, <2>3, <2>6 DEF InactiveLocked, Users
  <2> QED
    BY <2>4, <2>5, <2>6, <2>7, <2>8
<1>2. IInv /\ [Next]_vars =>
        [~crossed' => \A t \in Tables :
           Held(Owner, t) =>
             LET i == handle[Owner][t].index
             IN  buffer'[t][Slot(i)].data = buffer[t][Slot(i)].data]_vars
  BY <1>1
<1> QED
  BY <1>2, Invariance, PTL DEF Spec, OwnersImageStable

\* As long as no load is aborted while the owner installs it, commands of the
\* ground leave the active image of a table as it is; it changes only where the
\* owner's CFE_TBL_Manage installs the load in progress, which is pending.
THEOREM ChangesInManage == Spec => ChangesInManageOnly
<1>1. ASSUME IInv, [Next]_vars, ~crossed', NEW t \in Tables, ActiveImage(t)' # ActiveImage(t)
      PROVE  /\ UpdateImage /\ Updating(t) /\ pending[t]
             /\ ActiveImage(t)' = Content(t, Working(t)).data
  <2>0. TypeOK /\ ~crossed /\ Agreed
    BY <1>1, CrossedStays DEF IInv
  <2>1. active[t] \in 0 .. 1 /\ Slot(active[t]) = active[t]
    BY <2>0, IndexFacts DEF Agreed
  <2>2. CASE active'[t] = active[t]
    <3>1. PICK i \in 0 .. 1 \cup {None} : i = Slot(active[t]) /\ i = active[t]
      BY <2>1
    <3>2. ActiveImage(t) = buffer[t][i].data /\ ActiveImage(t)' = buffer'[t][i].data
      BY <2>2, <3>1 DEF ActiveImage
    <3>3. /\ UpdateImage /\ Updating(t) /\ pending[t] /\ t \notin DoubleBuffered
          /\ buffer'[t][i].data = loadBuff[inProgress[t]].data
      BY <1>1, <2>0, <2>1, <3>1, <3>2, WhatIsWritten
    <3>4. Content(t, Working(t)) = loadBuff[inProgress[t]]
      BY <3>3 DEF Content, Working
    <3> QED
      BY <3>2, <3>3, <3>4
  <2>3. CASE active'[t] # active[t]
    <3>1. UpdateImage
      BY <1>1, <2>3
         DEF Next, TableTask, LoadCmd, LoadRead, ValidateCmd, ActivateCmd, ActivateMark,
             AbortLoadCmd, AbortLoad, DumpCmd, HousekeepingCmd, UserCall, GetAddress, ReadIndex,
             StoreIndex, ReleaseAddress, Manage, Update, UpdateNotify, Validate, ValidateDone,
             DumpToBuffer, registry, vars
    <3>2. PICK s \in Tables :
            /\ user[Owner].pc = "update" /\ user[Owner].table = s
            /\ pending[s] /\ inProgress[s] # None
            /\ s \in DoubleBuffered /\ UNCHANGED buffer
            /\ active' = [active EXCEPT ![s] = inProgress[s] % 256]
      <4>1. active' # active
        BY <2>3
      <4> QED
        BY <1>1, <2>0, <3>1, <4>1, UpdateImageFacts
    <3>3. s = t
      BY <2>0, <2>3, <3>2 DEF TypeOK
    <3>4. inProgress[t] = 1 - active[t]
      BY <2>0, <3>2, <3>3 DEF Agreed, WorkingApart, Installed
    <3>5. PICK i \in 0 .. 1 : i = 1 - active[t] /\ i % 256 = i /\ Slot(i) = i
      <4>1. 1 - active[t] \in 0 .. 1
        BY <2>1
      <4>2. \A i \in 0 .. 1 : i % 256 = i /\ Slot(i) = i
        BY IndexFacts
      <4> QED
        BY <4>1, <4>2
    <3>6. active'[t] = i
      BY <2>0, <3>2, <3>3, <3>4, <3>5 DEF TypeOK
    <3>7. ActiveImage(t)' = buffer[t][i].data
      BY <3>2, <3>5, <3>6 DEF ActiveImage
    <3>8. Content(t, Working(t)) = buffer[t][i]
      BY <3>2, <3>3, <3>5 DEF Content, Working
    <3> QED
      BY <3>1, <3>2, <3>3, <3>7, <3>8 DEF Updating
  <2> QED
    BY <2>2, <2>3
<1>2. IInv /\ [Next]_vars =>
        [~crossed' => \A t \in Tables : ActiveImage(t)' # ActiveImage(t) =>
           /\ UpdateImage /\ Updating(t) /\ pending[t]
           /\ ActiveImage(t)' = Content(t, Working(t)).data]_vars
  BY <1>1
<1> QED
  BY <1>2, Invariance, PTL DEF Spec, ChangesInManageOnly

=============================================================================
