---------------------------- MODULE TimeReference ----------------------------
(***************************************************************************)
(* The time reference of Time Services (cfe-core/src/time): the data every *)
(* reading of the time is computed from.  The Time task alone writes it,   *)
(* into the next of four buffers, and publishes it by its version; any     *)
(* task reads it with no lock, takes what it copied when the buffer still  *)
(* holds the version it started with, and gives up after some attempts.    *)
(* CFE_TIME_GetClockInfo reads the buffer and checks nothing.              *)
(*                                                                         *)
(* A step is one read or write of a shared word or field.  A field holds   *)
(* the version that changed it, and the latch the clock.  The clock ticks  *)
(* when the writer latches it: whether a reader latched it before or after *)
(* is all that a comparison of latches tells.  The version does not wrap   *)
(* around within the bound on updates.                                     *)
(***************************************************************************)
EXTENDS Integers

CONSTANTS
  Readers,      \* tasks that ask for the time
  Fields,       \* fields of CFE_TIME_ReferenceState_t other than the latch
  Changes,      \* the sets of fields the callers of the update change
  Retries,      \* attempts after the first (4 in the code)
  MaxUpdates,   \* bound: updates of the reference
  Latch         \* the field AtToneLatch

ASSUME LatchAssumption == Latch \notin Fields
ASSUME ChangesAssumption == Changes \subseteq SUBSET (Fields \cup {Latch})
ASSUME RetriesAssumption == Retries \in Nat
ASSUME UpdatesAssumption == MaxUpdates \in Nat

Depth == 4                        \* CFE_TIME_REFERENCE_BUF_DEPTH
\* Mutant: the versions alternate between two buffers.
Mask_two(version) == version % 2

Mask(version) == version % Depth
AllFields == Fields \cup {Latch}
NoVersion == -1                   \* 0xFFFFFFFF

VARIABLES
  LastVersionCounter,
  StateVersion,                   \* of each buffer
  ReferenceState,                 \* the fields of each buffer
  clock,                          \* the local clock
  wpc, todo,                      \* the writer; fields it has yet to write
  rpc, VersionCounter, RetryCount,
  left,                           \* fields a reader has yet to copy
  Reference,                      \* what it copied
  CurrentLatch,                   \* the clock it latched
  published,                      \* history: what its version was published as
  asked                           \* history: the version its call found

writerVars == <<LastVersionCounter, StateVersion, ReferenceState, clock, wpc, todo>>
readerVars == <<rpc, VersionCounter, RetryCount, left, Reference, CurrentLatch, published, asked>>
vars == <<LastVersionCounter, StateVersion, ReferenceState, clock, wpc, todo,
          rpc, VersionCounter, RetryCount, left, Reference, CurrentLatch, published, asked>>

Blank == [f \in AllFields |-> 0]

\* CFE_TIME_InitData has marked every buffer as never written.
Init ==
  /\ LastVersionCounter = 0
  /\ StateVersion = [i \in 0 .. Depth - 1 |-> NoVersion]
  /\ ReferenceState = [i \in 0 .. Depth - 1 |-> Blank]
  /\ clock = 0 /\ wpc = "idle" /\ todo = {}
  /\ rpc = [r \in Readers |-> "idle"]
  /\ VersionCounter = [r \in Readers |-> 0]
  /\ RetryCount = [r \in Readers |-> 0]
  /\ left = [r \in Readers |-> {}]
  /\ Reference = [r \in Readers |-> Blank]
  /\ CurrentLatch = [r \in Readers |-> 0]
  /\ published = [r \in Readers |-> Blank]
  /\ asked = [r \in Readers |-> 0]

-----------------------------------------------------------------------------
(* The writer. *)

Next1 == LastVersionCounter + 1    \* the version being written

\* CFE_TIME_StartReferenceUpdate marks the buffer before it touches a field,
\* and then copies every field of the current one.
StartReferenceUpdate ==
  /\ wpc = "idle" /\ LastVersionCounter < MaxUpdates
  /\ StateVersion' = [StateVersion EXCEPT ![Mask(Next1)] = Next1]
  /\ wpc' = "copy" /\ todo' = AllFields
  /\ UNCHANGED <<LastVersionCounter, ReferenceState, clock, readerVars>>

CopyField(f) ==
  /\ wpc = "copy" /\ f \in todo
  /\ ReferenceState' = [ReferenceState EXCEPT
       ![Mask(Next1)][f] = ReferenceState[Mask(LastVersionCounter)][f]]
  /\ todo' = todo \ {f}
  /\ UNCHANGED <<LastVersionCounter, StateVersion, clock, wpc, readerVars>>

\* Its callers then set the fields they are about, SetMET and InitData the
\* latch from the clock.
ChangeFields ==
  /\ wpc = "copy" /\ todo = {}
  /\ wpc' = "set"
  /\ todo' \in Changes
  /\ UNCHANGED <<LastVersionCounter, StateVersion, ReferenceState, clock, readerVars>>

SetField(f) ==
  /\ wpc = "set" /\ f \in todo
  /\ clock' = IF f = Latch THEN clock + 1 ELSE clock
  /\ ReferenceState' = [ReferenceState EXCEPT
       ![Mask(Next1)][f] = IF f = Latch THEN clock' ELSE Next1]
  /\ todo' = todo \ {f}
  /\ UNCHANGED <<LastVersionCounter, StateVersion, wpc, readerVars>>

FinishReferenceUpdate ==
  /\ wpc = "set" /\ todo = {}
  /\ LastVersionCounter' = StateVersion[Mask(Next1)]
  /\ wpc' = "idle"
  /\ UNCHANGED <<StateVersion, ReferenceState, clock, todo, readerVars>>

-----------------------------------------------------------------------------
(* CFE_TIME_GetReference and CFE_TIME_GetClockInfo. *)

\* A reading starts, or starts again, with the version published now.
TakeVersion(r) ==
  /\ VersionCounter' = [VersionCounter EXCEPT ![r] = LastVersionCounter]
  /\ published' = [published EXCEPT ![r] = ReferenceState[Mask(LastVersionCounter)]]
  /\ asked' = [asked EXCEPT ![r] = IF rpc[r] = "idle" THEN LastVersionCounter ELSE @]

GetReference(r) ==
  /\ rpc[r] \in {"idle", "retry"}
  /\ TakeVersion(r)
  /\ RetryCount' = [RetryCount EXCEPT ![r] = IF rpc[r] = "idle" THEN Retries ELSE @]
  /\ rpc' = [rpc EXCEPT ![r] = "latch"]
  /\ UNCHANGED <<writerVars, left, Reference, CurrentLatch>>

LatchClock(r) ==
  /\ rpc[r] = "latch"
  /\ CurrentLatch' = [CurrentLatch EXCEPT ![r] = clock]
  /\ left' = [left EXCEPT ![r] = AllFields]
  /\ rpc' = [rpc EXCEPT ![r] = "copy"]
  /\ UNCHANGED <<writerVars, VersionCounter, RetryCount, Reference, published, asked>>

\* Mutant: every field is read from the buffer that is current then.
ReadField_current(r, f) ==
  /\ rpc[r] \in {"copy", "info"} /\ f \in left[r]
  /\ Reference' = [Reference EXCEPT ![r][f] = ReferenceState[Mask(LastVersionCounter)][f]]
  /\ left' = [left EXCEPT ![r] = @ \ {f}]
  /\ UNCHANGED <<writerVars, rpc, VersionCounter, RetryCount, CurrentLatch, published, asked>>

ReadField(r, f) ==
  /\ rpc[r] \in {"copy", "info"} /\ f \in left[r]
  /\ Reference' = [Reference EXCEPT ![r][f] = ReferenceState[Mask(VersionCounter[r])][f]]
  /\ left' = [left EXCEPT ![r] = @ \ {f}]
  /\ UNCHANGED <<writerVars, rpc, VersionCounter, RetryCount, CurrentLatch, published, asked>>

\* Mutant: a copy is accepted with the attempts spent, whatever its version.
CheckVersion_spent(r) ==
  /\ rpc[r] = "copy" /\ left[r] = {}
  /\ IF StateVersion[Mask(VersionCounter[r])] = VersionCounter[r] \/ RetryCount[r] = 0
     THEN rpc' = [rpc EXCEPT ![r] = "accepted"] /\ UNCHANGED RetryCount
     ELSE /\ rpc' = [rpc EXCEPT ![r] = "retry"]
          /\ RetryCount' = [RetryCount EXCEPT ![r] = @ - 1]
  /\ UNCHANGED <<writerVars, VersionCounter, left, Reference, CurrentLatch, published, asked>>

\* Mutant: the first mismatch is the last attempt.
CheckVersion_once(r) ==
  /\ rpc[r] = "copy" /\ left[r] = {}
  /\ rpc' = [rpc EXCEPT ![r] =
               IF StateVersion[Mask(VersionCounter[r])] = VersionCounter[r]
               THEN "accepted" ELSE "gaveUp"]
  /\ UNCHANGED <<writerVars, VersionCounter, RetryCount, left, Reference, CurrentLatch,
                 published, asked>>

\* The version of the buffer is read last.
CheckVersion(r) ==
  /\ rpc[r] = "copy" /\ left[r] = {}
  /\ \/ /\ StateVersion[Mask(VersionCounter[r])] = VersionCounter[r]
        /\ rpc' = [rpc EXCEPT ![r] = "accepted"]
        /\ UNCHANGED RetryCount
     \/ /\ StateVersion[Mask(VersionCounter[r])] # VersionCounter[r]
        /\ RetryCount[r] = 0
        /\ rpc' = [rpc EXCEPT ![r] = "gaveUp"]
        /\ UNCHANGED RetryCount
     \/ /\ StateVersion[Mask(VersionCounter[r])] # VersionCounter[r]
        /\ RetryCount[r] # 0
        /\ rpc' = [rpc EXCEPT ![r] = "retry"]
        /\ RetryCount' = [RetryCount EXCEPT ![r] = @ - 1]
  /\ UNCHANGED <<writerVars, VersionCounter, left, Reference, CurrentLatch, published, asked>>

\* CFE_TIME_GetClockInfo takes the address of the current buffer once.
GetClockInfo(r) ==
  /\ rpc[r] = "idle"
  /\ TakeVersion(r)
  /\ left' = [left EXCEPT ![r] = Fields]
  /\ rpc' = [rpc EXCEPT ![r] = "info"]
  /\ UNCHANGED <<writerVars, RetryCount, Reference, CurrentLatch>>

GotClockInfo(r) ==
  /\ rpc[r] = "info" /\ left[r] = {}
  /\ rpc' = [rpc EXCEPT ![r] = "told"]
  /\ UNCHANGED <<writerVars, VersionCounter, RetryCount, left, Reference, CurrentLatch, published, asked>>

\* The caller is done with what it got, and with it the variables are gone.
Return(r) ==
  /\ rpc[r] \in {"accepted", "gaveUp", "told"}
  /\ rpc' = [rpc EXCEPT ![r] = "idle"]
  /\ VersionCounter' = [VersionCounter EXCEPT ![r] = 0]
  /\ RetryCount' = [RetryCount EXCEPT ![r] = 0]
  /\ Reference' = [Reference EXCEPT ![r] = Blank]
  /\ CurrentLatch' = [CurrentLatch EXCEPT ![r] = 0]
  /\ published' = [published EXCEPT ![r] = Blank]
  /\ asked' = [asked EXCEPT ![r] = 0]
  /\ UNCHANGED <<writerVars, left>>

-----------------------------------------------------------------------------
Next ==
  \/ StartReferenceUpdate \/ ChangeFields \/ FinishReferenceUpdate
  \/ \E f \in AllFields : CopyField(f) \/ SetField(f)
  \/ \E r \in Readers :
       \/ GetReference(r) \/ LatchClock(r) \/ CheckVersion(r)
       \/ GetClockInfo(r) \/ GotClockInfo(r) \/ Return(r)
       \/ \E f \in AllFields : ReadField(r, f)

Spec == Init /\ [][Next]_vars

-----------------------------------------------------------------------------
(* Properties. *)

Done(r) == rpc[r] \in {"accepted", "gaveUp", "told"}

\* Every variable has its type.
TypeOK ==
  /\ LastVersionCounter \in 0 .. MaxUpdates
  /\ StateVersion \in [0 .. Depth - 1 -> 1 .. MaxUpdates \cup {NoVersion}]
  /\ ReferenceState \in [0 .. Depth - 1 -> [AllFields -> Nat]]
  /\ clock \in Nat
  /\ wpc \in {"idle", "copy", "set"} /\ todo \in SUBSET AllFields
  /\ rpc \in [Readers -> {"idle", "retry", "latch", "copy", "info", "accepted", "gaveUp", "told"}]
  /\ VersionCounter \in [Readers -> 0 .. MaxUpdates]
  /\ RetryCount \in [Readers -> 0 .. Retries]
  /\ left \in [Readers -> SUBSET AllFields]
  /\ Reference \in [Readers -> [AllFields -> Nat]]
  /\ CurrentLatch \in [Readers -> Nat]
  /\ published \in [Readers -> [AllFields -> Nat]]
  /\ asked \in [Readers -> 0 .. MaxUpdates]

Active(r) == rpc[r] # "idle"
Tag(version) == IF version = 0 THEN NoVersion ELSE version

\* The buffer a reader copies from is still the version it started with.
Intact(r) == StateVersion[Mask(VersionCounter[r])] = Tag(VersionCounter[r])

Copied(r) == (IF rpc[r] \in {"info", "told"} THEN Fields ELSE AllFields) \ left[r]

BuffersInv ==
  /\ StateVersion[Mask(LastVersionCounter)] = Tag(LastVersionCounter)
  /\ wpc = "idle" => todo = {}
  /\ wpc # "idle" =>
       LastVersionCounter < MaxUpdates /\ StateVersion[Mask(Next1)] = Next1
  /\ \A i \in 0 .. Depth - 1 : StateVersion[i] # NoVersion =>
       /\ Mask(StateVersion[i]) = i
       /\ StateVersion[i] <= IF wpc = "idle" THEN LastVersionCounter ELSE Next1
  /\ \A i \in 0 .. Depth - 1 : ReferenceState[i][Latch] <= clock

\* What a reader has copied is right as long as the buffer was not taken again.
CopyInv(r) ==
  /\ VersionCounter[r] <= LastVersionCounter
  /\ StateVersion[Mask(VersionCounter[r])] >= Tag(VersionCounter[r])
  /\ Active(r) /\ Intact(r) => ReferenceState[Mask(VersionCounter[r])] = published[r]
  /\ rpc[r] \in {"copy", "info", "gaveUp", "told"} /\ Intact(r) =>
       \A f \in Copied(r) : Reference[r][f] = published[r][f]
  /\ rpc[r] = "accepted" => Reference[r] = published[r]
  /\ rpc[r] \in {"accepted", "gaveUp", "told"} => left[r] = {}
  /\ Active(r) => published[r][Latch] <= clock
  /\ rpc[r] \in {"copy", "accepted"} => published[r][Latch] <= CurrentLatch[r]

\* Every attempt that failed was overtaken by three updates at least.
Overtaken(r) == (Retries - RetryCount[r]) * (Depth - 1)
RetryInv(r) ==
  asked[r] # 0 =>
    /\ asked[r] <= VersionCounter[r]
    /\ rpc[r] \in {"latch", "copy"} => VersionCounter[r] >= asked[r] + Overtaken(r)
    /\ rpc[r] = "retry" => LastVersionCounter >= asked[r] + Overtaken(r)
    /\ rpc[r] = "gaveUp" =>
         LastVersionCounter >= asked[r] + (Retries + 1) * (Depth - 1)

\* The inductive invariant: a buffer that still holds the version a reader
\* started with has not been written since, because the version is written
\* first; and the writer needs three more updates to come back to a buffer.
ReferenceInv ==
  TypeOK /\ BuffersInv /\ \A r \in Readers : CopyInv(r) /\ RetryInv(r)

\* The time since the tone is never computed from a tone later than the
\* reading: CFE_TIME_GetReference takes an earlier clock than the latch at
\* the tone for a clock that has rolled over.
NoFalseRollover ==
  \A r \in Readers : rpc[r] = "accepted" => CurrentLatch[r] >= Reference[r][Latch]

\* A reading is given up only when the writer has gone round the buffers in
\* every one of its attempts.  While the reference is first written, and no
\* buffer holds a version, a reader may give up although nothing overtook it.
GivesUpWhenOverrun ==
  \A r \in Readers : rpc[r] = "gaveUp" =>
    \/ asked[r] = 0
    \/ LastVersionCounter >= asked[r] + (Retries + 1) * (Depth - 1)

\* Four buffers let the unchecked CFE_TIME_GetClockInfo, or a reading that
\* was given up, be right as long as fewer than three updates end meanwhile.
DepthSuffices ==
  \A r \in Readers : Done(r) /\ LastVersionCounter < VersionCounter[r] + Depth - 1 =>
    /\ \A f \in Fields : Reference[r][f] = published[r][f]
    /\ rpc[r] # "told" => Reference[r][Latch] = published[r][Latch]

Atomic == INSTANCE AtomicReference WITH
  Fields <- AllFields,
  reference <- ReferenceState[Mask(LastVersionCounter)],
  status <- [r \in Readers |->
               IF rpc[r] = "idle" THEN "idle"
               ELSE IF rpc[r] = "accepted" THEN "answered"
               ELSE IF Done(r) THEN "noPromise" ELSE "reading"],
  picked <- published,
  answer <- [r \in Readers |-> IF Done(r) THEN Reference[r] ELSE Blank]

\* A reading that is accepted returns the whole reference as it was at one
\* moment of the reading, whatever the writer did meanwhile, with no lock.
ImplementsAtomicReference == Atomic!Spec

=============================================================================
