------------------------- MODULE TimeReferenceProofs -------------------------
(***************************************************************************)
(* Proofs about the time reference, for any number of readers, fields,     *)
(* retries and updates: ReferenceInv is inductive, what it implies, and    *)
(* that the buffers implement a register read and written in one piece.    *)
(***************************************************************************)
EXTENDS TimeReference, TLAPS

\* Four consecutive versions have four buffers.
LEMMA MaskRange == \A v \in Nat : Mask(v) \in 0 .. Depth - 1
  BY DEF Mask, Depth

\* The buffer being written is not the published one.
LEMMA MaskNext == \A v \in Nat : Mask(v + 1) # Mask(v)
  BY DEF Mask, Depth

\* Two versions in the same buffer are Depth apart.
LEMMA MaskGap ==
  ASSUME NEW v \in Nat, NEW w \in Nat, Mask(v) = Mask(w), v < w
  PROVE  v + Depth <= w
  BY DEF Mask, Depth

\* The initial state satisfies the invariant.
LEMMA InitInv == Init => ReferenceInv
<1> SUFFICES ASSUME Init PROVE ReferenceInv
  OBVIOUS
<1>1. TypeOK
  BY UpdatesAssumption, RetriesAssumption DEF Init, TypeOK, Blank, Depth, NoVersion, AllFields
<1>2. BuffersInv
  BY DEF Init, BuffersInv, Blank, Depth, NoVersion, Mask, Tag, AllFields
<1>3. ASSUME NEW r \in Readers PROVE CopyInv(r) /\ RetryInv(r)
  BY DEF Init, CopyInv, RetryInv, Active, Intact, Copied, Tag, Mask, NoVersion, Depth, Blank
<1> QED
  BY <1>1, <1>2, <1>3 DEF ReferenceInv

\* A step of a reader leaves the buffers alone, and conversely.
LEMMA TypeNext == ReferenceInv /\ [Next]_vars => TypeOK'
<1> SUFFICES ASSUME ReferenceInv, [Next]_vars PROVE TypeOK'
  OBVIOUS
<1> USE DEF ReferenceInv, TypeOK
<1>0. Next1 \in Nat /\ Mask(Next1) \in 0 .. Depth - 1
      /\ Mask(LastVersionCounter) \in 0 .. Depth - 1
  BY MaskRange DEF Next1
<1>1. CASE StartReferenceUpdate
  BY UpdatesAssumption, RetriesAssumption, <1>0, <1>1 DEF StartReferenceUpdate, readerVars, Next1
<1>2. ASSUME NEW f \in AllFields, CopyField(f) PROVE TypeOK'
  <2>1. ReferenceState' \in [0 .. Depth - 1 -> [AllFields -> Nat]]
    BY <1>0, <1>2 DEF CopyField
  <2> QED
    BY <1>2, <2>1 DEF CopyField, readerVars
<1>3. CASE ChangeFields
  BY <1>3, ChangesAssumption DEF ChangeFields, readerVars, AllFields
<1>4. ASSUME NEW f \in AllFields, SetField(f) PROVE TypeOK'
  <2>1. clock' \in Nat
    BY <1>4 DEF SetField
  <2>2. ReferenceState' \in [0 .. Depth - 1 -> [AllFields -> Nat]]
    BY <1>0, <1>4, <2>1 DEF SetField
  <2> QED
    BY <1>4, <2>1, <2>2 DEF SetField, readerVars
<1>5. CASE FinishReferenceUpdate
  BY UpdatesAssumption, RetriesAssumption, <1>0, <1>5 DEF FinishReferenceUpdate, readerVars, BuffersInv, Next1
<1>6. ASSUME NEW r \in Readers, GetReference(r) PROVE TypeOK'
  <2>1. /\ VersionCounter' \in [Readers -> 0 .. MaxUpdates]
        /\ asked' \in [Readers -> 0 .. MaxUpdates]
    BY <1>6 DEF GetReference, TakeVersion
  <2>2. published' \in [Readers -> [AllFields -> Nat]]
    BY <1>0, <1>6 DEF GetReference, TakeVersion
  <2>3. RetryCount' \in [Readers -> 0 .. Retries]
    BY RetriesAssumption, <1>6 DEF GetReference
  <2>4. rpc' \in [Readers -> {"idle", "retry", "latch", "copy", "info", "accepted", "gaveUp",
                              "told"}]
    BY <1>6 DEF GetReference
  <2> QED
    BY <1>6, <2>1, <2>2, <2>3, <2>4 DEF GetReference, writerVars
<1>7. ASSUME NEW r \in Readers, LatchClock(r) PROVE TypeOK'
  BY <1>7 DEF LatchClock, writerVars
<1>8. ASSUME NEW r \in Readers, NEW f \in AllFields, ReadField(r, f) PROVE TypeOK'
  <2>1. Mask(VersionCounter[r]) \in 0 .. Depth - 1
    BY MaskRange
  <2>2. Reference' \in [Readers -> [AllFields -> Nat]]
    BY <1>8, <2>1 DEF ReadField
  <2> QED
    BY <1>8, <2>2 DEF ReadField, writerVars
<1>9. ASSUME NEW r \in Readers, CheckVersion(r) PROVE TypeOK'
  <2>a. RetryCount[r] \in 0 .. Retries /\ Retries \in Nat
    BY RetriesAssumption
  <2>b. RetryCount[r] # 0 => RetryCount[r] - 1 \in 0 .. Retries
    BY <2>a
  <2>1. RetryCount' \in [Readers -> 0 .. Retries]
    BY <1>9, <2>b DEF CheckVersion
  <2>2. rpc' \in [Readers -> {"idle", "retry", "latch", "copy", "info", "accepted", "gaveUp", "told"}]
    BY <1>9 DEF CheckVersion
  <2> QED
    BY <1>9, <2>1, <2>2 DEF CheckVersion, writerVars
<1>10. ASSUME NEW r \in Readers, GetClockInfo(r) PROVE TypeOK'
  BY <1>0, <1>10 DEF GetClockInfo, TakeVersion, writerVars, AllFields
<1>11. ASSUME NEW r \in Readers, GotClockInfo(r) PROVE TypeOK'
  BY <1>11 DEF GotClockInfo, writerVars
<1>12. ASSUME NEW r \in Readers, Return(r) PROVE TypeOK'
  BY UpdatesAssumption, RetriesAssumption, <1>12 DEF Return, writerVars, Blank
<1>13. CASE UNCHANGED vars
  BY <1>13 DEF vars
<1> QED
  BY <1>1, <1>2, <1>3, <1>4, <1>5, <1>6, <1>7, <1>8, <1>9, <1>10, <1>11, <1>12, <1>13 DEF Next

\* The writer's steps keep the buffers in order; readers do not touch them.
LEMMA BuffersNext == ReferenceInv /\ [Next]_vars => BuffersInv'
<1> SUFFICES ASSUME ReferenceInv, [Next]_vars PROVE BuffersInv'
  OBVIOUS
<1>0. TypeOK /\ BuffersInv /\ TypeOK'
  BY TypeNext DEF ReferenceInv
<1>a. /\ LastVersionCounter \in Nat /\ Next1 = LastVersionCounter + 1
      /\ Mask(Next1) \in 0 .. Depth - 1 /\ Mask(LastVersionCounter) \in 0 .. Depth - 1
      /\ Mask(Next1) # Mask(LastVersionCounter)
  <2>1. LastVersionCounter \in Nat
    BY <1>0, UpdatesAssumption DEF TypeOK
  <2> QED
    BY <2>1, MaskRange, MaskNext DEF Next1
<1> USE <1>0, <1>a
<1>1. CASE StartReferenceUpdate
  <2>1. /\ StateVersion'[Mask(Next1)] = Next1
        /\ \A i \in 0 .. Depth - 1 : i # Mask(Next1) => StateVersion'[i] = StateVersion[i]
    BY <1>1 DEF StartReferenceUpdate, TypeOK
  <2>2. UNCHANGED <<LastVersionCounter, ReferenceState, clock>> /\ Next1' = Next1
        /\ LastVersionCounter < MaxUpdates /\ wpc = "idle" /\ wpc' = "copy"
    BY <1>1 DEF StartReferenceUpdate, Next1
  <2>3. StateVersion[Mask(LastVersionCounter)] = Tag(LastVersionCounter)
        /\ \A i \in 0 .. Depth - 1 : StateVersion[i] # NoVersion =>
             Mask(StateVersion[i]) = i /\ StateVersion[i] <= LastVersionCounter
    BY <2>2 DEF BuffersInv
  <2>4. \A i \in 0 .. Depth - 1 : StateVersion'[i] # NoVersion =>
          Mask(StateVersion'[i]) = i /\ StateVersion'[i] <= Next1
    <3> SUFFICES ASSUME NEW i \in 0 .. Depth - 1, StateVersion'[i] # NoVersion
                 PROVE  Mask(StateVersion'[i]) = i /\ StateVersion'[i] <= Next1
      OBVIOUS
    <3>1. CASE i = Mask(Next1)
      BY <2>1, <3>1
    <3>2. CASE i # Mask(Next1)
      <4>1. StateVersion'[i] = StateVersion[i]
        BY <2>1, <3>2
      <4>2. StateVersion[i] \in 1 .. MaxUpdates \cup {NoVersion}
        BY DEF TypeOK
      <4>3. StateVersion[i] <= LastVersionCounter /\ Mask(StateVersion[i]) = i
            /\ StateVersion[i] # NoVersion
        BY <2>3, <4>1
      <4> QED
        BY <4>1, <4>2, <4>3, UpdatesAssumption
    <3> QED
      BY <3>1, <3>2
  <2>5. StateVersion'[Mask(LastVersionCounter)] = Tag(LastVersionCounter)
    BY <2>1, <2>3
  <2>6. \A i \in 0 .. Depth - 1 : ReferenceState[i][Latch] <= clock
    BY DEF BuffersInv
  <2> QED
    BY <2>1, <2>2, <2>4, <2>5, <2>6 DEF BuffersInv
<1>2. ASSUME NEW f \in AllFields, CopyField(f) PROVE BuffersInv'
  <2>1. UNCHANGED <<LastVersionCounter, StateVersion, clock, wpc>> /\ Next1' = Next1 /\ wpc = "copy"
    BY <1>2 DEF CopyField, Next1
  <2>2. \A i \in 0 .. Depth - 1 : ReferenceState'[i][Latch] <= clock
    BY <1>2 DEF CopyField, BuffersInv, TypeOK, AllFields
  <2> QED
    BY <2>1, <2>2 DEF BuffersInv
<1>3. CASE ChangeFields
  BY <1>3 DEF ChangeFields, BuffersInv, Next1
<1>4. ASSUME NEW f \in AllFields, SetField(f) PROVE BuffersInv'
  <2>1. UNCHANGED <<LastVersionCounter, StateVersion, wpc>> /\ Next1' = Next1 /\ wpc = "set"
    BY <1>4 DEF SetField, Next1
  <2>2. clock \in Nat /\ clock' \in Nat /\ clock <= clock'
    BY <1>4 DEF SetField, TypeOK
  <2>3. \A i \in 0 .. Depth - 1 : ReferenceState[i][Latch] \in Nat /\ ReferenceState[i][Latch] <= clock
    BY DEF BuffersInv, TypeOK, AllFields
  <2>4. \A i \in 0 .. Depth - 1 : ReferenceState'[i][Latch] <= clock'
    <3>1. CASE f = Latch
      BY <1>4, <2>2, <2>3, <3>1 DEF SetField, TypeOK, AllFields
    <3>2. CASE f # Latch
      BY <1>4, <2>2, <2>3, <3>2 DEF SetField, TypeOK, AllFields
    <3> QED
      BY <3>1, <3>2
  <2> QED
    BY <2>1, <2>4 DEF BuffersInv
<1>5. CASE FinishReferenceUpdate
  <2>1. LastVersionCounter' = Next1 /\ wpc' = "idle" /\ todo' = {}
    BY <1>5 DEF FinishReferenceUpdate, BuffersInv
  <2>2. UNCHANGED <<StateVersion, ReferenceState, clock>> /\ wpc # "idle"
    BY <1>5 DEF FinishReferenceUpdate
  <2> QED
    BY <2>1, <2>2 DEF BuffersInv, Tag
<1>6. CASE UNCHANGED writerVars
  BY <1>6 DEF writerVars, BuffersInv, Next1
<1>7. ASSUME NEW r \in Readers, NEW f \in AllFields,
             \/ GetReference(r) \/ LatchClock(r) \/ CheckVersion(r)
             \/ GetClockInfo(r) \/ GotClockInfo(r) \/ Return(r) \/ ReadField(r, f)
      PROVE  UNCHANGED writerVars
  BY <1>7 DEF GetReference, LatchClock, CheckVersion, GetClockInfo, GotClockInfo, Return, ReadField
<1>8. CASE UNCHANGED vars
  BY <1>6, <1>8 DEF vars, writerVars
<1>9. Latch \in AllFields
  BY DEF AllFields
<1> QED
  BY <1>1, <1>2, <1>3, <1>4, <1>5, <1>6, <1>7, <1>8, <1>9 DEF Next

-----------------------------------------------------------------------------
(* The readers. *)

OthersStep(r) ==
  /\ UNCHANGED writerVars
  /\ rpc'[r] = rpc[r] /\ VersionCounter'[r] = VersionCounter[r]
  /\ RetryCount'[r] = RetryCount[r] /\ left'[r] = left[r]
  /\ Reference'[r] = Reference[r] /\ CurrentLatch'[r] = CurrentLatch[r]
  /\ published'[r] = published[r] /\ asked'[r] = asked[r]

ReaderStep(r) ==
  \/ GetReference(r) \/ LatchClock(r) \/ CheckVersion(r)
  \/ GetClockInfo(r) \/ GotClockInfo(r) \/ Return(r)
  \/ \E f \in AllFields : ReadField(r, f)

WriterStep ==
  \/ StartReferenceUpdate \/ ChangeFields \/ FinishReferenceUpdate
  \/ \E f \in AllFields : CopyField(f) \/ SetField(f)

\* A step is one of the writer, of this reader, or leaves this reader alone.
LEMMA StepCases ==
  ASSUME ReferenceInv, [Next]_vars, NEW r \in Readers
  PROVE  WriterStep \/ ReaderStep(r) \/ OthersStep(r)
<1>0. TypeOK
  BY DEF ReferenceInv
<1>1. ASSUME NEW q \in Readers, q # r, ReaderStep(q) PROVE OthersStep(r)
  BY <1>0, <1>1 DEF ReaderStep, OthersStep, TypeOK, GetReference, TakeVersion, LatchClock,
     CheckVersion, GetClockInfo, GotClockInfo, Return, ReadField
<1>2. CASE UNCHANGED vars
  BY <1>2 DEF vars, OthersStep, writerVars
<1> QED
  BY <1>1, <1>2 DEF Next, WriterStep, ReaderStep

\* What the writer does to a reader: it never touches the buffer of a reader
\* without having marked it first, and never takes a version back.
LEMMA WriterEffect ==
  ASSUME ReferenceInv, WriterStep, NEW r \in Readers
  PROVE  /\ UNCHANGED readerVars
         /\ LastVersionCounter <= LastVersionCounter' /\ clock <= clock'
         /\ StateVersion'[Mask(VersionCounter[r])] >= Tag(VersionCounter[r])
         /\ Intact(r)' => /\ Intact(r)
                          /\ ReferenceState'[Mask(VersionCounter[r])]
                               = ReferenceState[Mask(VersionCounter[r])]
<1>0. TypeOK /\ BuffersInv /\ CopyInv(r)
  BY DEF ReferenceInv
<1> DEFINE v == VersionCounter[r]
<1>a. /\ LastVersionCounter \in Nat /\ clock \in Nat /\ v \in Nat
      /\ v <= LastVersionCounter /\ Tag(v) <= v /\ Tag(v) \in Int
      /\ Next1 = LastVersionCounter + 1 /\ Next1 \in Nat
      /\ Mask(v) \in 0 .. Depth - 1 /\ Mask(Next1) \in 0 .. Depth - 1
      /\ StateVersion[Mask(v)] \in Int /\ StateVersion[Mask(v)] >= Tag(v)
  <2>1. v \in Nat /\ LastVersionCounter \in Nat /\ clock \in Nat
    BY <1>0, UpdatesAssumption DEF TypeOK
  <2>2. Mask(v) \in 0 .. Depth - 1 /\ Mask(Next1) \in 0 .. Depth - 1
    BY <2>1, MaskRange DEF Next1
  <2>3. StateVersion[Mask(v)] \in Int
    BY <1>0, <2>2, UpdatesAssumption DEF TypeOK, NoVersion
  <2>4. Tag(v) <= v /\ Tag(v) \in Int
    BY <2>1 DEF Tag, NoVersion
  <2>5. v <= LastVersionCounter /\ StateVersion[Mask(v)] >= Tag(v)
    BY <1>0 DEF CopyInv
  <2> QED
    BY <2>1, <2>2, <2>3, <2>4, <2>5 DEF Next1
<1> USE <1>0, <1>a
<1> HIDE DEF v
<1>1. CASE StartReferenceUpdate
  <2>1. /\ UNCHANGED readerVars /\ UNCHANGED <<LastVersionCounter, ReferenceState, clock>>
        /\ StateVersion'[Mask(v)] = IF Mask(v) = Mask(Next1) THEN Next1 ELSE StateVersion[Mask(v)]
    BY <1>1 DEF StartReferenceUpdate, TypeOK
  <2>2. UNCHANGED VersionCounter
    BY <2>1 DEF readerVars
  <2> QED
    BY <2>1, <2>2 DEF Intact, v
<1>2. ASSUME NEW f \in AllFields, CopyField(f) \/ SetField(f)
      PROVE  /\ UNCHANGED readerVars
             /\ UNCHANGED <<LastVersionCounter, StateVersion>> /\ clock <= clock'
             /\ Intact(r) => ReferenceState'[Mask(v)] = ReferenceState[Mask(v)]
  <2>1. StateVersion[Mask(Next1)] = Next1
    BY <1>2 DEF CopyField, SetField, BuffersInv
  <2>2. Intact(r) => Mask(v) # Mask(Next1)
    BY <2>1 DEF Intact, v
  <2>3. \A i \in 0 .. Depth - 1 : i # Mask(Next1) => ReferenceState'[i] = ReferenceState[i]
    BY <1>2 DEF CopyField, SetField, TypeOK
  <2>4. clock <= clock'
    BY <1>2 DEF CopyField, SetField
  <2> QED
    BY <1>2, <2>2, <2>3, <2>4 DEF CopyField, SetField
<1>3. CASE \E f \in AllFields : CopyField(f) \/ SetField(f)
  BY <1>2, <1>3 DEF Intact, v, readerVars
<1>4. CASE ChangeFields
  BY <1>4 DEF ChangeFields, Intact, v, readerVars
<1>5. CASE FinishReferenceUpdate
  <2>1. LastVersionCounter' = Next1
    BY <1>5 DEF FinishReferenceUpdate, BuffersInv
  <2> QED
    BY <1>5, <2>1 DEF FinishReferenceUpdate, Intact, v, readerVars
<1> QED
  BY <1>1, <1>3, <1>4, <1>5 DEF WriterStep

\* A buffer that is no longer the version a reader started with is three
\* updates ahead of it.
LEMMA OverrunGap ==
  ASSUME ReferenceInv, NEW r \in Readers, ~Intact(r)
  PROVE  LastVersionCounter >= VersionCounter[r] + (Depth - 1)
<1> DEFINE v == VersionCounter[r]
           w == StateVersion[Mask(v)]
<1>0. TypeOK /\ BuffersInv /\ CopyInv(r)
  BY DEF ReferenceInv
<1>1. v \in Nat /\ LastVersionCounter \in Nat /\ Mask(v) \in 0 .. Depth - 1
  BY <1>0, MaskRange DEF TypeOK
<1>2. w # Tag(v) /\ w >= Tag(v) /\ w \in 1 .. MaxUpdates \cup {NoVersion}
  BY <1>0, <1>1 DEF Intact, CopyInv, TypeOK
<1>3. w # NoVersion /\ w \in Nat /\ w > v
  BY <1>1, <1>2 DEF Tag, NoVersion
<1>4. Mask(w) = Mask(v) /\ w <= LastVersionCounter + 1
  BY <1>0, <1>1, <1>3 DEF BuffersInv, Next1
<1>5. v + Depth <= w
  BY <1>1, <1>3, <1>4, MaskGap
<1> QED
  BY <1>1, <1>3, <1>4, <1>5 DEF Depth

\* What a reader has copied from an intact buffer is right.
LEMMA CopyNext ==
  ASSUME ReferenceInv, [Next]_vars, NEW r \in Readers
  PROVE  CopyInv(r)'
<1>0. TypeOK /\ BuffersInv /\ CopyInv(r) /\ TypeOK' /\ BuffersInv'
  BY TypeNext, BuffersNext DEF ReferenceInv
<1>1. CASE WriterStep
  <2>1. /\ UNCHANGED readerVars
        /\ LastVersionCounter <= LastVersionCounter' /\ clock <= clock'
        /\ StateVersion'[Mask(VersionCounter[r])] >= Tag(VersionCounter[r])
        /\ Intact(r)' => /\ Intact(r)
                         /\ ReferenceState'[Mask(VersionCounter[r])]
                              = ReferenceState[Mask(VersionCounter[r])]
    BY <1>1, WriterEffect
  <2>2. published[r][Latch] \in Nat /\ clock \in Nat /\ clock' \in Nat /\ VersionCounter[r] \in Nat
        /\ LastVersionCounter \in Nat /\ LastVersionCounter' \in Nat
    BY <1>0 DEF TypeOK, AllFields
  <2> QED
    BY <1>0, <2>1, <2>2 DEF CopyInv, Active, Copied, readerVars
<1>2. CASE OthersStep(r)
  BY <1>0, <1>2 DEF OthersStep, CopyInv, Active, Copied, Intact, writerVars
<1>3. ASSUME GetReference(r) \/ GetClockInfo(r) PROVE CopyInv(r)'
  <2>1. /\ VersionCounter'[r] = LastVersionCounter
        /\ published'[r] = ReferenceState[Mask(LastVersionCounter)]
        /\ UNCHANGED writerVars /\ UNCHANGED <<Reference, CurrentLatch>>
    BY <1>0, <1>3 DEF GetReference, GetClockInfo, TakeVersion, TypeOK
  <2>2. /\ LastVersionCounter \in Nat /\ Mask(LastVersionCounter) \in 0 .. Depth - 1
        /\ Tag(LastVersionCounter) \in Int
    <3>1. LastVersionCounter \in Nat
      BY <1>0, UpdatesAssumption DEF TypeOK
    <3> QED
      BY <3>1, MaskRange DEF Tag, NoVersion
  <2>3. \/ rpc'[r] = "latch"
        \/ rpc'[r] = "info" /\ left'[r] = Fields
    BY <1>0, <1>3 DEF GetReference, GetClockInfo, TypeOK
  <2>4. published'[r][Latch] <= clock
    BY <1>0, <2>1, <2>2 DEF BuffersInv
  <2> QED
    BY <1>0, <2>1, <2>2, <2>3, <2>4 DEF CopyInv, Active, Copied, Intact, BuffersInv, writerVars
<1>4. CASE LatchClock(r)
  <2>1. /\ UNCHANGED writerVars /\ UNCHANGED <<VersionCounter, Reference, published>>
        /\ rpc[r] = "latch" /\ rpc'[r] = "copy" /\ left'[r] = AllFields /\ CurrentLatch'[r] = clock
    BY <1>0, <1>4 DEF LatchClock, TypeOK
  <2> QED
    BY <1>0, <2>1 DEF CopyInv, Active, Copied, Intact, writerVars
<1>5. ASSUME NEW f \in AllFields, ReadField(r, f) PROVE CopyInv(r)'
  <2>1. /\ UNCHANGED writerVars /\ UNCHANGED <<rpc, VersionCounter, CurrentLatch, published>>
        /\ rpc[r] \in {"copy", "info"} /\ left'[r] = left[r] \ {f}
        /\ \A g \in AllFields : Reference'[r][g] =
             IF g = f THEN ReferenceState[Mask(VersionCounter[r])][f] ELSE Reference[r][g]
    BY <1>0, <1>5 DEF ReadField, TypeOK
  <2>2. Intact(r)' <=> Intact(r)
    BY <2>1 DEF Intact, writerVars
  <2>3. Intact(r) => ReferenceState[Mask(VersionCounter[r])] = published[r]
    BY <1>0, <2>1 DEF CopyInv, Active
  <2>4. Intact(r) => \A g \in Copied(r)' : Reference'[r][g] = published[r][g]
    BY <1>0, <2>1, <2>3 DEF CopyInv, Copied, AllFields
  <2> QED
    BY <1>0, <2>1, <2>2, <2>3, <2>4 DEF CopyInv, Active, writerVars
<1>6. CASE CheckVersion(r)
  <2>1. /\ UNCHANGED writerVars
        /\ UNCHANGED <<VersionCounter, left, Reference, CurrentLatch, published>>
        /\ rpc[r] = "copy" /\ left[r] = {}
        /\ \/ rpc'[r] = "accepted" /\ StateVersion[Mask(VersionCounter[r])] = VersionCounter[r]
           \/ rpc'[r] = "gaveUp"
           \/ rpc'[r] = "retry"
    BY <1>0, <1>6 DEF CheckVersion, TypeOK
  <2>2. Intact(r)' <=> Intact(r)
    BY <2>1 DEF Intact, writerVars
  <2>3. Intact(r) => \A f \in AllFields : Reference[r][f] = published[r][f]
    BY <1>0, <2>1 DEF CopyInv, Copied
  <2>4. rpc'[r] = "accepted" => Reference[r] = published[r]
    <3> SUFFICES ASSUME rpc'[r] = "accepted" PROVE Reference[r] = published[r]
      OBVIOUS
    <3>1. StateVersion[Mask(VersionCounter[r])] = VersionCounter[r]
      BY <2>1
    <3>2. StateVersion[Mask(VersionCounter[r])] \in 1 .. MaxUpdates \cup {NoVersion}
          /\ VersionCounter[r] \in Nat
      BY <1>0, MaskRange DEF TypeOK
    <3>3. Intact(r)
      BY <3>1, <3>2 DEF Intact, Tag, NoVersion
    <3>4. Reference[r] \in [AllFields -> Nat] /\ published[r] \in [AllFields -> Nat]
      BY <1>0 DEF TypeOK
    <3> QED
      BY <2>3, <3>3, <3>4
  <2>5. rpc'[r] \in {"accepted", "gaveUp", "retry"} /\ (Copied(r)' = AllFields)
    BY <2>1 DEF Copied
  <2> QED
    BY <1>0, <2>1, <2>2, <2>3, <2>4, <2>5 DEF CopyInv, Active, writerVars
<1>7. CASE GotClockInfo(r)
  <2>1. /\ UNCHANGED writerVars
        /\ UNCHANGED <<VersionCounter, left, Reference, CurrentLatch, published>>
        /\ rpc[r] = "info" /\ left[r] = {} /\ rpc'[r] = "told"
    BY <1>0, <1>7 DEF GotClockInfo, TypeOK
  <2> QED
    BY <1>0, <2>1 DEF CopyInv, Active, Copied, Intact, writerVars
<1>8. CASE Return(r)
  <2>1. UNCHANGED writerVars /\ rpc'[r] = "idle" /\ VersionCounter'[r] = 0
    BY <1>0, <1>8 DEF Return, TypeOK
  <2>2. StateVersion[Mask(0)] \in 1 .. MaxUpdates \cup {NoVersion} /\ LastVersionCounter \in Nat
    BY <1>0, MaskRange DEF TypeOK
  <2> QED
    BY <2>1, <2>2 DEF CopyInv, Active, Tag, NoVersion, writerVars
<1> QED
  BY <1>1, <1>2, <1>3, <1>4, <1>5, <1>6, <1>7, <1>8, StepCases DEF ReaderStep

\* Every attempt that fails costs the writer three updates.
LEMMA RetryNext ==
  ASSUME ReferenceInv, [Next]_vars, NEW r \in Readers
  PROVE  RetryInv(r)'
<1>0. TypeOK /\ BuffersInv /\ CopyInv(r) /\ RetryInv(r) /\ TypeOK'
  BY TypeNext DEF ReferenceInv
<1>a. /\ LastVersionCounter \in Nat /\ LastVersionCounter' \in Nat /\ Retries \in Nat
      /\ VersionCounter[r] \in Nat /\ asked[r] \in Nat /\ RetryCount[r] \in 0 .. Retries
      /\ VersionCounter'[r] \in Nat /\ asked'[r] \in Nat /\ RetryCount'[r] \in 0 .. Retries
  BY UpdatesAssumption, RetriesAssumption, <1>0 DEF TypeOK
<1> USE <1>0, <1>a
<1>1. CASE WriterStep
  <2>1. UNCHANGED readerVars /\ LastVersionCounter <= LastVersionCounter'
    BY <1>1, WriterEffect
  <2> QED
    BY <2>1 DEF RetryInv, Overtaken, readerVars, Depth
<1>2. CASE OthersStep(r)
  BY <1>2 DEF OthersStep, RetryInv, Overtaken, writerVars
<1>3. CASE GetReference(r)
  <2>1. /\ VersionCounter'[r] = LastVersionCounter /\ rpc'[r] = "latch" /\ UNCHANGED LastVersionCounter
        /\ \/ /\ rpc[r] = "idle" /\ RetryCount'[r] = Retries /\ asked'[r] = LastVersionCounter
           \/ /\ rpc[r] = "retry" /\ RetryCount'[r] = RetryCount[r] /\ asked'[r] = asked[r]
    BY <1>3 DEF GetReference, TakeVersion, TypeOK, writerVars
  <2> QED
    BY <2>1 DEF RetryInv, Overtaken, Depth
<1>4. CASE GetClockInfo(r)
  BY <1>4 DEF GetClockInfo, TakeVersion, TypeOK, RetryInv
<1>5. CASE LatchClock(r)
  BY <1>5 DEF LatchClock, TypeOK, RetryInv, Overtaken
<1>6. ASSUME NEW f \in AllFields, ReadField(r, f) PROVE RetryInv(r)'
  BY <1>6 DEF ReadField, RetryInv, Overtaken
<1>7. CASE CheckVersion(r)
  <2>1. /\ UNCHANGED <<LastVersionCounter, VersionCounter, asked>> /\ rpc[r] = "copy"
        /\ \/ rpc'[r] = "accepted" /\ RetryCount'[r] = RetryCount[r]
           \/ /\ StateVersion[Mask(VersionCounter[r])] # VersionCounter[r]
              /\ \/ rpc'[r] = "gaveUp" /\ RetryCount[r] = 0 /\ RetryCount'[r] = RetryCount[r]
                 \/ rpc'[r] = "retry" /\ RetryCount'[r] = RetryCount[r] - 1
    BY <1>7 DEF CheckVersion, TypeOK, writerVars
  <2>2. asked[r] # 0 /\ StateVersion[Mask(VersionCounter[r])] # VersionCounter[r] => ~Intact(r)
    BY DEF RetryInv, Intact, Tag
  <2>3. ~Intact(r) => LastVersionCounter >= VersionCounter[r] + (Depth - 1)
    BY OverrunGap
  <2> QED
    BY <2>1, <2>2, <2>3 DEF RetryInv, Overtaken, Depth
<1>8. CASE GotClockInfo(r)
  BY <1>8 DEF GotClockInfo, TypeOK, RetryInv
<1>9. CASE Return(r)
  BY <1>9 DEF Return, TypeOK, RetryInv
<1> QED
  BY <1>1, <1>2, <1>3, <1>4, <1>5, <1>6, <1>7, <1>8, <1>9, StepCases DEF ReaderStep

\* ReferenceInv is inductive, and holds of every behaviour.
THEOREM ReferenceInvHolds == Spec => []ReferenceInv
<1>1. ReferenceInv /\ [Next]_vars => ReferenceInv'
  <2> SUFFICES ASSUME ReferenceInv, [Next]_vars PROVE ReferenceInv'
    OBVIOUS
  <2>1. \A r \in Readers : CopyInv(r)' /\ RetryInv(r)'
    BY CopyNext, RetryNext
  <2> QED
    BY <2>1, TypeNext, BuffersNext DEF ReferenceInv
<1> QED
  BY <1>1, InitInv, PTL DEF Spec

\* An accepted reading never takes its tone for a later one, so that it never
\* mistakes the local clock for one that has rolled over.
THEOREM NoFalseRolloverHolds == Spec => []NoFalseRollover
<1>1. ReferenceInv => NoFalseRollover
  <2> SUFFICES ASSUME ReferenceInv, NEW r \in Readers, rpc[r] = "accepted"
               PROVE  CurrentLatch[r] >= Reference[r][Latch]
    BY DEF NoFalseRollover
  <2>1. CopyInv(r) /\ TypeOK
    BY DEF ReferenceInv
  <2>2. Reference[r] = published[r] /\ published[r][Latch] <= CurrentLatch[r]
    BY <2>1 DEF CopyInv
  <2>3. published[r][Latch] \in Nat /\ CurrentLatch[r] \in Nat
    BY <2>1 DEF TypeOK, AllFields
  <2> QED
    BY <2>2, <2>3
<1> QED
  BY <1>1, ReferenceInvHolds, PTL

\* A reading is given up only after the writer has made three updates in each
\* of its attempts, or while the reference is first written.
THEOREM GivesUpWhenOverrunHolds == Spec => []GivesUpWhenOverrun
<1>1. ReferenceInv => GivesUpWhenOverrun
  BY DEF ReferenceInv, RetryInv, GivesUpWhenOverrun
<1> QED
  BY <1>1, ReferenceInvHolds, PTL

\* What is returned unchecked is right while fewer than three updates end.
THEOREM DepthSufficesHolds == Spec => []DepthSuffices
<1>1. ReferenceInv => DepthSuffices
  <2> SUFFICES ASSUME ReferenceInv, NEW r \in Readers, Done(r),
                      LastVersionCounter < VersionCounter[r] + Depth - 1
               PROVE  /\ \A f \in Fields : Reference[r][f] = published[r][f]
                      /\ rpc[r] # "told" => Reference[r][Latch] = published[r][Latch]
    BY DEF DepthSuffices
  <2>1. CopyInv(r) /\ TypeOK
    BY DEF ReferenceInv
  <2>2. LastVersionCounter \in Int /\ VersionCounter[r] \in Int
    BY <2>1, UpdatesAssumption DEF TypeOK
  <2>3. Intact(r)
    BY <2>2, OverrunGap DEF Depth
  <2> QED
    BY <2>1, <2>3 DEF CopyInv, Copied, Done, AllFields
<1> QED
  BY <1>1, ReferenceInvHolds, PTL

-----------------------------------------------------------------------------
(* The refinement. *)

\* The published buffer is a record, and only the end of an update changes it.
LEMMA PublishedStable ==
  ASSUME ReferenceInv, [Next]_vars
  PROVE  /\ ReferenceState[Mask(LastVersionCounter)] \in [AllFields -> Nat]
         /\ ReferenceState'[Mask(LastVersionCounter')] \in [AllFields -> Nat]
         /\ ~FinishReferenceUpdate =>
              ReferenceState'[Mask(LastVersionCounter')] = ReferenceState[Mask(LastVersionCounter)]
<1>0. TypeOK /\ TypeOK'
  BY TypeNext DEF ReferenceInv
<1>1. /\ LastVersionCounter \in Nat /\ LastVersionCounter' \in Nat
      /\ Mask(LastVersionCounter) \in 0 .. Depth - 1 /\ Mask(LastVersionCounter') \in 0 .. Depth - 1
      /\ Mask(Next1) # Mask(LastVersionCounter)
  <2>1. LastVersionCounter \in Nat /\ LastVersionCounter' \in Nat
    BY <1>0, UpdatesAssumption DEF TypeOK
  <2> QED
    BY <2>1, MaskRange, MaskNext DEF Next1
<1>2. ASSUME NEW f \in AllFields, CopyField(f) \/ SetField(f)
      PROVE  /\ UNCHANGED LastVersionCounter
             /\ ReferenceState'[Mask(LastVersionCounter)] = ReferenceState[Mask(LastVersionCounter)]
  BY <1>0, <1>1, <1>2 DEF CopyField, SetField, TypeOK
<1>3. CASE WriterStep
  BY <1>0, <1>1, <1>2, <1>3 DEF WriterStep, StartReferenceUpdate, ChangeFields, TypeOK
<1>4. CASE UNCHANGED writerVars
  BY <1>0, <1>1, <1>4 DEF writerVars, TypeOK
<1>5. ASSUME NEW r \in Readers, ReaderStep(r) PROVE UNCHANGED writerVars
  BY <1>5 DEF ReaderStep, GetReference, LatchClock, CheckVersion, GetClockInfo, GotClockInfo, Return,
     ReadField
<1> QED
  BY <1>3, <1>4, <1>5 DEF Next, WriterStep, ReaderStep, vars, writerVars

\* A reading that is accepted reads the whole reference at one moment.
THEOREM ImplementsAtomicReferenceHolds == Spec => ImplementsAtomicReference
<1> USE DEF Done
<1>1. Init => Atomic!Init
  <2> SUFFICES ASSUME Init PROVE Atomic!Init
    OBVIOUS
  <2>1. ReferenceState[Mask(LastVersionCounter)] = Blank
    BY DEF Init, Mask, Depth
  <2> QED
    BY <2>1 DEF Init, Atomic!Init, Atomic!Blank, Blank
<1>2. ASSUME ReferenceInv, [Next]_vars PROVE [Atomic!Next]_(Atomic!vars)
  <2>0. TypeOK /\ TypeOK'
    BY <1>2, TypeNext DEF ReferenceInv
  <2>1. ASSUME WriterStep PROVE [Atomic!Next]_(Atomic!vars)
    <3>1. UNCHANGED readerVars
      BY <2>1 DEF WriterStep, StartReferenceUpdate, ChangeFields, FinishReferenceUpdate, CopyField, SetField
    <3>2. Atomic!Write \/ UNCHANGED ReferenceState[Mask(LastVersionCounter)]
      BY <1>2, <3>1, PublishedStable DEF Atomic!Write, Atomic!Records, readerVars
    <3> QED
      BY <3>1, <3>2 DEF Atomic!Next, Atomic!vars, readerVars
  <2>2. ASSUME NEW r \in Readers, ReaderStep(r) PROVE [Atomic!Next]_(Atomic!vars)
    <3>1. UNCHANGED ReferenceState[Mask(LastVersionCounter)]
      BY <2>2 DEF ReaderStep, GetReference, LatchClock, CheckVersion, GetClockInfo, GotClockInfo, Return,
         ReadField, writerVars
    <3>2. CASE GetReference(r) \/ GetClockInfo(r)
      <4>2. /\ rpc[r] \in {"idle", "retry"}
            /\ \/ rpc' = [rpc EXCEPT ![r] = "latch"]
               \/ rpc' = [rpc EXCEPT ![r] = "info"]
            /\ published' = [published EXCEPT ![r] = ReferenceState[Mask(LastVersionCounter)]]
            /\ UNCHANGED Reference
        BY <3>2 DEF GetReference, GetClockInfo, TakeVersion
      <4>3. Done(r) = FALSE /\ Done(r)' = FALSE
            /\ \A q \in Readers : q # r => rpc'[q] = rpc[q] /\ (Done(q)' <=> Done(q))
        <5>1. rpc[r] \in {"idle", "retry"} /\ rpc'[r] \in {"latch", "info"}
          BY <2>0, <4>2 DEF TypeOK
        <5>2. \A q \in Readers : q # r => rpc'[q] = rpc[q]
          BY <2>0, <4>2 DEF TypeOK
        <5> QED
          BY <5>1, <5>2
      <4>4. rpc'[r] \in {"latch", "info"}
        BY <2>0, <4>2 DEF TypeOK
      <4>5. \A q \in Readers : Reference'[q] = Reference[q]
        BY <4>2
      <4>1. Atomic!Look(r)
        BY <3>1, <4>2, <4>3, <4>4, <4>5 DEF Atomic!Look
      <4> QED
        BY <4>1 DEF Atomic!Next
    <3>3. CASE LatchClock(r)
      BY <2>0, <3>1, <3>3 DEF LatchClock, TypeOK, Atomic!vars
    <3>4. ASSUME NEW f \in AllFields, ReadField(r, f) PROVE UNCHANGED Atomic!vars
      BY <2>0, <3>1, <3>4 DEF ReadField, TypeOK, Atomic!vars
    <3>5. CASE CheckVersion(r)
      <4>1. CopyInv(r)'
        BY <1>2, CopyNext
      <4>2. CASE rpc'[r] = "accepted"
        <5>2. /\ rpc[r] = "copy" /\ rpc' = [rpc EXCEPT ![r] = "accepted"]
              /\ UNCHANGED <<Reference, published>>
          BY <2>0, <3>5, <4>2 DEF CheckVersion, TypeOK
        <5>3. Reference[r] = published[r]
          BY <4>1, <4>2, <5>2 DEF CopyInv
        <5>1. Atomic!Answer(r)
          BY <2>0, <3>1, <5>2, <5>3 DEF TypeOK, Atomic!Answer
        <5> QED
          BY <5>1 DEF Atomic!Next
      <4>3. CASE rpc'[r] = "gaveUp"
        <5>2. /\ rpc[r] = "copy" /\ rpc' = [rpc EXCEPT ![r] = "gaveUp"]
              /\ UNCHANGED <<Reference, published>>
          BY <2>0, <3>5, <4>3 DEF CheckVersion, TypeOK
        <5>3. Reference'[r] \in Atomic!Records
          BY <2>0 DEF TypeOK, Atomic!Records
        <5>1. Atomic!NoPromise(r)
          BY <2>0, <3>1, <5>2, <5>3 DEF TypeOK, Atomic!NoPromise
        <5> QED
          BY <5>1 DEF Atomic!Next
      <4>4. CASE rpc'[r] = "retry"
        BY <2>0, <3>1, <3>5, <4>4 DEF CheckVersion, TypeOK, Atomic!vars
      <4> QED
        BY <2>0, <3>5, <4>2, <4>3, <4>4 DEF CheckVersion, TypeOK
    <3>6. CASE GotClockInfo(r)
      <4>1. Atomic!NoPromise(r)
        BY <2>0, <3>1, <3>6 DEF GotClockInfo, TypeOK, Atomic!NoPromise, Atomic!Records
      <4> QED
        BY <4>1 DEF Atomic!Next
    <3>7. CASE Return(r)
      <4>1. Atomic!Return(r)
        BY <2>0, <3>1, <3>7 DEF Return, TypeOK, Atomic!Return, Atomic!Blank, Blank
      <4> QED
        BY <4>1 DEF Atomic!Next
    <3> QED
      BY <2>2, <3>2, <3>3, <3>4, <3>5, <3>6, <3>7 DEF ReaderStep
  <2>3. CASE UNCHANGED vars
    BY <2>3 DEF vars, Atomic!vars
  <2> QED
    BY <1>2, <2>1, <2>2, <2>3 DEF Next, WriterStep, ReaderStep
<1> QED
  BY <1>1, <1>2, ReferenceInvHolds, PTL DEF Spec, ImplementsAtomicReference, Atomic!Spec

=============================================================================
