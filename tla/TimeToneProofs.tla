--------------------------- MODULE TimeToneProofs ---------------------------
(***************************************************************************)
(* Proofs that a commanded flywheel is kept, that the server reports its   *)
(* own state, that the count of tones stays near the reference, and that   *)
(* no update moves the MET by much, for every window, every limit and      *)
(* every lateness.                                                         *)
(***************************************************************************)
EXTENDS TimeTone, TLAPS

\* The bus keeps a message of the Time task or drops it.
LEMMA SentType ==
  ASSUME NEW p \in Seq(Messages), NEW m \in Messages
  PROVE  Sent(p, m) \in Seq(Messages)
  BY DEF Sent

\* The current MET is a number of whole seconds and a rest.
LEMMA SecondsType == \A t \in Int : SecondsOf(t) \in Int
  BY SecondAssumption DEF SecondsOf

\* The invariant holds initially and is kept by every step.
LEMMA FlywheelInit == Init => FlywheelInv
<1>1. LongAgo \in Int
  BY SecondAssumption DEF LongAgo
<1> QED
  <2> SUFFICES ASSUME Init PROVE FlywheelInv
    OBVIOUS
  <2>1. pipe \in Seq(Messages)
    BY DEF Init
  <2>2. ref = [met |-> 0, latch |-> 0, fly |-> TRUE] /\ ServerFlyState = TRUE /\ Forced2Fly = FALSE
    BY DEF Init
  <2>3. ref \in [met : Int, latch : Int, fly : BOOLEAN] /\ (ServerFlyState <=> ref.fly)
    BY <2>2
  <2>4. TypeOK
    BY <1>1, <2>1, <2>3 DEF Init, TypeOK
  <2> QED
    BY <2>2, <2>3, <2>4 DEF FlywheelInv

LEMMA FlywheelNext == FlywheelInv /\ [Next]_vars => FlywheelInv'
<1> SUFFICES ASSUME FlywheelInv, [Next]_vars PROVE FlywheelInv'
  OBVIOUS
<1>0. TypeOK /\ pipe \in Seq(Messages)
  BY DEF FlywheelInv, TypeOK
<1> USE DEF FlywheelInv, TypeOK
<1>1. CASE Tick
  BY <1>1 DEF Tick, toneVars
<1>2. CASE ChildTask
  <2>a. [id |-> "1HZ", met |-> 0] \in Messages /\ [id |-> "SEND", met |-> 0] \in Messages
    BY DEF Messages
  <2>b. /\ Sent(pipe, [id |-> "1HZ", met |-> 0]) \in Seq(Messages)
        /\ Sent(pipe, [id |-> "SEND", met |-> 0]) \in Seq(Messages)
    BY <1>0, <2>a, SentType
  <2>1. pipe' \in Seq(Messages)
    BY <1>0, <1>2, <2>b DEF ChildTask, Local1HzTask, Tone1HzTask
  <2> QED
    BY <1>2, <2>1 DEF ChildTask, Local1HzTask, Tone1HzTask, toneVars
<1>3. CASE OneHzCmd
  <2>1. pipe' \in Seq(Messages) /\ timeTask' = "isr" /\ late' = 0
    BY <1>0, <1>3 DEF OneHzCmd, Receive
  <2>2. TimeSinceTone \in Int /\ CurrentMET \in Int
    BY DEF TimeSinceTone, CurrentMET
  <2>3. ref' \in [met : Int, latch : Int, fly : BOOLEAN]
        /\ (ref.fly => ref'.fly) /\ (ServerFlyState' <=> ref'.fly)
    BY <1>3, <2>2 DEF OneHzCmd, Local1HzStateMachine
  <2>4. UNCHANGED <<now, localSem, toneSem, localTask, toneTask, VirtualMET, ToneSignalLatch,
                    IsToneGood, Prev, ToneDataLatch, Forced2Fly, commands, commanded>>
    BY <1>3 DEF OneHzCmd, taskVars, toneVars
  <2>5. ServerFlyState' \in BOOLEAN
    BY <1>3 DEF OneHzCmd, Local1HzStateMachine
  <2> QED
    BY <2>1, <2>3, <2>4, <2>5
<1>4. CASE Tone1HzISR
  <2>1. GoodTone \in BOOLEAN
    BY DEF GoodTone
  <2>2. /\ IsToneGood' \in BOOLEAN /\ VirtualMET' \in Int /\ toneSem' \in BOOLEAN
        /\ ToneSignalLatch' \in Int /\ timeTask' = "pipe"
    BY <1>4, <2>1 DEF Tone1HzISR
  <2>3. UNCHANGED <<now, localSem, localTask, toneTask, pipe, ref, Prev, ToneDataLatch,
                    Forced2Fly, ServerFlyState, commands, commanded, late>>
    BY <1>4 DEF Tone1HzISR
  <2> QED
    BY <2>2, <2>3
<1>5. CASE ToneSendCmd
  <2>1. (IF ref.fly THEN SecondsOf(CurrentMET) ELSE VirtualMET) \in Int
    BY SecondsType DEF CurrentMET, TimeSinceTone
  <2>a. [id |-> "DATA", met |-> IF ref.fly THEN SecondsOf(CurrentMET) ELSE VirtualMET] \in Messages
    BY <2>1 DEF Messages
  <2>b. Tail(pipe) \in Seq(Messages)
    BY <1>0, <1>5 DEF ToneSendCmd, Receive
  <2>2. pipe' \in Seq(Messages)
    BY <1>5, <2>a, <2>b, SentType DEF ToneSendCmd
  <2> QED
    BY <1>5, <2>2 DEF ToneSendCmd, taskVars, toneVars
<1>6. CASE ToneDataCmd
  <2>1. pipe' \in Seq(Messages)
    BY <1>0, <1>6 DEF ToneDataCmd, Receive
  <2> QED
    BY <1>6, <2>1 DEF ToneDataCmd, taskVars, toneVars
<1>7. CASE ToneVerify
  <2>1. Prev' \in [tone : Int, data : Int] /\ timeTask' = "pipe"
    BY <1>7 DEF ToneVerify
  <2>2. UNCHANGED <<now, localSem, toneSem, localTask, toneTask, pipe, ToneSignalLatch,
                    ToneDataLatch, IsToneGood, Forced2Fly, commands, late>>
    BY <1>7 DEF ToneVerify, taskVars
  <2>3. CASE Matches /\ ~Forced2Fly /\ ToneUpdate
    <3>1. VirtualMET' \in Int
      BY <2>3, SecondsType DEF ToneUpdate, CurrentMET, TimeSinceTone
    <3>2. VirtualMET' * Second \in Int
      BY <3>1, SecondAssumption
    <3>3. ref' = [met |-> VirtualMET' * Second, latch |-> ToneSignalLatch, fly |-> FALSE]
          /\ ServerFlyState' = (ServerFlyState /\ ~ref.fly) /\ commanded' = FALSE
      BY <2>3 DEF ToneUpdate
    <3>4. ref' \in [met : Int, latch : Int, fly : BOOLEAN] /\ ~ref'.fly
          /\ ServerFlyState' = FALSE /\ commanded' = FALSE
      BY <3>2, <3>3
    <3>5. ~Forced2Fly'
      BY <2>2, <2>3
    <3> QED
      BY <2>1, <2>2, <3>1, <3>4, <3>5
  <2>4. CASE UNCHANGED <<VirtualMET, ref, ServerFlyState, commanded>>
    BY <2>1, <2>2, <2>4
  <2> QED
    BY <1>7, <2>3, <2>4 DEF ToneVerify
<1>8. ASSUME NEW new \in NewMETs, SetMET(new) PROVE FlywheelInv'
  <2>1. SecondsOf(new) \in Int /\ new \in Int
    BY CommandsAssumption, SecondsType
  <2>a. ref' = [ref EXCEPT !.met = new, !.latch = now] /\ now \in Int
    BY <1>8 DEF SetMET
  <2>2. ref' \in [met : Int, latch : Int, fly : BOOLEAN] /\ (ref'.fly <=> ref.fly)
    BY <2>1, <2>a
  <2>3. commands' \in Nat /\ VirtualMET' \in Int /\ commanded' \in BOOLEAN
    BY <1>8, <2>1 DEF SetMET, Command
  <2>4. UNCHANGED <<now, localSem, toneSem, localTask, toneTask, timeTask, pipe, ToneSignalLatch,
                    ToneDataLatch, IsToneGood, Prev, Forced2Fly, ServerFlyState, late>>
    BY <1>8 DEF SetMET, Command, taskVars
  <2> QED
    BY <2>2, <2>3, <2>4
<1>9. ASSUME NEW new \in NewStates, SetState(new) PROVE FlywheelInv'
  <2>1. ref' \in [met : Int, latch : Int, fly : BOOLEAN] /\ (ref'.fly <=> ref.fly \/ new = "FLYWHEEL")
    BY <1>9 DEF SetState
  <2>2. /\ Forced2Fly' \in BOOLEAN /\ (Forced2Fly' <=> new = "FLYWHEEL")
        /\ ServerFlyState' \in BOOLEAN /\ (ServerFlyState' <=> ServerFlyState \/ new = "FLYWHEEL")
    BY <1>9 DEF SetState
  <2>3. commands' \in Nat
    BY <1>9 DEF SetState, Command
  <2>4. UNCHANGED <<now, localSem, toneSem, localTask, toneTask, timeTask, pipe, ToneSignalLatch,
                    ToneDataLatch, IsToneGood, Prev, VirtualMET, commanded, late>>
    BY <1>9 DEF SetState, Command, taskVars
  <2> QED
    BY <2>1, <2>2, <2>3, <2>4
<1>10. CASE UNCHANGED vars
  BY <1>10 DEF vars
<1> QED
  BY <1>1, <1>2, <1>3, <1>4, <1>5, <1>6, <1>7, <1>8, <1>9, <1>10 DEF Next

\* A server commanded into the flywheel stays in it until it is commanded out.
THEOREM FlywheelHolds == Spec => []FlywheelInv
  BY FlywheelInit, FlywheelNext, PTL DEF Spec

-----------------------------------------------------------------------------
(* The count of tones and the reference.  A good tone comes no earlier than *)
(* the tolerance allows, so the tones counted fit in the time between       *)
(* latches.                                                                 *)

LEMMA WholeAndRest ==
  ASSUME NEW t \in Int
  PROVE  SecondsOf(t) \in Int /\ t - SecondsOf(t) * Second \in 0 .. Second - 1
  BY SecondAssumption DEF SecondsOf

LEMMA WholeSeconds ==
  ASSUME NEW n \in Int
  PROVE  n * Second \in Int /\ SecondsOf(n * Second) = n
  BY SecondAssumption DEF SecondsOf

\* Tones are compared as the time they take at least.
LEMMA EarlyFacts ==
  /\ Early \in Nat \ {0} /\ Tolerance \in Nat /\ Second = Early + Tolerance
  /\ StartFly * Second \in Nat /\ StartFly * Second >= Second
  /\ (StartFly + 1) * Tolerance \in Nat
  /\ StartFly * Second <= (StartFly + 1) * Early
<1>1. Second \in Nat \ {0} /\ StartFly \in Nat \ {0} /\ Tolerance \in Nat
      /\ (StartFly + 1) * Tolerance <= Second
  BY SecondAssumption, FlyAssumption, ToleranceAssumption
<1>2. StartFly * Second \in Nat /\ StartFly * Second >= 1 * Second
      /\ (StartFly + 1) * Tolerance \in Nat /\ (StartFly + 1) * Tolerance >= 2 * Tolerance
  BY <1>1
<1>3. Early \in Nat \ {0} /\ Second = Early + Tolerance
  BY <1>1, <1>2 DEF Early
<1>4. (StartFly + 1) * Second = (StartFly + 1) * Early + (StartFly + 1) * Tolerance
  BY <1>1, <1>3
<1>5. (StartFly + 1) * Second = StartFly * Second + Second
  BY <1>1
<1>6. (StartFly + 1) * Early \in Int
  BY <1>1, <1>3
<1> QED
  BY <1>1, <1>2, <1>3, <1>4, <1>5, <1>6

LEMMA OneMore ==
  ASSUME NEW n \in Int
  PROVE  /\ n * Early \in Int /\ (n + 1) * Early = n * Early + Early /\ 0 * Early = 0
         /\ (n - 1) * Early = n * Early - Early
         /\ n * Second = n * Early + n * Tolerance /\ n * Tolerance \in Int
  BY EarlyFacts

LEMMA FewerTones ==
  ASSUME NEW m \in Int, NEW n \in Int, m * Early < n * Early
  PROVE  m < n
  BY EarlyFacts

LEMMA CountFacts ==
  ASSUME TypeOK
  PROVE  /\ now \in Nat /\ ref.met \in Int /\ ref.latch \in Int /\ ref.fly \in BOOLEAN
         /\ VirtualMET \in Int /\ ToneSignalLatch \in Int /\ ToneDataLatch \in Int
         /\ Counted \in Int /\ late \in Nat
         /\ SecondsOf(ref.met) \in Int /\ StartFly * Second \in Nat /\ Second \in Nat \ {0}
         /\ MatchWindow \in 0 .. Second - 1
         /\ StartFly \in Nat \ {0} /\ commanded \in BOOLEAN
<1>1. /\ now \in Nat /\ ref.met \in Int /\ ref.latch \in Int /\ ref.fly \in BOOLEAN
      /\ VirtualMET \in Int /\ ToneSignalLatch \in Int /\ ToneDataLatch \in Int
      /\ commanded \in BOOLEAN /\ late \in Nat
  BY DEF TypeOK
<1>2. SecondsOf(ref.met) \in Int
  BY <1>1, SecondsType
<1>3. Counted \in Int
  BY <1>1, <1>2 DEF Counted
<1> QED
  BY <1>1, <1>2, <1>3, SecondAssumption, FlyAssumption

LEMMA CountInit == Init => CountInv
<1> SUFFICES ASSUME Init PROVE CountInv
  OBVIOUS
<1>1. TypeOK
  BY FlywheelInit DEF FlywheelInv
<1>2. ToneSignalLatch <= now /\ ref.latch <= now /\ ToneDataLatch <= now /\ ref.fly
      /\ timeTask = "pipe"
  BY SecondAssumption DEF Init, LongAgo
<1> QED
  BY <1>1, <1>2 DEF CountInv

\* The Time task looks at the clock before the time without an update that
\* starts the flywheel is over, or the flywheel is on.
LEMMA CountOneHz ==
  ASSUME CountInv, TypeOK', OneHzCmd
  PROVE  CountInv'
<1>0. /\ TypeOK /\ ToneSignalLatch <= now /\ ref.latch <= now /\ ToneDataLatch <= now
      /\ now \in Nat /\ ref.latch \in Int /\ ToneSignalLatch \in Int
      /\ StartFly * Second \in Nat
  BY CountFacts DEF CountInv
<1>1. UNCHANGED <<now, ToneSignalLatch, ToneDataLatch, VirtualMET, commanded>>
      /\ timeTask' = "isr" /\ late' = 0
  BY DEF OneHzCmd, toneVars
<1>2. ref'.latch = ref.latch \/ ref'.latch = now
  BY DEF OneHzCmd, Local1HzStateMachine
<1>3. ASSUME ~ref'.fly
      PROVE  ref'.met = ref.met /\ ref'.latch = ref.latch /\ ~ref.fly
             /\ now - ref.latch < StartFly * Second
  <2>1. ~ref.fly /\ ~(TimeSinceTone >= StartFly * Second)
        /\ ref'.met = ref.met /\ ref'.latch = ref.latch
    BY <1>3 DEF OneHzCmd, Local1HzStateMachine
  <2> QED
    BY <1>0, <2>1 DEF TimeSinceTone
<1>4. /\ ToneSignalLatch' <= now' /\ ref'.latch <= now' /\ ToneDataLatch' <= now'
      /\ ToneSignalLatch' + late' <= now' /\ ref'.latch + late' <= now'
      /\ timeTask' # "verify"
  BY <1>0, <1>1, <1>2
<1>5. ASSUME ~ref'.fly
      PROVE  /\ ToneSignalLatch' - ref'.latch < StartFly * Second + late'
             /\ now' - late' - ref'.latch < StartFly * Second
  BY <1>0, <1>1, <1>3, <1>5
<1>6. ASSUME ~ref'.fly
      PROVE  Counted' = Counted /\ MaxCounted' = MaxCounted
  BY <1>1, <1>3, <1>6 DEF Counted, MaxCounted
<1> QED
  BY <1>1, <1>3, <1>4, <1>5, <1>6 DEF CountInv

\* One tone more fits in the time up to its latch.
LEMMA CountISR ==
  ASSUME CountInv, TypeOK', Tone1HzISR
  PROVE  CountInv'
<1>0. /\ TypeOK /\ ToneSignalLatch <= now /\ ref.latch <= now /\ ToneDataLatch <= now
      /\ ToneSignalLatch + late <= now
      /\ now \in Nat /\ ref.latch \in Int /\ ToneSignalLatch \in Int /\ late \in Nat
      /\ Counted \in Int /\ StartFly * Second \in Nat /\ StartFly \in Nat \ {0}
      /\ Second \in Nat
  BY CountFacts DEF CountInv, Tone1HzISR
<1>1. UNCHANGED <<now, ref, ToneDataLatch, commanded, late>>
      /\ ToneSignalLatch' = now /\ timeTask' = "pipe"
      /\ VirtualMET' = IF GoodTone THEN VirtualMET + 1 ELSE VirtualMET
  BY DEF Tone1HzISR
<1>2. Counted' = IF GoodTone THEN Counted + 1 ELSE Counted
  <2>1. VirtualMET \in Int /\ SecondsOf(ref.met) \in Int /\ SecondsOf(ref'.met) = SecondsOf(ref.met)
    BY <1>0, <1>1, CountFacts
  <2> QED
    BY <1>1, <2>1 DEF Counted
<1>3. GoodTone => now - ToneSignalLatch >= Early
  BY <1>0, EarlyFacts, ToleranceAssumption DEF GoodTone, Early
<1>4. /\ Early \in Nat \ {0} /\ StartFly * Second <= (StartFly + 1) * Early
      /\ Counted * Early \in Int /\ (Counted + 1) * Early = Counted * Early + Early
      /\ (Counted - 1) * Early = Counted * Early - Early
      /\ (StartFly + 1) * Early \in Int
  BY <1>0, EarlyFacts, OneMore
<1>5. ASSUME ~ref.fly, ~commanded
      PROVE  /\ Counted' \in 0 .. StartFly + 1
             /\ Counted' * Early <= now - ref.latch
  <2>1. /\ Counted \in 0 .. StartFly + 1 /\ Counted * Early <= ToneSignalLatch - ref.latch
        /\ now - late - ref.latch < StartFly * Second
    BY <1>5 DEF CountInv, MaxCounted, Tone1HzISR
  <2>2. Counted < StartFly + 1
    <3>1. Counted * Early < (StartFly + 1) * Early
      BY <1>0, <1>4, <2>1
    <3> QED
      BY <1>0, <3>1, FewerTones
  <2> QED
    BY <1>0, <1>2, <1>3, <1>4, <2>1, <2>2
<1>6. ASSUME ~ref.fly, commanded
      PROVE  /\ Counted' \in 0 .. StartFly + 2
             /\ Counted' = 0 \/ (Counted' - 1) * Early <= now - ref.latch
  <2>1. /\ Counted \in 0 .. StartFly + 2
        /\ Counted = 0 \/ (Counted - 1) * Early <= ToneSignalLatch - ref.latch
        /\ now - late - ref.latch < StartFly * Second
    BY <1>6 DEF CountInv, MaxCounted, Tone1HzISR
  <2>2. Counted - 1 < StartFly + 1
    <3>1. CASE Counted = 0
      BY <1>0, <3>1
    <3>2. CASE (Counted - 1) * Early <= ToneSignalLatch - ref.latch
      <4>1. (Counted - 1) * Early < (StartFly + 1) * Early
        BY <1>0, <1>4, <2>1, <3>2
      <4> QED
        BY <1>0, <4>1, FewerTones
    <3> QED
      BY <2>1, <3>1, <3>2
  <2>3. CASE ~GoodTone
    BY <1>0, <1>2, <1>4, <2>1, <2>3
  <2>4. CASE GoodTone
    <3>1. Counted' = Counted + 1 /\ Counted' - 1 = Counted
      BY <1>0, <1>2, <2>4
    <3>2. Counted * Early <= now - ref.latch
      <4>1. CASE Counted = 0
        <5>1. Counted * Early = 0
          BY <1>4, <4>1
        <5>2. 0 <= now - ref.latch
          BY <1>0
        <5> QED
          BY <5>1, <5>2
      <4>2. CASE (Counted - 1) * Early <= ToneSignalLatch - ref.latch
        BY <1>0, <1>3, <1>4, <2>4, <4>2
      <4> QED
        BY <2>1, <4>1, <4>2
    <3> QED
      BY <1>0, <2>1, <2>2, <3>1, <3>2
  <2> QED
    BY <2>3, <2>4
<1>7. /\ ToneSignalLatch' <= now' /\ ref'.latch <= now' /\ ToneDataLatch' <= now'
      /\ timeTask' # "isr" /\ timeTask' # "verify"
  BY <1>0, <1>1
<1>8. ~ref.fly => ToneSignalLatch' - ref'.latch < StartFly * Second + late'
  <2>1. ~ref.fly => now - late - ref.latch < StartFly * Second
    BY DEF CountInv, Tone1HzISR
  <2> QED
    BY <1>0, <1>1, <2>1
<1>9. ~ref.fly /\ ~commanded => ref.met = SecondsOf(ref.met) * Second
  BY DEF CountInv
<1> QED
  BY <1>1, <1>5, <1>6, <1>7, <1>8, <1>9 DEF CountInv, MaxCounted

\* An update sets the reference to the count, at the latch of the tone.
LEMMA CountVerify ==
  ASSUME CountInv, TypeOK', ToneVerify
  PROVE  CountInv'
<1>0. TypeOK /\ ToneSignalLatch <= now /\ ref.latch <= now /\ ToneDataLatch <= now
  BY DEF CountInv
<1>1. UNCHANGED <<now, ToneSignalLatch, ToneDataLatch, late>> /\ timeTask' = "pipe"
  BY DEF ToneVerify
<1>2. CASE ToneUpdate
  <2>1. /\ ref'.met = VirtualMET' * Second /\ ref'.latch = ToneSignalLatch
        /\ commanded' = FALSE /\ VirtualMET' \in Int
    BY <1>2 DEF ToneUpdate, TypeOK
  <2>2. SecondsOf(ref'.met) = VirtualMET'
    BY <2>1, WholeSeconds
  <2>3. Counted' = 0
    BY <2>1, <2>2 DEF Counted
  <2>4. StartFly * Second \in Nat /\ StartFly * Second >= Second /\ 0 * Early = 0
        /\ Second \in Nat \ {0} /\ StartFly \in Nat /\ late \in Nat
    BY <1>0, EarlyFacts, OneMore, CountFacts
  <2>5. ToneSignalLatch \in Int
    BY <1>0, CountFacts
  <2>6. Counted' \in 0 .. MaxCounted' /\ MaxCounted' = StartFly + 1
    BY <2>1, <2>3, <2>4 DEF MaxCounted
  <2>7. ToneSignalLatch' - ref'.latch = 0 /\ 0 < StartFly * Second + late'
    BY <1>1, <2>1, <2>4, <2>5
  <2>8. Counted' * Early <= ToneSignalLatch' - ref'.latch
    BY <2>3, <2>4, <2>7
  <2> QED
    BY <1>0, <1>1, <2>1, <2>2, <2>6, <2>7, <2>8 DEF CountInv
<1>3. CASE UNCHANGED <<VirtualMET, ref, commanded>>
  <2>1. Counted' = Counted /\ MaxCounted' = MaxCounted
    BY <1>3 DEF Counted, MaxCounted
  <2> QED
    BY <1>1, <1>3, <2>1 DEF CountInv
<1> QED
  BY <1>2, <1>3 DEF ToneVerify

LEMMA CountData ==
  ASSUME CountInv, TypeOK', ToneDataCmd
  PROVE  CountInv'
<1>1. UNCHANGED <<now, ref, VirtualMET, ToneSignalLatch, commanded, late>>
      /\ timeTask' = "verify" /\ ToneDataLatch' = now
  BY DEF ToneDataCmd, toneVars
<1>2. Counted' = Counted /\ MaxCounted' = MaxCounted
  BY <1>1 DEF Counted, MaxCounted
<1>3. now \in Nat
  BY CountFacts DEF CountInv
<1> QED
  BY <1>1, <1>2, <1>3 DEF CountInv

LEMMA CountSetMET ==
  ASSUME CountInv, TypeOK', NEW new \in NewMETs, SetMET(new)
  PROVE  CountInv'
<1>0. /\ TypeOK /\ ToneSignalLatch <= now /\ ref.latch <= now /\ ToneDataLatch <= now
      /\ ref \in [met : Int, latch : Int, fly : BOOLEAN]
  BY DEF CountInv, TypeOK
<1>1. /\ UNCHANGED <<now, timeTask, ToneSignalLatch, ToneDataLatch, late>> /\ commanded'
      /\ VirtualMET' = SecondsOf(new) /\ ref' = [ref EXCEPT !.met = new, !.latch = now]
      /\ timeTask = "pipe"
  BY DEF SetMET, Command, taskVars
<1>2. ref'.met = new /\ ref'.latch = now
  BY <1>0, <1>1
<1>3. SecondsOf(new) \in Int
  BY CommandsAssumption, SecondsType
<1>4. Counted' = 0
  BY <1>1, <1>2, <1>3 DEF Counted
<1>5. StartFly * Second \in Nat /\ StartFly * Second >= Second /\ Second \in Nat \ {0}
      /\ StartFly \in Nat
  BY EarlyFacts, SecondAssumption, FlyAssumption
<1>6. now \in Int /\ ToneSignalLatch \in Int /\ late \in Nat
  BY <1>0, CountFacts
<1>7. ToneSignalLatch' - ref'.latch < StartFly * Second + late'
  BY <1>0, <1>1, <1>2, <1>5, <1>6
<1>8. Counted' \in 0 .. MaxCounted'
  BY <1>1, <1>4, <1>5 DEF MaxCounted
<1>9. /\ ToneSignalLatch' <= now' /\ ref'.latch <= now' /\ ToneDataLatch' <= now'
      /\ timeTask' # "isr" /\ timeTask' # "verify"
  BY <1>0, <1>1, <1>2, <1>6
<1> QED
  BY <1>1, <1>4, <1>7, <1>8, <1>9 DEF CountInv

LEMMA CountSetState ==
  ASSUME CountInv, TypeOK', NEW new \in NewStates, SetState(new)
  PROVE  CountInv'
<1>1. UNCHANGED <<now, timeTask, ToneSignalLatch, ToneDataLatch, VirtualMET, commanded, late>>
      /\ ref' = [ref EXCEPT !.fly = ref.fly \/ new = "FLYWHEEL"]
  BY DEF SetState, Command
<1>2. ref'.met = ref.met /\ ref'.latch = ref.latch /\ (~ref'.fly => ~ref.fly)
  BY <1>1 DEF CountInv, TypeOK
<1>3. Counted' = Counted /\ MaxCounted' = MaxCounted
  BY <1>1, <1>2 DEF Counted, MaxCounted
<1> QED
  BY <1>1, <1>2, <1>3 DEF CountInv

\* The time the Time task is preempted between its two looks is counted.
LEMMA CountTick ==
  ASSUME CountInv, TypeOK', Tick
  PROVE  CountInv'
<1>0. /\ now \in Nat /\ ref.latch \in Int /\ ToneSignalLatch \in Int /\ ToneDataLatch \in Int
      /\ late \in Nat /\ StartFly * Second \in Nat
  BY CountFacts DEF CountInv
<1>1. UNCHANGED <<ref, VirtualMET, ToneSignalLatch, ToneDataLatch, commanded, timeTask>>
      /\ now' = now + 1 /\ late' = IF timeTask = "isr" THEN late + 1 ELSE late
  BY DEF Tick, toneVars
<1>2. Counted' = Counted /\ MaxCounted' = MaxCounted
  BY <1>1 DEF Counted, MaxCounted
<1>3. ToneSignalLatch' <= now' /\ ref'.latch <= now' /\ ToneDataLatch' <= now'
  BY <1>0, <1>1 DEF CountInv
<1>4. timeTask' = "isr" => /\ ToneSignalLatch' + late' <= now' /\ ref'.latch + late' <= now'
                           /\ now' - late' - ref'.latch = now - late - ref.latch
  BY <1>0, <1>1 DEF CountInv
<1>5. ~ref'.fly => ToneSignalLatch' - ref'.latch < StartFly * Second + late'
  <2>1. ~ref.fly => ToneSignalLatch - ref.latch < StartFly * Second + late
    BY DEF CountInv
  <2> QED
    BY <1>0, <1>1, <2>1
<1> QED
  BY <1>1, <1>2, <1>3, <1>4, <1>5 DEF CountInv

LEMMA CountNext == CountInv /\ TypeOK' /\ [Next]_vars => CountInv'
<1> SUFFICES ASSUME CountInv, TypeOK', [Next]_vars PROVE CountInv'
  OBVIOUS
<1>1. CASE ChildTask \/ ToneSendCmd \/ UNCHANGED vars
  <2>1. UNCHANGED <<now, ref, VirtualMET, ToneSignalLatch, ToneDataLatch, commanded, timeTask, late>>
    BY <1>1 DEF ChildTask, ToneSendCmd, vars, toneVars
  <2>2. Counted' = Counted /\ MaxCounted' = MaxCounted
    BY <2>1 DEF Counted, MaxCounted
  <2> QED
    BY <2>1, <2>2 DEF CountInv
<1> QED
  BY <1>1, CountTick, CountOneHz, CountISR, CountData, CountVerify, CountSetMET, CountSetState
  DEF Next

LEMMA CountHolds == Spec => [](FlywheelInv /\ CountInv)
<1>1. FlywheelInv /\ CountInv /\ [Next]_vars => (FlywheelInv /\ CountInv)'
  BY FlywheelNext, CountNext DEF FlywheelInv
<1> QED
  BY <1>1, FlywheelInit, CountInit, PTL DEF Spec

\* Out of the flywheel the count of tones is never behind the reference and
\* ahead of it by no more tones than fit in the time that starts the flywheel,
\* however early each of them is and however late packets and tasks are.
THEOREM CountStaysNear == Spec => []CountNearReference
<1>1. CountInv => CountNearReference
  BY DEF CountInv, CountNearReference
<1> QED
  BY <1>1, CountHolds, PTL

-----------------------------------------------------------------------------
(* How far an update moves the MET. *)

\* In the flywheel the count of tones is taken from the clock.
LEMMA FlywheelGain ==
  ASSUME CountInv, Matches, ToneUpdate, ref.fly
  PROVE  Gain <= MaxGain /\ -Gain < MaxLoss
<1>0. /\ now \in Nat /\ ref.met \in Int /\ ref.latch \in Int
      /\ ToneSignalLatch \in Int /\ ToneDataLatch \in Int /\ late \in Nat
      /\ Second \in Nat \ {0} /\ MatchWindow \in 0 .. Second - 1 /\ commanded \in BOOLEAN
  BY CountFacts DEF CountInv
<1>1. /\ ref'.met = SecondsOf(CurrentMET) * Second /\ ref'.latch = ToneSignalLatch
      /\ ToneDataLatch - ToneSignalLatch <= MatchWindow /\ ToneSignalLatch <= now
  BY DEF ToneUpdate, Matches, CountInv
<1>2. CurrentMET \in Int /\ CurrentMET = ref.met + (now - ref.latch)
  BY <1>0 DEF CurrentMET, TimeSinceTone
<1>3. PICK whole \in Int : whole = SecondsOf(CurrentMET) * Second
                           /\ CurrentMET - whole \in 0 .. Second - 1
  <2>1. SecondsOf(CurrentMET) * Second \in Int
        /\ CurrentMET - SecondsOf(CurrentMET) * Second \in 0 .. Second - 1
    BY <1>2, WholeAndRest, WholeSeconds
  <2> QED
    BY <2>1
<1>4. Gain = (whole - ToneSignalLatch) - (ref.met - ref.latch)
  BY <1>1, <1>3 DEF Gain
<1>5. Gain <= MatchWindow + (now - ToneDataLatch) /\ -Gain < Second
  BY <1>0, <1>1, <1>2, <1>3, <1>4
<1>6. MaxLoss \in Int /\ Second <= MaxLoss /\ Gain \in Int
  <2>1. StartFly * Second \in Nat /\ StartFly * Second >= Second
    BY EarlyFacts
  <2>2. MaxLoss \in Int /\ Second <= MaxLoss
    BY <1>0, <2>1 DEF MaxLoss
  <2> QED
    BY <1>0, <1>3, <1>4, <2>2
<1>7. MaxGain = MatchWindow + (now - ToneDataLatch)
  BY DEF MaxGain
<1> QED
  BY <1>0, <1>5, <1>6, <1>7

\* Out of it the count goes on; every tone counted took nearly a second.
LEMMA CountedGain ==
  ASSUME CountInv, Matches, ToneUpdate, ~ref.fly, timeTask = "verify"
  PROVE  Gain <= MaxGain /\ -Gain < MaxLoss
<1>0. /\ ref.met \in Int /\ ref.latch \in Int /\ VirtualMET \in Int
      /\ ToneSignalLatch \in Int /\ ToneDataLatch \in Int /\ late \in Nat
      /\ Counted \in Int /\ SecondsOf(ref.met) \in Int /\ StartFly \in Nat \ {0}
      /\ Second \in Nat \ {0} /\ MatchWindow \in 0 .. Second - 1 /\ commanded \in BOOLEAN
  BY CountFacts DEF CountInv
<1>1. /\ ref'.met = VirtualMET * Second /\ ref'.latch = ToneSignalLatch
      /\ ToneDataLatch - ToneSignalLatch <= MatchWindow /\ ref.latch <= ToneDataLatch
  BY DEF ToneUpdate, Matches, CountInv
<1>2. PICK since \in Int, rest \in Int :
        /\ since = SecondsOf(ref.met) * Second /\ rest = ref.met - since
        /\ rest \in 0 .. Second - 1
  <2>1. PICK s \in Int : s = SecondsOf(ref.met) * Second
    BY <1>0, WholeSeconds
  <2>2. ref.met - s \in 0 .. Second - 1
    BY <1>0, <2>1, WholeAndRest
  <2>3. ref.met - s \in Int
    BY <1>0
  <2> QED
    BY <2>1, <2>2, <2>3
<1>3. PICK n \in Int : n = Counted /\ n >= 0 /\ n <= MaxCounted
  BY <1>0 DEF CountInv, MaxCounted
<1>4. VirtualMET * Second = since + n * Second
  <2>1. VirtualMET = SecondsOf(ref.met) + n
    BY <1>0, <1>3 DEF Counted
  <2>2. \A i, j \in Int : (i + j) * Second = i * Second + j * Second
    BY <1>0
  <2> QED
    BY <1>0, <1>2, <2>1, <2>2
<1>5. PICK early \in Int, tol \in Int, few \in Int, limit \in Nat :
        /\ early = n * Early /\ tol = n * Tolerance /\ n * Second = early + tol
        /\ few = (n - 1) * Early /\ few = early - Early
        /\ limit = (StartFly + 1) * Tolerance
  BY OneMore, EarlyFacts
<1>6. Gain = early + tol - rest - (ToneSignalLatch - ref.latch)
  <2>1. Gain = ((since + early + tol) - ToneSignalLatch) - (ref.met - ref.latch)
    BY <1>0, <1>1, <1>2, <1>4, <1>5 DEF Gain
  <2> QED
    BY <1>0, <1>2, <1>5, <2>1
<1>7. early >= 0 /\ tol >= 0
  <2>1. n \in Nat /\ Early \in Nat /\ Tolerance \in Nat
    BY <1>3, EarlyFacts
  <2> QED
    BY <1>5, <2>1
<1>8. PICK start \in Nat : start = StartFly * Second
                           /\ ToneSignalLatch - ref.latch < start + late
  BY EarlyFacts DEF CountInv
<1>9. MaxLoss = start + late + (IF commanded THEN Second ELSE 0)
      /\ MaxGain = limit + (IF commanded THEN Second ELSE 0)
  BY <1>5, <1>8 DEF MaxLoss, MaxGain
<1>10. CASE ~commanded
  <2>1. n <= StartFly + 1
    BY <1>3, <1>10 DEF MaxCounted
  <2>2. tol <= limit
    <3>1. Tolerance \in Nat
      BY EarlyFacts
    <3>2. n * Tolerance <= (StartFly + 1) * Tolerance
      BY <1>0, <2>1, <3>1
    <3> QED
      BY <1>5, <3>2
  <2>3. rest = 0 /\ early <= ToneSignalLatch - ref.latch
    <3>1. ref.met = since
      BY <1>2, <1>10 DEF CountInv
    <3>2. Counted * Early <= ToneSignalLatch - ref.latch
      BY <1>10 DEF CountInv
    <3> QED
      BY <1>0, <1>2, <1>3, <1>5, <3>1, <3>2
  <2> QED
    BY <1>0, <1>6, <1>7, <1>8, <1>9, <1>10, <2>2, <2>3
<1>11. CASE commanded
  <2>1. n - 1 <= StartFly + 1
    BY <1>0, <1>3, <1>11 DEF MaxCounted
  <2>2. n = 0 \/ few <= ToneSignalLatch - ref.latch
    <3>1. Counted = 0 \/ (Counted - 1) * Early <= ToneSignalLatch - ref.latch
      BY <1>11 DEF CountInv
    <3> QED
      BY <1>3, <1>5, <3>1
  <2>3. tol <= limit + Tolerance /\ Early + Tolerance = Second
        /\ Early \in Nat /\ Tolerance \in Nat
    <3>1. /\ Tolerance \in Nat /\ Early \in Nat /\ Early + Tolerance = Second
      BY EarlyFacts
    <3>2. (n - 1) * Tolerance <= (StartFly + 1) * Tolerance
      BY <1>0, <2>1, <3>1
    <3>3. (n - 1) * Tolerance = tol - Tolerance
      BY <1>5, <3>1
    <3> QED
      BY <1>5, <3>1, <3>2, <3>3
  <2>4. -Gain < MaxLoss
    BY <1>0, <1>2, <1>5, <1>6, <1>7, <1>8, <1>9, <1>11
  <2>5. CASE n = 0
    <3>1. early = 0 /\ tol = 0
      BY <1>5, <2>5, EarlyFacts
    <3>2. Gain <= MatchWindow
      <4>1. Gain = 0 - rest - (ToneSignalLatch - ref.latch)
        BY <1>0, <1>2, <1>6, <3>1
      <4>2. rest \in Nat
        BY <1>2
      <4>3. ref.latch - ToneSignalLatch <= MatchWindow
        BY <1>0, <1>1
      <4> QED
        BY <1>0, <4>1, <4>2, <4>3
    <3>3. Gain \in Int /\ MaxGain = limit + Second
      BY <1>0, <1>2, <1>5, <1>6, <1>9, <1>11, <3>1
    <3> QED
      BY <1>0, <1>5, <2>4, <3>2, <3>3
  <2>6. CASE few <= ToneSignalLatch - ref.latch
    BY <1>0, <1>2, <1>5, <1>6, <1>9, <1>11, <2>3, <2>4, <2>6
  <2> QED
    BY <2>2, <2>5, <2>6
<1> QED
  BY <1>0, <1>10, <1>11

\* Moving the reference up along the clock gains nothing.
LEMMA OneHzGain ==
  ASSUME CountInv, OneHzCmd
  PROVE  Gain = 0
<1>1. now \in Int /\ ref.met \in Int /\ ref.latch \in Int
  BY CountFacts DEF CountInv
<1>2. \/ ref'.met = ref.met + (now - ref.latch) /\ ref'.latch = now
      \/ ref'.met = ref.met /\ ref'.latch = ref.latch
  BY DEF OneHzCmd, Local1HzStateMachine, CurrentMET, TimeSinceTone
<1> QED
  BY <1>1, <1>2 DEF Gain

\* No update puts the MET forward by more than the window between a tone and
\* its packet and the preemption of the update, or than the tones counted were
\* early, nor back by the time without an update that starts the flywheel and
\* the preemption of the wake-up; the first one after SetMET may be a second
\* further off.
THEOREM MetStepsBounded == Spec => MetStepBounded
<1>1. ASSUME CountInv, [Next]_vars, commands' = commands
      PROVE  Gain <= MaxGain /\ -Gain < MaxLoss
  <2>1. commands \in Nat /\ ref.met \in Int /\ ref.latch \in Int
    <3>1. commands \in Nat
      BY <1>1 DEF CountInv, TypeOK
    <3> QED
      BY <1>1, <3>1, CountFacts DEF CountInv
  <2>2. Gain = 0 => Gain <= MaxGain /\ -Gain < MaxLoss
    <3>1. /\ now \in Nat /\ ToneDataLatch \in Int /\ ToneDataLatch <= now /\ late \in Nat
          /\ Second \in Nat \ {0} /\ MatchWindow \in Nat /\ commanded \in BOOLEAN
      BY <1>1, CountFacts DEF CountInv
    <3>2. StartFly * Second \in Nat /\ StartFly * Second >= Second
          /\ (StartFly + 1) * Tolerance \in Nat
      BY EarlyFacts
    <3>3. MaxGain >= 0
      BY <3>1, <3>2 DEF MaxGain
    <3>4. MaxLoss > 0
      BY <3>1, <3>2 DEF MaxLoss
    <3> QED
      BY <3>3, <3>4
  <2>3. ref' = ref => Gain = 0
    BY <2>1 DEF Gain
  <2>4. CASE OneHzCmd
    BY <1>1, <2>2, <2>4, OneHzGain
  <2>5. CASE ToneVerify
    <3>1. (Matches /\ ToneUpdate /\ timeTask = "verify") \/ ref' = ref
      BY <2>5 DEF ToneVerify
    <3> QED
      BY <1>1, <2>2, <2>3, <3>1, FlywheelGain, CountedGain
  <2>6. CASE Tick \/ ChildTask \/ Tone1HzISR \/ ToneSendCmd \/ ToneDataCmd \/ UNCHANGED vars
    <3>1. ref' = ref
      BY <2>6 DEF Tick, ChildTask, Tone1HzISR, ToneSendCmd, ToneDataCmd, vars
    <3> QED
      BY <2>2, <2>3, <3>1
  <2>7. ~Command
    BY <1>1, <2>1 DEF Command
  <2> QED
    BY <1>1, <2>4, <2>5, <2>6, <2>7 DEF Next, SetMET, SetState
<1>2. CountInv /\ [Next]_vars => [commands' = commands => Gain <= MaxGain /\ -Gain < MaxLoss]_vars
  BY <1>1
<1> QED
  BY <1>2, CountHolds, PTL DEF Spec, MetStepBounded

=============================================================================
