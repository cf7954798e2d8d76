------------------------------ MODULE TimeTone ------------------------------
(***************************************************************************)
(* The tone of Time Services (cfe-core/src/time) as it is configured here: *)
(* a time server with an internal source, a virtual MET and a fake tone.   *)
(* A timer wakes the 1 Hz task, which tells the Time task; that runs the   *)
(* flywheel state machine, takes the wake-up for a tone and wakes the tone *)
(* task, which asks the Time task for the time at the tone; the answer     *)
(* goes over the Software Bus back to the Time task, which checks that the *)
(* packet belongs to the tone and then moves its reference of time.  Every *)
(* task may be late by any time, and the Time task may be preempted for    *)
(* any time between two readings of the clock in one handler: a step ends  *)
(* before the next reading.  Only the Time task writes what is read here,  *)
(* so nothing but the clock moves in between.                              *)
(*                                                                         *)
(* Time is counted in units of 1 / Second of a second.  The local clock    *)
(* does not roll over within the bound.  The tone signal message, which    *)
(* this configuration only counts, and the STCF are left out.              *)
(***************************************************************************)
EXTENDS Integers, Sequences

CONSTANTS
  Second,        \* units of time in a second
  Tolerance,     \* CFE_PLATFORM_TIME_CFG_TONE_LIMIT, in units
  MatchWindow,   \* CFE_MISSION_TIME_MAX_ELAPSED, in units
  StartFly,      \* CFE_PLATFORM_TIME_CFG_START_FLY, in seconds
  LatchFly,      \* CFE_PLATFORM_TIME_CFG_LATCH_FLY, in seconds
  MsgLim,        \* messages of a kind the bus keeps for a pipe (4)
  NewMETs,       \* what the ground sets the MET to, in units
  NewStates,     \* clock states the ground sets
  MaxTime,       \* bound: the clock
  MaxCommands    \* bound: commands the ground sends

ASSUME SecondAssumption == Second \in Nat \ {0} /\ MatchWindow \in 0 .. Second - 1
ASSUME FlyAssumption == StartFly \in Nat \ {0} /\ LatchFly \in Nat
\* 20 ms on board: tones too early to be told from the next are not accepted.
ASSUME ToleranceAssumption ==
  Tolerance \in Nat /\ (StartFly + 1) * Tolerance <= Second
ASSUME CommandsAssumption ==
  NewMETs \subseteq Nat /\ NewStates \subseteq {"VALID", "INVALID", "FLYWHEEL"}

VARIABLES
  now,                       \* the local clock
  localSem, toneSem,         \* the two binary semaphores
  localTask, toneTask,       \* the 1 Hz task and the tone task
  timeTask,                  \* the Time task: in a handler, or at its pipe
  pipe,                      \* the pipe of the Time task
  ref,                       \* the published reference: MET, latch, flywheel
  VirtualMET, ToneSignalLatch, ToneDataLatch, IsToneGood,
  Prev,                      \* PrevTime1 and PrevTime2 of CFE_TIME_ToneVerify
  Forced2Fly, ServerFlyState,
  commands,
  commanded,                 \* history: no tone was matched since SetMET
  late                       \* history: time between the two readings of the
                             \* last 1 Hz wake-up

Messages == [id : {"1HZ", "SEND", "DATA"}, met : Int]

taskVars == <<localSem, toneSem, localTask, toneTask>>
toneVars == <<VirtualMET, ToneSignalLatch, IsToneGood, Prev>>
vars == <<now, localSem, toneSem, localTask, toneTask, timeTask, pipe, ref, VirtualMET,
          ToneSignalLatch, ToneDataLatch, IsToneGood, Prev, Forced2Fly, ServerFlyState,
          commands, commanded, late>>

LongAgo == -(2 * Second + 1)     \* latches that were never set

\* CFE_TIME_InitData.
Init ==
  /\ now = 0
  /\ localSem = FALSE /\ toneSem = FALSE /\ localTask = "pend" /\ toneTask = "pend"
  /\ timeTask = "pipe" /\ pipe = <<>>
  /\ ref = [met |-> 0, latch |-> 0, fly |-> TRUE]
  /\ VirtualMET = 0 /\ IsToneGood = FALSE
  /\ ToneSignalLatch = LongAgo /\ ToneDataLatch = LongAgo
  /\ Prev = [tone |-> LongAgo, data |-> LongAgo]
  /\ Forced2Fly = FALSE /\ ServerFlyState = TRUE
  /\ commands = 0 /\ commanded = FALSE /\ late = 0

-----------------------------------------------------------------------------
(* CFE_TIME_GetReference. *)
TimeSinceTone == now - ref.latch
CurrentMET == ref.met + TimeSinceTone
SecondsOf(time) == time \div Second

-----------------------------------------------------------------------------
(* The timer and the two child tasks. *)

\* The timer goes off once a second and gives the semaphore.
Tick ==
  /\ now < MaxTime
  /\ now' = now + 1
  /\ localSem' = (localSem \/ now' % Second = 0)
  /\ late' = IF timeTask = "isr" THEN late + 1 ELSE late
  /\ UNCHANGED <<toneSem, localTask, toneTask, timeTask, pipe, ref, toneVars, ToneDataLatch,
                 Forced2Fly, ServerFlyState, commands, commanded>>

\* CFE_SB_SendMsg: a message over the limit of its kind is dropped.
Sent(p, message) ==
  IF Len(SelectSeq(p, LAMBDA m : m.id = message.id)) < MsgLim THEN Append(p, message) ELSE p

Local1HzTask ==
  \/ /\ localTask = "pend" /\ localSem
     /\ localSem' = FALSE /\ localTask' = "send"
     /\ UNCHANGED pipe
  \/ /\ localTask = "send"
     /\ pipe' = Sent(pipe, [id |-> "1HZ", met |-> 0])
     /\ localTask' = "pend"
     /\ UNCHANGED localSem

Tone1HzTask ==
  \/ /\ toneTask = "pend" /\ toneSem
     /\ toneSem' = FALSE /\ toneTask' = "send"
     /\ UNCHANGED pipe
  \/ /\ toneTask = "send"
     /\ pipe' = Sent(pipe, [id |-> "SEND", met |-> 0])
     /\ toneTask' = "pend"
     /\ UNCHANGED toneSem

ChildTask ==
  /\ \/ Local1HzTask /\ UNCHANGED <<toneSem, toneTask>>
     \/ Tone1HzTask /\ UNCHANGED <<localSem, localTask>>
  /\ UNCHANGED <<now, timeTask, ref, toneVars, ToneDataLatch, Forced2Fly, ServerFlyState,
                 commands, commanded, late>>

-----------------------------------------------------------------------------
(* The Time task: CFE_TIME_TaskPipe and what it calls. *)

Receive(id) == timeTask = "pipe" /\ pipe # <<>> /\ Head(pipe).id = id

\* CFE_TIME_Local1HzStateMachine starts the flywheel when there was no update
\* for long, and in the flywheel moves the reference up from time to time;
\* it does the second only if the flywheel was on when it began.
Local1HzStateMachine ==
  LET starts == ~ref.fly /\ TimeSinceTone >= StartFly * Second
      moves == ref.fly /\ TimeSinceTone >= LatchFly * Second
  IN  /\ ref' = [met   |-> IF moves THEN CurrentMET ELSE ref.met,
                 latch |-> IF moves THEN now ELSE ref.latch,
                 fly   |-> ref.fly \/ starts]
      /\ ServerFlyState' = (ServerFlyState \/ starts)

OneHzCmd ==
  /\ Receive("1HZ")
  /\ Local1HzStateMachine
  /\ timeTask' = "isr" /\ pipe' = Tail(pipe)
  /\ late' = 0
  /\ UNCHANGED <<now, taskVars, toneVars, ToneDataLatch, Forced2Fly, commands, commanded>>

\* A tone is good when it comes a second after the one before, or nearly.
GoodTone ==
  now - ToneSignalLatch \in Second - Tolerance .. Second + Tolerance

\* The wake-up is then taken for the tone.  Only a good one is counted, and
\* announced by the tone task.
Tone1HzISR ==
  /\ timeTask = "isr"
  /\ IsToneGood' = GoodTone
  /\ VirtualMET' = IF GoodTone THEN VirtualMET + 1 ELSE VirtualMET
  /\ toneSem' = (toneSem \/ GoodTone)
  /\ ToneSignalLatch' = now
  /\ timeTask' = "pipe"
  /\ UNCHANGED <<now, localSem, localTask, toneTask, pipe, ref, Prev, ToneDataLatch,
                 Forced2Fly, ServerFlyState, commands, commanded, late>>

ToneSendCmd ==
  /\ Receive("SEND")
  /\ pipe' = Sent(Tail(pipe), [id |-> "DATA",
                               met |-> IF ref.fly THEN SecondsOf(CurrentMET) ELSE VirtualMET])
  /\ UNCHANGED <<now, taskVars, timeTask, ref, toneVars, ToneDataLatch, Forced2Fly,
                 ServerFlyState, commands, commanded, late>>

\* The arrival of the packet is latched.
ToneDataCmd ==
  /\ Receive("DATA")
  /\ ToneDataLatch' = now
  /\ timeTask' = "verify" /\ pipe' = Tail(pipe)
  /\ UNCHANGED <<now, taskVars, ref, toneVars, Forced2Fly, ServerFlyState,
                 commands, commanded, late>>

\* Mutant: a packet matches however long after the tone it comes.
Matches_late == ToneSignalLatch # Prev.tone /\ ToneDataLatch # Prev.data

\* The latches of the tone and of the packet are both new, and near enough.
Matches ==
  /\ ToneSignalLatch # Prev.tone /\ ToneDataLatch # Prev.data
  /\ ToneDataLatch - ToneSignalLatch <= MatchWindow

\* Mutant: leaving the flywheel sets the reference and forgets the count.
ToneUpdate_uncounted ==
  /\ UNCHANGED VirtualMET
  /\ ref' = [met   |-> Second * IF ref.fly THEN SecondsOf(CurrentMET) ELSE VirtualMET,
             latch |-> ToneSignalLatch, fly |-> FALSE]
  /\ ServerFlyState' = (ServerFlyState /\ ~ref.fly)
  /\ commanded' = FALSE

\* Out of the flywheel the count of tones is taken from the clock, as it is
\* now and not when the packet came.
ToneUpdate ==
  /\ VirtualMET' = IF ref.fly THEN SecondsOf(CurrentMET) ELSE VirtualMET
  /\ ref' = [met |-> VirtualMET' * Second, latch |-> ToneSignalLatch, fly |-> FALSE]
  /\ ServerFlyState' = (ServerFlyState /\ ~ref.fly)
  /\ commanded' = FALSE

\* Mutant: a match ends the flywheel although it was commanded.
ToneVerify_forced ==
  /\ timeTask = "verify"
  /\ \/ Matches /\ ToneUpdate
     \/ ~Matches /\ UNCHANGED <<VirtualMET, ref, ServerFlyState, commanded>>
  /\ Prev' = [tone |-> ToneSignalLatch, data |-> ToneDataLatch]
  /\ timeTask' = "pipe"
  /\ UNCHANGED <<now, taskVars, pipe, ToneSignalLatch, ToneDataLatch, IsToneGood, Forced2Fly,
                 commands, late>>

ToneVerify ==
  /\ timeTask = "verify"
  /\ \/ Matches /\ ~Forced2Fly /\ ToneUpdate
     \/ ~(Matches /\ ~Forced2Fly) /\ UNCHANGED <<VirtualMET, ref, ServerFlyState, commanded>>
  /\ Prev' = [tone |-> ToneSignalLatch, data |-> ToneDataLatch]
  /\ timeTask' = "pipe"
  /\ UNCHANGED <<now, taskVars, pipe, ToneSignalLatch, ToneDataLatch, IsToneGood, Forced2Fly,
                 commands, late>>

-----------------------------------------------------------------------------
(* Ground commands, handled by the Time task. *)

Command ==
  /\ timeTask = "pipe"
  /\ commands < MaxCommands
  /\ commands' = commands + 1
  /\ UNCHANGED <<now, taskVars, timeTask, pipe, ToneSignalLatch, ToneDataLatch, IsToneGood,
                 Prev, late>>

SetMET(new) ==
  /\ Command
  /\ ref' = [ref EXCEPT !.met = new, !.latch = now]
  /\ VirtualMET' = SecondsOf(new)
  /\ commanded' = TRUE
  /\ UNCHANGED <<Forced2Fly, ServerFlyState>>

SetState(new) ==
  /\ Command
  /\ Forced2Fly' = (new = "FLYWHEEL")
  /\ ref' = [ref EXCEPT !.fly = @ \/ new = "FLYWHEEL"]
  /\ ServerFlyState' = (ServerFlyState \/ new = "FLYWHEEL")
  /\ UNCHANGED <<VirtualMET, commanded>>

-----------------------------------------------------------------------------
Next ==
  \/ Tick \/ ChildTask
  \/ OneHzCmd \/ Tone1HzISR \/ ToneSendCmd \/ ToneDataCmd \/ ToneVerify
  \/ \E new \in NewMETs : SetMET(new)
  \/ \E new \in NewStates : SetState(new)

Spec == Init /\ [][Next]_vars

-----------------------------------------------------------------------------
(* Properties. *)

\* Every variable has its type.
TypeOK ==
  /\ now \in Nat /\ commands \in Nat /\ late \in Nat
  /\ localSem \in BOOLEAN /\ toneSem \in BOOLEAN
  /\ localTask \in {"pend", "send"} /\ toneTask \in {"pend", "send"}
  /\ timeTask \in {"pipe", "isr", "verify"}
  /\ pipe \in Seq(Messages)
  /\ ref \in [met : Int, latch : Int, fly : BOOLEAN]
  /\ VirtualMET \in Int /\ IsToneGood \in BOOLEAN
  /\ ToneSignalLatch \in Int /\ ToneDataLatch \in Int
  /\ Prev \in [tone : Int, data : Int]
  /\ Forced2Fly \in BOOLEAN /\ ServerFlyState \in BOOLEAN /\ commanded \in BOOLEAN

\* A server that is commanded into the flywheel stays in it, whatever tones
\* and packets were on their way, and what it reports of itself as a server
\* is its own state.
FlywheelInv ==
  TypeOK /\ (Forced2Fly => ref.fly) /\ (ServerFlyState <=> ref.fly)

\* The tones counted since the reference was set: VirtualMET beyond its MET.
Counted == VirtualMET - SecondsOf(ref.met)

\* How far it can be: the tones that fit in the time that starts the flywheel,
\* even if each comes early, one that comes while the Time task is preempted
\* after it has looked, and one that had begun when a command set the MET.
MaxCounted == IF commanded THEN StartFly + 2 ELSE StartFly + 1

\* Out of the flywheel the count of tones is never behind the MET at the tone,
\* nor more than MaxCounted ahead of it, so that packets that come late or
\* never cannot add up (cfe_time_tone.c:1126-1146, 1311-1330).
CountNearReference == ~ref.fly => Counted \in 0 .. MaxCounted

\* What the MET gains against the local clock in a step.
Gain == (ref'.met - ref'.latch) - (ref.met - ref.latch)

\* The most an update may put the MET forward.  Out of the flywheel the time at
\* the tone is the MET at the moment of the update, which is later than the
\* tone by the matching window and by how long the Time task is preempted
\* after it has latched the packet.  Otherwise it is the count of tones: each
\* of them may be early, and the one that had begun when a command set the MET
\* is a second too many.
MaxGain ==
  IF ref.fly THEN MatchWindow + (now - ToneDataLatch)
  ELSE (StartFly + 1) * Tolerance + (IF commanded THEN Second ELSE 0)

\* The most it may put it back: the time without an update that starts the
\* flywheel, and how long the Time task was preempted after it had looked.
MaxLoss == StartFly * Second + late + (IF commanded THEN Second ELSE 0)

\* No step but a command moves the MET by more, however late the packets and
\* the tasks are (cfe_time_tone.c:628-704, 876-1059).
MetStepBounded ==
  [][commands' = commands => Gain <= MaxGain /\ -Gain < MaxLoss]_vars

-----------------------------------------------------------------------------
(* The inductive invariant behind these properties. *)

\* The least time between two tones that are counted.
Early == Second - Tolerance

\* Latches are in the past, and the Time task has not moved the reference since
\* it latched the packet it works on.  Out of the flywheel every tone counted
\* since the reference was set took nearly a second, up to the latch of the
\* last one; when a command has set it, the first tone may have begun before.
CountInv ==
  /\ TypeOK
  /\ ToneSignalLatch <= now /\ ref.latch <= now /\ ToneDataLatch <= now
  /\ timeTask = "isr" => ToneSignalLatch + late <= now /\ ref.latch + late <= now
  /\ timeTask = "verify" => ref.latch <= ToneDataLatch
  /\ ~ref.fly =>
       /\ Counted \in 0 .. MaxCounted
       /\ ToneSignalLatch - ref.latch < StartFly * Second + late
       /\ timeTask = "isr" => now - late - ref.latch < StartFly * Second
       /\ commanded =>
            Counted = 0 \/ (Counted - 1) * Early <= ToneSignalLatch - ref.latch
       /\ ~commanded =>
            /\ ref.met = SecondsOf(ref.met) * Second
            /\ Counted * Early <= ToneSignalLatch - ref.latch

=============================================================================
