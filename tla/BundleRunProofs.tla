-------------------------- MODULE BundleRunProofs ---------------------------
(***************************************************************************)
(* Theorems of BundleRun: every variable keeps its type; whenever metadata *)
(* are written and cleanup reported no error, what the executor owns is    *)
(* released; daemons go before namespaces and the module; a failure leaves *)
(* an error; an accepted bundle comes from a clean run whose daemons were  *)
(* alive at the cutoff.                                                    *)
(***************************************************************************)
EXTENDS BundleRun, SequenceTheorems, TLAPS

USE DEF hostVars, execVars, dataVars, mainVars, envVars

PlanStep ==
  [kind : {"run", "discover", "wait", "delay", "require"}, what : Roles \union {"module", ""}]
  \union [kind : {"start"}, what : Daemons]

(* A function on 1..n is a sequence. *)
LEMMA IntervalSeq ==
  ASSUME NEW S, NEW n \in Nat, NEW f \in [1..n -> S]
  PROVE  f \in Seq(S) /\ Len(f) = n
  OBVIOUS

(* A literal of 1 element is a sequence. *)
LEMMA Seq1 ==
  ASSUME NEW S, NEW a \in S
  PROVE  <<a>> \in Seq(S) /\ Len(<<a>>) = 1
  OBVIOUS

(* A literal of 2 elements is a sequence. *)
LEMMA Seq2 ==
  ASSUME NEW S, NEW a \in S, NEW b \in S
  PROVE  <<a, b>> \in Seq(S) /\ Len(<<a, b>>) = 2
  OBVIOUS

(* A literal of 4 elements is a sequence. *)
LEMMA Seq4 ==
  ASSUME NEW S, NEW a \in S, NEW b \in S, NEW c \in S, NEW d \in S
  PROVE  <<a, b, c, d>> \in Seq(S) /\ Len(<<a, b, c, d>>) = 4
  OBVIOUS

(* A literal of 6 elements is a sequence. *)
LEMMA Seq6 ==
  ASSUME NEW S, NEW a \in S, NEW b \in S, NEW c \in S, NEW d \in S, NEW e \in S, NEW f \in S
  PROVE  <<a, b, c, d, e, f>> \in Seq(S) /\ Len(<<a, b, c, d, e, f>>) = 6
  OBVIOUS

(* A plan is a sequence of steps that start nothing but daemons. *)
LEMMA PlanType == Plan \in Seq(PlanStep)
<1> DEFINE Run(what)   == [kind |-> "run", what |-> what]
           Start(what) == [kind |-> "start", what |-> what]
           Step(kind)  == [kind |-> kind, what |-> ""]
           a == <<Run("module"), Step("discover"), Run("ap"), Run("sta"), Run("occ"), Start("tcpdump")>>
           b == IF class = "dhcp_no_server" THEN <<>> ELSE <<Start("dhcp_server")>>
           c == <<Start("hostapd"), Step("wait")>>
           d == IF class = "ap_full" THEN <<Start("occupant"), Step("wait")>> ELSE <<>>
           e == <<Start("wpa_supplicant"), Start("dhcp_client")>>
           f == IF class = "ap_deauth" THEN <<Step("wait"), Step("require")>> ELSE <<>>
           g == <<Step("delay")>>
<1>1. /\ \A what \in Roles \union {"module"} : Run(what) \in PlanStep
      /\ \A kind \in {"discover", "wait", "delay", "require"} : Step(kind) \in PlanStep
      /\ \A what \in Daemons : Start(what) \in PlanStep
  BY DEF PlanStep
<1> HIDE DEF Run, Start, Step
<1>2. a \in Seq(PlanStep)
  <2>1. /\ Run("module") \in PlanStep /\ Step("discover") \in PlanStep
        /\ Run("ap") \in PlanStep /\ Run("sta") \in PlanStep /\ Run("occ") \in PlanStep
        /\ Start("tcpdump") \in PlanStep
    BY <1>1 DEF Daemons, Roles
  <2> QED
    BY <2>1, Seq6
<1>3. /\ b \in Seq(PlanStep) /\ c \in Seq(PlanStep) /\ d \in Seq(PlanStep)
      /\ e \in Seq(PlanStep) /\ f \in Seq(PlanStep) /\ g \in Seq(PlanStep)
  <2>1. /\ Step("wait") \in PlanStep /\ Step("require") \in PlanStep /\ Step("delay") \in PlanStep
        /\ Start("dhcp_server") \in PlanStep /\ Start("hostapd") \in PlanStep
        /\ Start("occupant") \in PlanStep /\ Start("wpa_supplicant") \in PlanStep
        /\ Start("dhcp_client") \in PlanStep
    BY <1>1 DEF Daemons
  <2>2. <<>> \in Seq(PlanStep)
    BY EmptySeq
  <2>3. b \in Seq(PlanStep) /\ g \in Seq(PlanStep)
    BY <2>1, <2>2, Seq1
  <2> QED
    BY <2>1, <2>2, <2>3, Seq2
<1>4. Plan = a \o b \o c \o d \o e \o f \o g
  BY DEF Plan, Run, Start, Step
<1> HIDE DEF a, b, c, d, e, f, g
<1>5. a \o b \o c \in Seq(PlanStep)
  BY <1>2, <1>3, ConcatProperties
<1>6. a \o b \o c \o d \o e \in Seq(PlanStep)
  BY <1>5, <1>3, ConcatProperties
<1>7. a \o b \o c \o d \o e \o f \o g \in Seq(PlanStep)
  BY <1>6, <1>3, ConcatProperties
<1> QED
  BY <1>4, <1>7

(* The plan is that of the class, which does not change. *)
LEMMA PlanStays == class' = class => Plan' = Plan
  BY DEF Plan

(* A start step in the plan starts a daemon. *)
LEMMA StartsDaemon ==
  ASSUME TypeOK, At("start")
  PROVE  Plan[step + 1].what \in Daemons
<1>1. step + 1 \in 1..Len(Plan)
  BY PlanType, LenProperties DEF TypeOK, At
<1>2. Plan[step + 1] \in PlanStep
  BY <1>1, PlanType, ElementOfSeq
<1> QED
  BY <1>2 DEF At, PlanStep

(* The cleanup tasks: one kill for each daemon of the list, and after      *)
(* them the four of the host.                                              *)
LEMMA TaskList ==
  ASSUME started \in Seq(Daemons)
  PROVE  /\ Len(started) \in Nat
         /\ Len(Tasks) = Len(started) + 4
         /\ \A i \in 1..Len(started) :
              Tasks[i] = [kind |-> "kill", what |-> started[(Len(started) - i) + 1]]
         /\ \A i \in 1..4 : Tasks[Len(started) + i] = HostTasks[i]
<1> DEFINE Task == [kind : {"kill", "delete", "unload"}, what : Daemons \union Roles \union {"module"}]
<1>1. Len(started) \in Nat /\ \A i \in 1..Len(started) : started[i] \in Daemons
  BY LenProperties, ElementOfSeq
<1>2. KillTasks = [i \in 1..Len(started) |->
                     [kind |-> "kill", what |-> started[(Len(started) - i) + 1]]]
  BY <1>1 DEF KillTasks, Reverse
<1>3. KillTasks \in Seq(Task) /\ Len(KillTasks) = Len(started)
  <2>1. \A i \in 1..Len(started) : [kind |-> "kill", what |-> started[(Len(started) - i) + 1]] \in Task
    BY <1>1
  <2> HIDE DEF Task
  <2>2. KillTasks \in [1..Len(started) -> Task]
    BY <1>1, <1>2, <2>1
  <2> QED
    BY <1>1, <2>2, IntervalSeq
<1>4. HostTasks \in Seq(Task) /\ Len(HostTasks) = 4
  <2> DEFINE Delete_(role) == [kind |-> "delete", what |-> role]
             Unload_ == [kind |-> "unload", what |-> "module"]
  <2>1. /\ Delete_("occ") \in Task /\ Delete_("sta") \in Task /\ Delete_("ap") \in Task
        /\ Unload_ \in Task
    BY DEF Roles
  <2>2. HostTasks = <<Delete_("occ"), Delete_("sta"), Delete_("ap"), Unload_>>
    BY DEF HostTasks
  <2> HIDE DEF Delete_, Unload_, Task
  <2> QED
    BY <2>1, <2>2, Seq4
<1> HIDE DEF Task
<1>5. Len(Tasks) = Len(KillTasks) + Len(HostTasks)
  BY <1>3, <1>4, ConcatProperties DEF Tasks
<1>6. \A i \in 1..(Len(KillTasks) + Len(HostTasks)) :
        Tasks[i] = IF i <= Len(KillTasks) THEN KillTasks[i] ELSE HostTasks[i - Len(KillTasks)]
  <2>1. KillTasks \in Seq(Task) /\ HostTasks \in Seq(Task)
    BY <1>3, <1>4
  <2> QED
    BY <2>1, ConcatProperties DEF Tasks
<1>7. ASSUME NEW i \in 1..Len(started)
      PROVE  Tasks[i] = [kind |-> "kill", what |-> started[(Len(started) - i) + 1]]
  <2>1. Tasks[i] = KillTasks[i]
    BY <1>1, <1>3, <1>4, <1>6
  <2> QED
    BY <1>2, <2>1
<1>8. ASSUME NEW i \in 1..4
      PROVE  Tasks[Len(started) + i] = HostTasks[i]
  <2>1. /\ Len(started) + i \in 1..(Len(KillTasks) + Len(HostTasks))
        /\ ~ (Len(started) + i <= Len(KillTasks)) /\ (Len(started) + i) - Len(KillTasks) = i
    BY <1>1, <1>3, <1>4
  <2> QED
    BY <1>6, <2>1
<1> QED
  BY <1>1, <1>3, <1>4, <1>5, <1>7, <1>8

(* The tasks are those of the list of daemons, which cleanup leaves alone. *)
LEMMA TasksStay == started' = started => Tasks' = Tasks
  BY DEF Tasks, KillTasks, HostTasks, Reverse

-----------------------------------------------------------------------------
(* The program starts with every variable in its type. *)
LEMMA BundleTypeInit == Init => TypeOK
<1> SUFFICES ASSUME Init PROVE TypeOK
  OBVIOUS
<1>1. Len(Plan) \in Nat
  BY PlanType, LenProperties
<1>2. started \in Seq(Daemons) /\ Len(started) = 0
  BY EmptySeq DEF Init
<1>3. class \in Classes /\ step \in 0..Len(Plan) /\ task \in 0..(Len(started) + 4)
  BY <1>1, <1>2 DEF Init
<1>4. interrupts \in 0..MaxInterrupts
  BY BoundAssumption DEF Init
<1>5. /\ running \in SUBSET Daemons /\ atCutoff \in SUBSET Daemons
      /\ netns \in SUBSET Roles /\ owned \in SUBSET Roles
  BY DEF Init
<1>6. meta \in {NoMeta, "accepted", "quarantined"}
  BY DEF Init
<1> QED
  BY <1>2, <1>3, <1>4, <1>5, <1>6 DEF Init, TypeOK

(* No action takes a variable out of its type. *)
LEMMA BundleTypeStep == TypeOK /\ [Next]_vars => TypeOK'
<1> SUFFICES ASSUME TypeOK, [Next]_vars PROVE TypeOK'
  OBVIOUS
<1>1. Len(Plan) \in Nat /\ Len(started) \in Nat
  BY PlanType, LenProperties DEF TypeOK
<1>3. Len(Tasks) = Len(started) + 4
  BY TaskList DEF TypeOK
<1>4. ASSUME class' = class PROVE Plan' = Plan
  BY <1>4, PlanStays
<1> USE DEF TypeOK, NoMeta
<1>5. CASE RunSucceeds
  <2>1. step + 1 \in 0..Len(Plan)
    BY <1>1, <1>5 DEF RunSucceeds, At
  <2> QED
    BY <1>1, <1>4, <1>5, <2>1 DEF RunSucceeds, Advance, Effect
<1>6. CASE QuietStepSucceeds
  <2>1. step + 1 \in 0..Len(Plan)
    BY <1>1, <1>6 DEF QuietStepSucceeds, At
  <2> QED
    BY <1>1, <1>4, <1>6, <2>1 DEF QuietStepSucceeds, Advance
<1>7. CASE StartSucceeds
  <2>1. step + 1 \in 0..Len(Plan)
    BY <1>1, <1>7 DEF StartSucceeds, At
  <2>2. Plan[step + 1].what \in Daemons
    BY <1>7, StartsDaemon DEF StartSucceeds
  <2>3. started' \in Seq(Daemons) /\ Len(started') = Len(started) + 1
    BY <1>7, <2>2, AppendProperties DEF StartSucceeds
  <2> QED
    BY <1>1, <1>4, <1>7, <2>1, <2>2, <2>3 DEF StartSucceeds, Advance
<1>8. CASE RunTimesOutAfterEffect
  BY <1>1, <1>4, <1>8 DEF RunTimesOutAfterEffect, PlanFails, Effect
<1>9. CASE StepFails
  BY <1>1, <1>4, <1>9 DEF StepFails, PlanFails
<1>10. CASE PlanSucceeds
  BY <1>1, <1>4, <1>10, ZenonT(30) DEF PlanSucceeds
<1>11. CASE TakeCutoff
  BY <1>1, <1>4, <1>11 DEF TakeCutoff
<1>12. CASE Seal
  BY <1>1, <1>4, <1>12 DEF Seal
<1>13. CASE SealFails
  BY <1>1, <1>4, <1>13, ZenonT(30) DEF SealFails
<1>14. CASE Verify
  BY <1>1, <1>4, <1>14, ZenonT(30) DEF Verify
<1>15. CASE Observe
  BY <1>1, <1>4, <1>15 DEF Observe
<1>16. CASE Kill
  <2>1. task + 1 \in 0..(Len(started) + 4)
    BY <1>1, <1>3, <1>16 DEF Kill, Doing
  <2>2. running' \in SUBSET Daemons /\ cleanupError' \in BOOLEAN
    BY <1>16 DEF Kill
  <2> QED
    BY <1>1, <1>4, <1>16, <2>1, <2>2 DEF Kill, Doing
<1>17. CASE Delete
  <2>1. task + 1 \in 0..(Len(started) + 4)
    BY <1>1, <1>3, <1>17 DEF Delete, Doing
  <2>2. netns' \in SUBSET Roles /\ cleanupError' \in BOOLEAN
    BY <1>17 DEF Delete
  <2>3. running' = running /\ module' = module
    BY <1>17 DEF Delete
  <2> QED
    BY <1>1, <1>4, <1>17, <2>1, <2>2, <2>3 DEF Delete, Doing
<1>18. CASE Unload
  <2>1. task + 1 \in 0..(Len(started) + 4)
    BY <1>1, <1>3, <1>18 DEF Unload, Doing
  <2> QED
    BY <1>1, <1>4, <1>18, <2>1, ZenonT(30) DEF Unload, Doing
<1>19. CASE CleanupEnds
  BY <1>1, <1>4, <1>19, ZenonT(30) DEF CleanupEnds
<1>20. CASE Finalize
  BY <1>1, <1>4, <1>20 DEF Finalize
<1>21. CASE FinalizeRaises
  BY <1>1, <1>4, <1>21 DEF FinalizeRaises
<1>22. CASE DeadlinePasses
  BY <1>1, <1>4, <1>22 DEF DeadlinePasses
<1>23. ASSUME NEW p \in Daemons, Exit(p) PROVE TypeOK'
  BY <1>1, <1>4, <1>23 DEF Exit
<1>24. CASE InterruptPlan
  <2>1. interrupts' \in 0..MaxInterrupts
    BY <1>24, BoundAssumption DEF InterruptPlan, CountInterrupt
  <2>2. At("start") => Plan[step + 1].what \in Daemons
    BY StartsDaemon
  <2> QED
    BY <1>1, <1>4, <1>24, <2>1, <2>2, ZenonT(30) DEF InterruptPlan, Effect
<1>25. CASE InterruptClosing
  <2>1. interrupts' \in 0..MaxInterrupts
    BY <1>25, BoundAssumption DEF InterruptClosing, CountInterrupt
  <2> QED
    BY <1>1, <1>4, <1>25, <2>1 DEF InterruptClosing
<1>26. CASE InterruptEnd
  <2>1. interrupts' \in 0..MaxInterrupts
    BY <1>26, BoundAssumption DEF InterruptEnd, CountInterrupt
  <2> QED
    BY <1>1, <1>4, <1>26, <2>1 DEF InterruptEnd
<1>27. CASE UNCHANGED vars
  BY <1>1, <1>4, <1>27 DEF vars
<1> QED
  BY <1>5, <1>6, <1>7, <1>8, <1>9, <1>10, <1>11, <1>12, <1>13, <1>14, <1>15, <1>16, <1>17, <1>18, <1>19, <1>20, <1>21, <1>22, <1>23, <1>24, <1>25, <1>26, <1>27 DEF Next, Harness, Finished

(* Every variable keeps its type: the plan is never overrun, what runs is  *)
(* a daemon, and no more tasks are done than there are.                    *)
THEOREM BundleTypeCorrect == Spec => []TypeOK
  BY BundleTypeInit, BundleTypeStep, PTL DEF Spec

-----------------------------------------------------------------------------
(* What makes OwnedIsReleased inductive.  Cleanup has not begun before the *)
(* observation is over, it is complete when the metadata are written, and  *)
(* as long as it has kept no error each task that is done has released     *)
(* what it is for, which nothing brings back: only the plan starts things. *)

Before == {"plan", "close", "seal", "verify", "observe"}

CleanupInOrder ==
  /\ phase \in Before => task = 0 /\ ~ cleanupError
  /\ phase = "finalize" => task = Len(started) + 4
  /\ meta # NoMeta => phase \in {"returned", "raised"} /\ task = Len(started) + 4

KilledSoFar ==
  \A i \in 1..Len(started) : i <= task => started[(Len(started) - i) + 1] \notin running

ReleasedSoFar ==
  /\ Len(started) + 1 <= task => "occ" \notin netns \intersect owned
  /\ Len(started) + 2 <= task => "sta" \notin netns \intersect owned
  /\ Len(started) + 3 <= task => "ap" \notin netns \intersect owned
  /\ Len(started) + 4 <= task => (loaded => ~ module)

OwnedInv ==
  /\ TypeOK
  /\ CleanupInOrder
  /\ ~ cleanupError => KilledSoFar /\ ReleasedSoFar

(* What the next task is says how far cleanup has come. *)
LEMMA NextTask ==
  ASSUME TypeOK, task < Len(Tasks)
  PROVE  LET next == Tasks[task + 1] IN
         /\ next.kind = "kill" =>
              task + 1 \in 1..Len(started) /\ next.what = started[Len(started) - task]
         /\ next.kind = "delete" =>
              \/ task = Len(started) /\ next.what = "occ"
              \/ task = Len(started) + 1 /\ next.what = "sta"
              \/ task = Len(started) + 2 /\ next.what = "ap"
         /\ next.kind = "unload" => task = Len(started) + 3
<1>1. /\ started \in Seq(Daemons) /\ task \in Nat
  BY TaskList DEF TypeOK
<1>2. Len(started) \in Nat /\ task < Len(started) + 4
  BY <1>1, TaskList
<1>3. CASE task < Len(started)
  <2>1. task + 1 \in 1..Len(started) /\ (Len(started) - (task + 1)) + 1 = Len(started) - task
    BY <1>1, <1>2, <1>3
  <2>2. Tasks[task + 1] = [kind |-> "kill", what |-> started[(Len(started) - (task + 1)) + 1]]
    BY <1>1, <2>1, TaskList
  <2> QED
    BY <2>1, <2>2
<1>4. CASE task >= Len(started)
  <2>1. task = Len(started) \/ task = Len(started) + 1 \/ task = Len(started) + 2
        \/ task = Len(started) + 3
    BY <1>1, <1>2, <1>4
  <2>2. /\ Tasks[Len(started) + 1] = HostTasks[1] /\ Tasks[Len(started) + 2] = HostTasks[2]
        /\ Tasks[Len(started) + 3] = HostTasks[3] /\ Tasks[Len(started) + 4] = HostTasks[4]
    BY <1>1, TaskList
  <2>3. /\ HostTasks[1] = [kind |-> "delete", what |-> "occ"]
        /\ HostTasks[2] = [kind |-> "delete", what |-> "sta"]
        /\ HostTasks[3] = [kind |-> "delete", what |-> "ap"]
        /\ HostTasks[4] = [kind |-> "unload", what |-> "module"]
    BY DEF HostTasks
  <2>4. CASE task = Len(started)
    BY <2>2, <2>3, <2>4
  <2>5. CASE task = Len(started) + 1
    <3>1. task + 1 = Len(started) + 2
      BY <1>2, <2>5
    <3> QED
      BY <2>2, <2>3, <2>5, <3>1
  <2>6. CASE task = Len(started) + 2
    <3>1. task + 1 = Len(started) + 3
      BY <1>2, <2>6
    <3> QED
      BY <2>2, <2>3, <2>6, <3>1
  <2>7. CASE task = Len(started) + 3
    <3>1. task + 1 = Len(started) + 4
      BY <1>2, <2>7
    <3> QED
      BY <2>2, <2>3, <2>7, <3>1
  <2> QED
    BY <2>1, <2>4, <2>5, <2>6, <2>7
<1> QED
  BY <1>1, <1>2, <1>3, <1>4

(* Once a delete or the unload is next, every daemon of the list has had   *)
(* its kill.                                                               *)
LEMMA AllKilled ==
  ASSUME OwnedInv, ~ cleanupError, task >= Len(started)
  PROVE  running \intersect Launched = {}
<1>1. /\ started \in Seq(Daemons) /\ Len(started) \in Nat /\ task \in Nat /\ KilledSoFar
  BY TaskList DEF OwnedInv, TypeOK
<1>2. Launched = {started[i] : i \in 1..Len(started)}
  BY <1>1, LenProperties DEF Launched, ToSet
<1>3. ASSUME NEW j \in 1..Len(started)
      PROVE  started[j] \notin running
  <2>1. /\ (Len(started) - j) + 1 \in 1..Len(started) /\ (Len(started) - j) + 1 <= task
        /\ (Len(started) - ((Len(started) - j) + 1)) + 1 = j
    BY <1>1
  <2> QED
    BY <1>1, <2>1 DEF KilledSoFar
<1> QED
  BY <1>2, <1>3

(* The order of cleanup is kept by every step. *)
LEMMA OrderStep == OwnedInv /\ [Next]_vars => CleanupInOrder'
<1> SUFFICES ASSUME OwnedInv, [Next]_vars PROVE CleanupInOrder'
  OBVIOUS
<1>1. Len(started) \in Nat /\ Len(Tasks) = Len(started) + 4 /\ task \in 0..(Len(started) + 4)
  BY TaskList DEF OwnedInv, TypeOK
<1>2. /\ phase \in Before => task = 0 /\ ~ cleanupError
      /\ phase = "finalize" => task = Len(started) + 4
      /\ meta # NoMeta => phase \in {"returned", "raised"} /\ task = Len(started) + 4
  BY DEF OwnedInv, CleanupInOrder
<1> USE DEF CleanupInOrder, Before
<1>3. CASE RunSucceeds
  BY <1>1, <1>2, <1>3 DEF RunSucceeds, At, Advance
<1>4. CASE QuietStepSucceeds
  BY <1>1, <1>2, <1>4 DEF QuietStepSucceeds, At, Advance
<1>5. CASE StartSucceeds
  BY <1>1, <1>2, <1>5 DEF StartSucceeds, At, Advance
<1>6. CASE RunTimesOutAfterEffect
  BY <1>1, <1>2, <1>6 DEF RunTimesOutAfterEffect, PlanFails, At
<1>7. CASE StepFails
  BY <1>1, <1>2, <1>7 DEF StepFails, PlanFails
<1>8. CASE PlanSucceeds
  BY <1>1, <1>2, <1>8 DEF PlanSucceeds
<1>9. CASE TakeCutoff
  BY <1>1, <1>2, <1>9 DEF TakeCutoff
<1>10. CASE Seal
  BY <1>1, <1>2, <1>10 DEF Seal
<1>11. CASE SealFails
  BY <1>1, <1>2, <1>11 DEF SealFails
<1>12. CASE Verify
  BY <1>1, <1>2, <1>12 DEF Verify
<1>13. CASE Observe
  BY <1>1, <1>2, <1>13 DEF Observe
<1>14. CASE Kill
  BY <1>1, <1>2, <1>14 DEF Kill, Doing
<1>15. CASE Delete
  BY <1>1, <1>2, <1>15 DEF Delete, Doing
<1>16. CASE Unload
  BY <1>1, <1>2, <1>16 DEF Unload, Doing
<1>17. CASE CleanupEnds
  BY <1>1, <1>2, <1>17 DEF CleanupEnds
<1>18. CASE Finalize
  BY <1>1, <1>2, <1>18 DEF Finalize
<1>19. CASE FinalizeRaises
  BY <1>1, <1>2, <1>19 DEF FinalizeRaises
<1>20. CASE DeadlinePasses
  BY <1>1, <1>2, <1>20 DEF DeadlinePasses
<1>21. CASE \E p \in Daemons : Exit(p)
  BY <1>1, <1>2, <1>21 DEF Exit
<1>22. CASE InterruptPlan
  BY <1>1, <1>2, <1>22 DEF InterruptPlan
<1>23. CASE InterruptClosing
  BY <1>1, <1>2, <1>23 DEF InterruptClosing
<1>24. CASE InterruptEnd
  BY <1>1, <1>2, <1>24 DEF InterruptEnd
<1>25. CASE UNCHANGED vars
  BY <1>1, <1>2, <1>25 DEF vars
<1> QED
  BY <1>3, <1>4, <1>5, <1>6, <1>7, <1>8, <1>9, <1>10, <1>11, <1>12, <1>13, <1>14, <1>15, <1>16, <1>17, <1>18, <1>19, <1>20, <1>21, <1>22, <1>23, <1>24, <1>25 DEF Next, Harness, Finished

(* Nothing released comes back while the tasks stay as they are. *)
LEMMA StaysReleased ==
  ASSUME OwnedInv, UNCHANGED <<started, owned, loaded, netns, module, task>>,
         running' \subseteq running, cleanupError' = cleanupError
  PROVE  ~ cleanupError' => KilledSoFar' /\ ReleasedSoFar'
  BY DEF OwnedInv, KilledSoFar, ReleasedSoFar

(* Before cleanup there is nothing that must have been released. *)
LEMMA NothingDueYet ==
  ASSUME OwnedInv, task' = 0, Len(started') \in Nat
  PROVE  KilledSoFar' /\ ReleasedSoFar'
  BY DEF KilledSoFar, ReleasedSoFar

(* Every task releases what it is for, or keeps an error. *)
LEMMA ReleaseStep ==
  OwnedInv /\ [Next]_vars => (~ cleanupError' => KilledSoFar' /\ ReleasedSoFar')
<1> SUFFICES ASSUME OwnedInv, [Next]_vars
             PROVE  ~ cleanupError' => KilledSoFar' /\ ReleasedSoFar'
  OBVIOUS
<1>1. /\ TypeOK /\ Len(started) \in Nat /\ task \in 0..(Len(started) + 4)
      /\ phase = "plan" => task = 0
  BY TaskList DEF OwnedInv, TypeOK, CleanupInOrder, Before
<1>2. Len(started') \in Nat
  <2>1. TypeOK'
    BY <1>1, BundleTypeStep
  <2>2. started' \in Seq(Daemons)
    BY <2>1 DEF TypeOK
  <2> QED
    BY <2>2, LenProperties
<1>3. CASE RunSucceeds \/ QuietStepSucceeds \/ StartSucceeds
  <2>1. task' = 0
    BY <1>1, <1>3 DEF RunSucceeds, QuietStepSucceeds, StartSucceeds, At
  <2> QED
    BY <1>2, <2>1, NothingDueYet
<1>4. CASE RunTimesOutAfterEffect \/ StepFails \/ PlanSucceeds \/ InterruptPlan
  <2>1. task' = 0
    BY <1>1, <1>4 DEF RunTimesOutAfterEffect, StepFails, PlanSucceeds, InterruptPlan, PlanFails, At
  <2> QED
    BY <1>2, <2>1, NothingDueYet
<1>5. CASE TakeCutoff \/ Seal \/ SealFails \/ Verify \/ Observe
  <2>1. /\ UNCHANGED <<started, owned, loaded, netns, module, task, cleanupError>>
        /\ running' \subseteq running
    BY <1>5 DEF TakeCutoff, Seal, SealFails, Verify, Observe
  <2> QED
    BY <2>1, StaysReleased
<1>6. CASE Kill
  <2>1. /\ UNCHANGED <<started, owned, loaded, netns, module>> /\ task' = task + 1
        /\ task < Len(Tasks) /\ Tasks[task + 1].kind = "kill"
    BY <1>6 DEF Kill, Doing
  <2>2. task + 1 \in 1..Len(started) /\ Tasks[task + 1].what = started[Len(started) - task]
    BY <1>1, <2>1, NextTask
  <2> SUFFICES ASSUME ~ cleanupError' PROVE KilledSoFar' /\ ReleasedSoFar'
    OBVIOUS
  <2>3. ~ cleanupError /\ running' = running \ {started[Len(started) - task]}
    <3>1. /\ cleanupError' \in {cleanupError, TRUE}
          /\ running' = running \ {Tasks[task + 1].what}
      BY <1>6, Zenon DEF Kill
    <3>2. ~ cleanupError
      BY <3>1, Zenon
    <3> QED
      BY <2>2, <3>1, <3>2
  <2>4. KilledSoFar
    BY <2>3 DEF OwnedInv
  <2>5. ASSUME NEW i \in 1..Len(started), i <= task + 1
        PROVE  started[(Len(started) - i) + 1] \notin running'
    <3>1. CASE i <= task
      BY <2>3, <2>4, <3>1 DEF KilledSoFar
    <3>2. CASE i = task + 1
      <4>1. (Len(started) - i) + 1 = Len(started) - task
        BY <1>1, <3>2
      <4> QED
        BY <2>3, <4>1
    <3> QED
      BY <1>1, <2>5, <3>1, <3>2
  <2>6. ReleasedSoFar'
    BY <1>1, <2>1, <2>2 DEF ReleasedSoFar
  <2> QED
    BY <2>1, <2>5, <2>6 DEF KilledSoFar
<1>7. CASE Delete
  <2> DEFINE role == Tasks[task + 1].what
  <2>1. /\ UNCHANGED <<started, owned, loaded, running, module>> /\ task' = task + 1
        /\ task < Len(Tasks) /\ Tasks[task + 1].kind = "delete"
    BY <1>7 DEF Delete, Doing
  <2>2. \/ task = Len(started) /\ role = "occ"
        \/ task = Len(started) + 1 /\ role = "sta"
        \/ task = Len(started) + 2 /\ role = "ap"
    BY <1>1, <2>1, NextTask
  <2> SUFFICES ASSUME ~ cleanupError' PROVE KilledSoFar' /\ ReleasedSoFar'
    OBVIOUS
  <2>3. /\ ~ cleanupError /\ netns' \subseteq netns /\ role \notin netns' \intersect owned
    BY <1>7 DEF Delete
  <2> HIDE DEF role
  <2>4. KilledSoFar /\ ReleasedSoFar
    BY <2>3 DEF OwnedInv
  <2>5. KilledSoFar'
    BY <1>1, <2>1, <2>2, <2>4 DEF KilledSoFar
  <2>6. ReleasedSoFar'
    BY <1>1, <2>1, <2>2, <2>3, <2>4 DEF ReleasedSoFar
  <2> QED
    BY <2>5, <2>6
<1>8. CASE Unload
  <2>1. /\ UNCHANGED <<started, owned, loaded, running, netns>> /\ task' = task + 1
        /\ task < Len(Tasks) /\ Tasks[task + 1].kind = "unload"
    BY <1>8 DEF Unload, Doing
  <2>2. task = Len(started) + 3
    BY <1>1, <2>1, NextTask
  <2> SUFFICES ASSUME ~ cleanupError' PROVE KilledSoFar' /\ ReleasedSoFar'
    OBVIOUS
  <2>3. ~ cleanupError /\ (loaded => ~ module')
    BY <1>8 DEF Unload
  <2>4. KilledSoFar /\ ReleasedSoFar
    BY <2>3 DEF OwnedInv
  <2>5. KilledSoFar'
    BY <1>1, <2>1, <2>2, <2>4 DEF KilledSoFar
  <2>6. ReleasedSoFar'
    BY <1>1, <2>1, <2>2, <2>3, <2>4 DEF ReleasedSoFar
  <2> QED
    BY <2>5, <2>6
<1>9. CASE CleanupEnds \/ Finalize \/ FinalizeRaises \/ DeadlinePasses
  <2>1. UNCHANGED <<started, owned, loaded, netns, module, task, cleanupError, running>>
    BY <1>9 DEF CleanupEnds, Finalize, FinalizeRaises, DeadlinePasses
  <2> QED
    BY <2>1, StaysReleased
<1>10. CASE \E p \in Daemons : Exit(p)
  <2>1. /\ UNCHANGED <<started, owned, loaded, netns, module, task, cleanupError>>
        /\ running' \subseteq running
    BY <1>10 DEF Exit
  <2> QED
    BY <2>1, StaysReleased
<1>11. CASE InterruptClosing \/ InterruptEnd \/ UNCHANGED vars
  <2>1. UNCHANGED <<started, owned, loaded, netns, module, task, cleanupError, running>>
    BY <1>11 DEF InterruptClosing, InterruptEnd, vars
  <2> QED
    BY <2>1, StaysReleased
<1> QED
  BY <1>3, <1>4, <1>5, <1>6, <1>7, <1>8, <1>9, <1>10, <1>11 DEF Next, Harness, Finished

(* OwnedInv is an invariant. *)
LEMMA OwnedInvariant == Spec => []OwnedInv
<1>1. Init => OwnedInv
  <2> SUFFICES ASSUME Init PROVE OwnedInv
    OBVIOUS
  <2>1. TypeOK
    BY BundleTypeInit
  <2>2. Len(started) = 0 /\ task = 0
    BY EmptySeq DEF Init
  <2>3. CleanupInOrder
    BY DEF Init, CleanupInOrder, Before
  <2>4. KilledSoFar /\ ReleasedSoFar
    BY <2>2 DEF KilledSoFar, ReleasedSoFar
  <2> QED
    BY <2>1, <2>3, <2>4 DEF OwnedInv
<1>2. OwnedInv /\ [Next]_vars => OwnedInv'
  BY BundleTypeStep, OrderStep, ReleaseStep DEF OwnedInv
<1> QED
  BY <1>1, <1>2, PTL DEF Spec

(* Whenever metadata are written and cleanup has reported no error, every  *)
(* daemon, namespace and module that the executor knew of is released, for *)
(* every class, every end of the plan and any number of interrupts.        *)
THEOREM OwnedReleased == Spec => []OwnedIsReleased
<1>1. OwnedInv => OwnedIsReleased
  <2> SUFFICES ASSUME OwnedInv, meta # NoMeta, ~ cleanupError
               PROVE  /\ running \intersect Launched = {}
                      /\ netns \intersect owned = {}
                      /\ loaded => ~ module
    BY DEF OwnedIsReleased
  <2>1. Len(started) \in Nat /\ netns \subseteq Roles
    BY TaskList DEF OwnedInv, TypeOK
  <2>2. task = Len(started) + 4 /\ ReleasedSoFar
    BY DEF OwnedInv, CleanupInOrder
  <2>3. running \intersect Launched = {}
    BY <2>1, <2>2, AllKilled
  <2>4. /\ "occ" \notin netns \intersect owned /\ "sta" \notin netns \intersect owned
        /\ "ap" \notin netns \intersect owned /\ (loaded => ~ module)
    BY <2>1, <2>2 DEF ReleasedSoFar
  <2> QED
    BY <2>1, <2>3, <2>4 DEF Roles
<1> QED
  BY <1>1, OwnedInvariant, PTL

(* A step that takes a namespace or the module away comes when every       *)
(* listed daemon is dead.                                                  *)
LEMMA HostTasksLast ==
  ASSUME OwnedInv, [Next]_vars, ~ cleanupError,
         ~ (netns \subseteq netns') \/ (module /\ ~ module')
  PROVE  running \intersect Launched = {}
<1>1. Delete \/ Unload
  <2>1. CASE RunSucceeds \/ RunTimesOutAfterEffect
    BY <2>1 DEF RunSucceeds, RunTimesOutAfterEffect, Effect
  <2>2. CASE StartSucceeds \/ QuietStepSucceeds
    BY <2>2 DEF StartSucceeds, QuietStepSucceeds
  <2>3. CASE StepFails \/ PlanSucceeds
    BY <2>3 DEF StepFails, PlanSucceeds
  <2>4. CASE TakeCutoff \/ Seal \/ SealFails \/ Verify \/ Observe
    BY <2>4 DEF TakeCutoff, Seal, SealFails, Verify, Observe
  <2>5. CASE Kill \/ CleanupEnds \/ Finalize \/ FinalizeRaises
    BY <2>5 DEF Kill, CleanupEnds, Finalize, FinalizeRaises
  <2>6. CASE DeadlinePasses \/ \E p \in Daemons : Exit(p)
    BY <2>6 DEF DeadlinePasses, Exit
  <2>7. CASE InterruptPlan
    <3>1. netns \subseteq netns'
      BY <2>7 DEF InterruptPlan, Effect
    <3>2. module => module'
      BY <2>7, Zenon DEF InterruptPlan, Effect
    <3> QED
      BY <3>1, <3>2
  <2>8. CASE InterruptClosing \/ InterruptEnd \/ UNCHANGED vars
    BY <2>8 DEF InterruptClosing, InterruptEnd, vars
  <2> QED
    BY <2>1, <2>2, <2>3, <2>4, <2>5, <2>6, <2>7, <2>8 DEF Next, Harness, Finished
<1>2. /\ task < Len(Tasks) /\ task \in Nat /\ Len(started) \in Nat
      /\ Tasks[task + 1].kind \in {"delete", "unload"}
  BY <1>1, TaskList DEF Delete, Unload, Doing, OwnedInv, TypeOK
<1>3. task >= Len(started)
  BY <1>2, NextTask DEF OwnedInv
<1> QED
  BY <1>3, AllKilled

(* While a listed daemon is alive no namespace goes away and the module    *)
(* stays, unless a kill has failed: cleanup reaches the host's tasks only  *)
(* behind every kill.                                                      *)
THEOREM DaemonsDieFirst == Spec => DaemonsGoFirst
<1>1. OwnedInv /\ [Next]_vars =>
        [~ (netns \subseteq netns') \/ (module /\ ~ module')
           => running \intersect Launched = {} \/ cleanupError]_vars
  BY HostTasksLast
<1> QED
  BY <1>1, OwnedInvariant, PTL DEF Spec, DaemonsGoFirst

-----------------------------------------------------------------------------
(* Until the plan has ended nothing is decided; from then on a run that is *)
(* not ok has an error to tell.                                            *)

ErrorIsKept ==
  /\ phase = "plan" => ~ ok /\ raising = "no"
  /\ phase \in {"close", "seal", "verify", "observe", "cleanup", "finalize"} => ok \/ error

(* Every step that clears the status, or ends the plan without one, leaves *)
(* an error.                                                               *)
LEMMA ErrorStep == TypeOK /\ ErrorIsKept /\ [Next]_vars => ErrorIsKept'
<1> SUFFICES ASSUME TypeOK, ErrorIsKept, [Next]_vars PROVE ErrorIsKept'
  OBVIOUS
<1> USE DEF ErrorIsKept
<1>1. CASE RunSucceeds \/ QuietStepSucceeds \/ StartSucceeds
  BY <1>1 DEF RunSucceeds, QuietStepSucceeds, StartSucceeds
<1>2. CASE RunTimesOutAfterEffect \/ StepFails \/ InterruptPlan
  BY <1>2 DEF RunTimesOutAfterEffect, StepFails, PlanFails, InterruptPlan
<1>3. CASE PlanSucceeds
  BY <1>3 DEF PlanSucceeds
<1>4. CASE TakeCutoff \/ Seal \/ SealFails \/ Verify \/ Observe
  BY <1>4 DEF TakeCutoff, Seal, SealFails, Verify, Observe
<1>5. CASE Kill \/ Delete \/ Unload
  BY <1>5 DEF Kill, Delete, Unload, Doing
<1>6. CASE CleanupEnds
  BY <1>6 DEF CleanupEnds
<1>7. CASE Finalize \/ FinalizeRaises
  BY <1>7 DEF Finalize, FinalizeRaises
<1>8. CASE DeadlinePasses \/ \E p \in Daemons : Exit(p)
  BY <1>8 DEF DeadlinePasses, Exit
<1>9. CASE InterruptClosing \/ InterruptEnd \/ UNCHANGED vars
  BY <1>9 DEF InterruptClosing, InterruptEnd, vars
<1> QED
  BY <1>1, <1>2, <1>3, <1>4, <1>5, <1>6, <1>7, <1>8, <1>9 DEF Next, Harness, Finished

(* When the metadata are about to be validated, a status that is not ok    *)
(* comes with an error, whichever of the failures on the way cleared it.   *)
THEOREM FailuresCarryErrors == Spec => []FailuresAreExplained
<1>1. Init => ErrorIsKept
  BY DEF Init, ErrorIsKept
<1>2. ErrorIsKept => FailuresAreExplained
  BY DEF ErrorIsKept, FailuresAreExplained
<1> QED
  BY <1>1, <1>2, ErrorStep, BundleTypeCorrect, PTL DEF Spec

-----------------------------------------------------------------------------
(* What makes DaemonsAliveAtCutoff inductive.  Between the cutoff and the  *)
(* verification daemons only go away, so that one which verify_injection   *)
(* finds alive was alive at the cutoff; nothing is verified before, and    *)
(* nothing unverified is accepted.                                         *)

Imposers == {"hostapd", "wpa_supplicant"}
            \union (IF class = "dhcp_no_server" THEN {} ELSE {"dhcp_server"})

AliveInv ==
  /\ phase \in {"plan", "close", "seal", "verify"} => ~ verified
  /\ phase \in {"seal", "verify"} => running \subseteq atCutoff
  /\ phase \in Before \union {"cleanup", "finalize"} => meta = NoMeta
  /\ verified => Imposers \subseteq atCutoff
  /\ meta = "accepted" => verified

(* AliveInv is kept by every step. *)
LEMMA AliveStep == TypeOK /\ AliveInv /\ [Next]_vars => AliveInv'
<1> SUFFICES ASSUME TypeOK, AliveInv, [Next]_vars PROVE AliveInv'
  OBVIOUS
<1> USE DEF AliveInv, NoMeta, Before
<1>1. CASE RunSucceeds \/ QuietStepSucceeds \/ StartSucceeds
  BY <1>1 DEF RunSucceeds, QuietStepSucceeds, StartSucceeds, At, Imposers
<1>2. CASE RunTimesOutAfterEffect \/ StepFails \/ InterruptPlan
  BY <1>2 DEF RunTimesOutAfterEffect, StepFails, PlanFails, InterruptPlan, At, Imposers
<1>3. CASE PlanSucceeds \/ TakeCutoff
  BY <1>3 DEF PlanSucceeds, TakeCutoff, Imposers
<1>4. CASE Seal \/ SealFails
  BY <1>4 DEF Seal, SealFails, Imposers
<1>5. CASE Verify
  <2>1. verified' => Imposers \subseteq atCutoff
    BY <1>5 DEF Verify, InjectionCheckable, Imposers
  <2>2. Imposers' = Imposers
    BY <1>5 DEF Verify, Imposers
  <2> QED
    BY <1>5, <2>1, <2>2 DEF Verify
<1>6. CASE Observe \/ CleanupEnds
  BY <1>6 DEF Observe, CleanupEnds, Imposers
<1>7. CASE Kill \/ Delete \/ Unload
  <2>1. UNCHANGED <<class, phase, verified, atCutoff, meta>> /\ phase = "cleanup"
    BY <1>7 DEF Kill, Delete, Unload, Doing
  <2> QED
    BY <2>1 DEF Imposers
<1>8. CASE Finalize
  <2>1. /\ UNCHANGED <<class, atCutoff, verified, running>> /\ phase' \in {"returned", "raised"}
        /\ meta' = "accepted" => verified
    BY <1>8 DEF Finalize, Quarantine
  <2> QED
    BY <2>1 DEF Imposers
<1>9. CASE FinalizeRaises \/ InterruptClosing \/ InterruptEnd
  BY <1>9 DEF FinalizeRaises, InterruptClosing, InterruptEnd, Imposers
<1>10. CASE DeadlinePasses \/ \E p \in Daemons : Exit(p)
  BY <1>10 DEF DeadlinePasses, Exit, Imposers
<1>11. CASE UNCHANGED vars
  BY <1>11 DEF vars, Imposers
<1> QED
  BY <1>1, <1>2, <1>3, <1>4, <1>5, <1>6, <1>7, <1>8, <1>9, <1>10, <1>11 DEF Next, Harness, Finished

(* AliveInv is an invariant. *)
LEMMA AliveInvariant == Spec => []AliveInv
<1>1. Init => AliveInv
  BY DEF Init, AliveInv, NoMeta, Before
<1> QED
  BY <1>1, AliveStep, BundleTypeCorrect, PTL DEF Spec

(* In every accepted bundle the daemons that impose the scenario were      *)
(* alive when the observation was cut off, although nothing polls them at  *)
(* that moment.                                                            *)
THEOREM AliveWhenCutOff == Spec => []DaemonsAliveAtCutoff
<1>1. AliveInv => DaemonsAliveAtCutoff
  BY DEF AliveInv, Imposers, DaemonsAliveAtCutoff
<1> QED
  BY <1>1, AliveInvariant, PTL

-----------------------------------------------------------------------------
(* What makes AcceptedRunIsClean inductive.  The executor knows of all     *)
(* that exists while the plan has not failed: what it does not know of,    *)
(* the effect of a command that timed out or was interrupted, comes with a *)
(* status that is never ok.  An ok status past the seal means a sealed     *)
(* window, past cleanup that cleanup kept no error; an interrupt that is   *)
(* raised afterwards found the status not ok.                              *)

AllIsKnown == running \subseteq Launched /\ netns \subseteq owned /\ (module => loaded)

CleanInv ==
  /\ phase = "plan" => ~ ok /\ raising = "no"
  /\ phase = "plan" \/ ok => AllIsKnown
  /\ phase \in {"verify", "observe"} /\ ok => sealed
  /\ phase \in {"cleanup", "finalize"} /\ raising = "no" /\ ok => sealed
  /\ phase \in {"finalize"} /\ ok => ~ cleanupError
  /\ phase \in Before => raising # "atOnce"
  /\ raising = "atOnce" => phase \in {"cleanup", "raised"}
  /\ raising = "afterwards" => ~ ok
  /\ phase \in Before \union {"cleanup", "finalize"} => meta = NoMeta
  /\ meta = "accepted" => ok /\ sealed /\ ~ cleanupError /\ raising = "no"

(* What is launched, after one more daemon. *)
LEMMA LaunchedGrows ==
  ASSUME NEW p \in Daemons, started \in Seq(Daemons), started' = Append(started, p)
  PROVE  Launched' = Launched \union {p}
<1>1. /\ Len(started) \in Nat /\ started' \in Seq(Daemons) /\ Len(started') = Len(started) + 1
      /\ \A i \in 1..Len(started) : started'[i] = started[i]
      /\ started'[Len(started) + 1] = p
  BY AppendProperties, LenProperties
<1>2. DOMAIN started = 1..Len(started) /\ DOMAIN started' = 1..(Len(started) + 1)
  BY <1>1, LenProperties
<1>3. Launched = {started[i] : i \in 1..Len(started)}
  BY <1>2 DEF Launched, ToSet
<1>4. Launched' = {started'[i] : i \in 1..(Len(started) + 1)}
  BY <1>2 DEF Launched, ToSet
<1>5. 1..(Len(started) + 1) = 1..Len(started) \union {Len(started) + 1}
  BY <1>1
<1> QED
  BY <1>1, <1>3, <1>4, <1>5

(* In the plan what a step creates is noted, or the plan ends without ok.  *)
LEMMA PlanKeepsClean ==
  ASSUME TypeOK, CleanInv,
         RunSucceeds \/ QuietStepSucceeds \/ StartSucceeds \/ RunTimesOutAfterEffect
           \/ StepFails \/ PlanSucceeds \/ InterruptPlan
  PROVE  CleanInv'
<1>1. /\ phase = "plan" /\ ~ ok /\ raising = "no" /\ meta = NoMeta /\ meta' = NoMeta
      /\ AllIsKnown
  BY DEF CleanInv, Before, RunSucceeds, QuietStepSucceeds, StartSucceeds, RunTimesOutAfterEffect,
         StepFails, PlanSucceeds, InterruptPlan, PlanFails, At
<1>2. CASE RunSucceeds \/ QuietStepSucceeds \/ StartSucceeds
  <2>1. phase' = "plan" /\ ok' = ok /\ raising' = raising /\ sealed' = sealed
    BY <1>1, <1>2 DEF RunSucceeds, QuietStepSucceeds, StartSucceeds
  <2>2. AllIsKnown'
    <3>1. CASE RunSucceeds
      <4>1. running' = running /\ started' = started
        BY <3>1 DEF RunSucceeds
      <4>2. netns' \subseteq owned'
        BY <1>1, <3>1 DEF RunSucceeds, Effect, AllIsKnown
      <4>3. module' => loaded'
        BY <1>1, <3>1, Zenon DEF RunSucceeds, Effect, AllIsKnown
      <4> QED
        BY <1>1, <4>1, <4>2, <4>3 DEF AllIsKnown, Launched
    <3>2. CASE QuietStepSucceeds
      BY <1>1, <3>2 DEF QuietStepSucceeds, AllIsKnown, Launched
    <3>3. CASE StartSucceeds
      <4> DEFINE p == Plan[step + 1].what
      <4>1. p \in Daemons
        BY <3>3, StartsDaemon DEF StartSucceeds
      <4>2. started \in Seq(Daemons) /\ started' = Append(started, p)
            /\ running' = running \union {p}
        BY <3>3 DEF StartSucceeds, TypeOK
      <4> HIDE DEF p
      <4>3. Launched' = Launched \union {p}
        BY <4>1, <4>2, LaunchedGrows
      <4> QED
        BY <1>1, <3>3, <4>2, <4>3 DEF StartSucceeds, AllIsKnown
    <3> QED
      BY <1>2, <3>1, <3>2, <3>3
  <2> QED
    BY <1>1, <2>1, <2>2 DEF CleanInv, Before, NoMeta
<1>3. CASE RunTimesOutAfterEffect \/ StepFails \/ InterruptPlan
  <2>1. phase' = "close" /\ ~ ok' /\ raising' \in {"no", "afterwards"}
    BY <1>1, <1>3 DEF RunTimesOutAfterEffect, StepFails, PlanFails, InterruptPlan
  <2> QED
    BY <1>1, <2>1 DEF CleanInv, Before, NoMeta
<1>4. CASE PlanSucceeds
  BY <1>1, <1>4 DEF PlanSucceeds, CleanInv, Before, NoMeta, AllIsKnown, Launched
<1> QED
  BY <1>2, <1>3, <1>4

(* CleanInv is kept by every step. *)
LEMMA CleanStep == TypeOK /\ CleanInv /\ [Next]_vars => CleanInv'
<1> SUFFICES ASSUME TypeOK, CleanInv, [Next]_vars PROVE CleanInv'
  OBVIOUS
<1>1. CASE RunSucceeds \/ QuietStepSucceeds \/ StartSucceeds \/ RunTimesOutAfterEffect
             \/ StepFails \/ PlanSucceeds \/ InterruptPlan
  BY <1>1, PlanKeepsClean
<1>2. ASSUME UNCHANGED <<started, owned, loaded>>, running' \subseteq running,
             netns' \subseteq netns, module' => module
      PROVE  AllIsKnown => AllIsKnown'
  BY <1>2 DEF AllIsKnown, Launched
<1> USE DEF CleanInv, NoMeta, Before
<1>3. CASE TakeCutoff \/ Seal \/ SealFails \/ Verify \/ Observe
  <2>1. /\ UNCHANGED <<started, owned, loaded, netns, module>> /\ running' \subseteq running
    BY <1>3 DEF TakeCutoff, Seal, SealFails, Verify, Observe
  <2>2. AllIsKnown => AllIsKnown'
    BY <1>2, <2>1
  <2> QED
    BY <1>3, <2>2 DEF TakeCutoff, Seal, SealFails, Verify, Observe
<1>4. CASE Kill \/ Delete \/ Unload
  <2>1. /\ UNCHANGED <<started, owned, loaded>> /\ running' \subseteq running
        /\ netns' \subseteq netns /\ (module' => module)
    <3>1. UNCHANGED <<started, owned, loaded>>
      BY <1>4 DEF Kill, Delete, Unload, Doing
    <3>2. running' \subseteq running
      BY <1>4 DEF Kill, Delete, Unload
    <3>3. netns' \subseteq netns
      BY <1>4 DEF Kill, Delete, Unload
    <3>4. module' => module
      BY <1>4, Zenon DEF Kill, Delete, Unload
    <3> QED
      BY <3>1, <3>2, <3>3, <3>4
  <2>2. AllIsKnown => AllIsKnown'
    BY <1>2, <2>1
  <2>3. phase = "cleanup" /\ UNCHANGED <<phase, ok, raising, sealed, meta>>
    BY <1>4 DEF Kill, Delete, Unload, Doing
  <2> QED
    BY <2>2, <2>3
<1>5. CASE CleanupEnds \/ Finalize \/ FinalizeRaises
  <2>1. UNCHANGED <<started, owned, loaded, running, netns, module>>
    BY <1>5 DEF CleanupEnds, Finalize, FinalizeRaises
  <2>2. AllIsKnown => AllIsKnown'
    BY <1>2, <2>1
  <2>3. CASE CleanupEnds
    BY <2>2, <2>3 DEF CleanupEnds
  <2>4. CASE Finalize
    <3>1. /\ phase = "finalize" /\ phase' = (IF raising = "no" THEN "returned" ELSE "raised")
          /\ UNCHANGED <<sealed, cleanupError, raising>> /\ (ok' => ok)
          /\ meta' = "accepted" => ok'
      BY <2>4 DEF Finalize, Quarantine
    <3>2. raising = "no" \/ raising = "afterwards" \/ raising = "atOnce"
      BY DEF TypeOK
    <3> QED
      BY <2>2, <3>1, <3>2
  <2>5. CASE FinalizeRaises
    BY <2>2, <2>5 DEF FinalizeRaises
  <2> QED
    BY <1>5, <2>3, <2>4, <2>5
<1>6. CASE DeadlinePasses \/ \E p \in Daemons : Exit(p)
  <2>1. /\ UNCHANGED <<started, owned, loaded, netns, module>> /\ running' \subseteq running
    BY <1>6 DEF DeadlinePasses, Exit
  <2>2. AllIsKnown => AllIsKnown'
    BY <1>2, <2>1
  <2>3. UNCHANGED <<phase, ok, raising, sealed, meta, cleanupError>>
    BY <1>6 DEF DeadlinePasses, Exit
  <2> QED
    BY <2>2, <2>3
<1>7. CASE InterruptClosing \/ InterruptEnd \/ UNCHANGED vars
  <2>1. UNCHANGED <<started, owned, loaded, running, netns, module>>
    BY <1>7 DEF InterruptClosing, InterruptEnd, vars
  <2>2. AllIsKnown => AllIsKnown'
    BY <1>2, <2>1
  <2> QED
    BY <1>7, <2>2 DEF InterruptClosing, InterruptEnd, vars
<1> QED
  BY <1>1, <1>3, <1>4, <1>5, <1>6, <1>7 DEF Next, Harness, Finished

(* CleanInv is an invariant. *)
LEMMA CleanInvariant == Spec => []CleanInv
<1>1. Init => CleanInv
  BY DEF Init, CleanInv, AllIsKnown, NoMeta, Before
<1> QED
  BY <1>1, CleanStep, BundleTypeCorrect, PTL DEF Spec

(* An accepted bundle comes from a run that no interrupt ended, with a     *)
(* sealed window, that left no daemon, no namespace and no module behind:  *)
(* what the executor owned is released, and it owned all that there was.   *)
THEOREM AcceptedRunsAreClean == Spec => []AcceptedRunIsClean
<1>1. CleanInv /\ OwnedIsReleased => AcceptedRunIsClean
  <2> SUFFICES ASSUME CleanInv, OwnedIsReleased, meta = "accepted"
               PROVE  /\ raising = "no" /\ sealed
                      /\ running = {} /\ netns = {} /\ ~ module
    BY DEF AcceptedRunIsClean
  <2>1. raising = "no" /\ sealed /\ ~ cleanupError /\ AllIsKnown
    BY DEF CleanInv
  <2>2. running \intersect Launched = {} /\ netns \intersect owned = {} /\ (loaded => ~ module)
    BY <2>1 DEF OwnedIsReleased, NoMeta
  <2>3. running = {} /\ netns = {}
    BY <2>1, <2>2 DEF AllIsKnown
  <2>4. ~ module
    BY <2>1, <2>2 DEF AllIsKnown
  <2> QED
    BY <2>1, <2>3, <2>4
<1> QED
  BY <1>1, CleanInvariant, OwnedReleased, PTL
=============================================================================
