-------------------- MODULE ObservationWindowRefinement ---------------------
(***************************************************************************)
(* ObservationWindow implements SealedEvidence: every step of a thread, a  *)
(* clock, a daemon or the closing procedure is a step of the abstract      *)
(* specification or leaves its state alone.                                *)
(***************************************************************************)
EXTENDS ObservationWindowProofs

USE DEF clockVars, daemonVars, readerVars, mainVars

(* What the mapping of phases to stages rests on. *)
StageInv ==
  /\ phase \in {"observe", "mark", "stop", "seal", "trim"} => capture = Unsealed
  /\ phase = "trim" => \A s \in Sources : Sealed(s)
  /\ phase = "seal" /\ current # Nobody => ~ Sealed(current)
  /\ phase \in {"observe", "mark", "stop"} => current = Nobody
  /\ phase \in {"observe", "mark"} => end.mono = 0

RefinementInv == WindowInv /\ StageInv

(* A view that snapshot has fixed is told from one that it has not. *)
LEMMA SealedViewDiffers ==
  ASSUME NEW s PROVE Retained(s, Eligible(s)) # Unsealed
  BY RetainedBounds, 0 \notin 1..Len(marks[s]) DEF Unsealed

(* Reading one clock of the cutoff leaves the other alone. *)
LEMMA EndMono ==
  ASSUME TypeOK PROVE [end EXCEPT !.unix = Wall].mono = end.mono
                      /\ [end EXCEPT !.mono = now].mono = now
  BY DEF TypeOK, Mark

(* Views are fixed only while closing and one source at a time, so that
   trimming comes after the last of them. *)
LEMMA StageStep == RefinementInv /\ [Next]_vars => StageInv'
<1> SUFFICES ASSUME WindowInv, StageInv, [Next]_vars PROVE StageInv'
  BY DEF RefinementInv
<1> USE SourcesAssumption DEF StageInv, Sealed
<1>0. TypeOK
  BY DEF WindowInv
<1>1. CASE Tick \/ StepWallClock \/ Sniff
  BY <1>1 DEF Tick, StepWallClock, Sniff
<1>2. ASSUME NEW s \in Sources, Emit(s) \/ Exit(s) \/ Reader(s) PROVE StageInv'
  BY <1>2 DEF Emit, Exit, Reader, ReadLine, ReadEnd, MarkUnix, MarkMono, Store, ReaderFails
<1>3. CASE Closing
  <2>1. CASE CutUnix \/ CutMono
    BY <1>0, <2>1, EndMono DEF CutUnix, CutMono
  <2>2. CASE StopCapture \/ Trim \/ CloseFails
    BY <2>2 DEF StopCapture, Trim, CloseFails
  <2>3. ASSUME NEW s \in Sources, CheckError(s) PROVE StageInv'
    BY <2>3 DEF CheckError
  <2>4. ASSUME NEW s \in Sources, Snapshot(s) PROVE StageInv'
    <3>1. Retained(s, Eligible(s)) # Unsealed
      BY SealedViewDiffers
    <3>2. /\ view'[s] # Unsealed
          /\ \A r \in Sources \ {s} : view'[r] = view[r]
      BY <1>0, <2>4, <3>1 DEF Snapshot, TypeOK
    <3> QED
      BY <2>4, <3>2 DEF Snapshot
  <2> QED
    BY <1>3, <2>1, <2>2, <2>3, <2>4 DEF Closing
<1>4. CASE Cleanup
  BY <1>4 DEF Cleanup, BeginCleanup, Done, Terminate, Finish
<1>5. CASE UNCHANGED vars
  BY <1>5 DEF vars
<1> QED
  BY <1>1, <1>2, <1>3, <1>4, <1>5 DEF Next, World, Finished

-----------------------------------------------------------------------------
(* The value that the mapping gives to the abstract variables. *)
Times(s) == [i \in DOMAIN out[s] |-> out[s][i].at]
Stage == CASE phase \in {"observe", "mark"} -> "observing"
           [] phase \in {"stop", "seal", "trim"} -> "closing"
           [] OTHER -> IF capture # Unsealed THEN "sealed" ELSE "abandoned"
Written == [s \in Sources |-> Times(s)]

(* Steps that leave the daemons' lines alone leave their times alone. *)
LEMMA SameWritten == ASSUME UNCHANGED out PROVE Written' = Written
  BY DEF Written, Times

(* A new line adds its time. *)
LEMMA EmitWrites ==
  ASSUME TypeOK, NEW s \in Sources, Emit(s)
  PROVE  Written' = [Written EXCEPT ![s] = Append(@, now)]
<1>1. PICK line : /\ line.at = now
                  /\ out' = [out EXCEPT ![s] = Append(out[s], line)]
  BY DEF Emit
<1>2. out[s] \in Seq(Line)
  BY DEF TypeOK
<1>3. Times(s)' = Append(Times(s), now)
  <2>1. out'[s] = Append(out[s], line)
    BY <1>1 DEF TypeOK
  <2>2. Times(s) \in Seq(Int) /\ Len(Times(s)) = Len(out[s])
    <3>1. \A i \in 1..Len(out[s]) : out[s][i].at \in Int
      BY LineTimes
    <3>2. DOMAIN out[s] = 1..Len(out[s]) /\ Len(out[s]) \in Nat
      BY <1>2
    <3> QED
      BY <3>1, <3>2 DEF Times
  <2>3. DOMAIN Append(out[s], line) = 1..(Len(out[s]) + 1)
    BY <1>2
  <2>4. /\ \A i \in 1..Len(out[s]) : Append(out[s], line)[i] = out[s][i]
        /\ Append(out[s], line)[Len(out[s]) + 1] = line
    BY <1>2
  <2> DEFINE new == [i \in 1..(Len(out[s]) + 1) |-> Append(out[s], line)[i].at]
  <2>5. Times(s)' = new
    BY <2>1, <2>3 DEF Times
  <2>6. /\ \A i \in 1..Len(out[s]) : new[i] = Times(s)[i]
        /\ new[Len(out[s]) + 1] = now
        /\ new = [i \in 1..(Len(out[s]) + 1) |-> new[i]]
    BY <1>1, <1>2, <2>4 DEF Times
  <2>7. new = Append(Times(s), now)
    <3> HIDE DEF new
    <3> DEFINE n == Len(out[s])
    <3>0. n \in Nat /\ now \in Int
      BY <1>2 DEF TypeOK
    <3>1. \A i \in 1..n : Times(s)[i] \in Int
      BY <2>2, <3>0
    <3>2. \A i \in 1..(n + 1) : new[i] \in Int
      <4>1. \A i \in 1..(n + 1) : i \in 1..n \/ i = n + 1
        BY <3>0
      <4> QED
        BY <2>6, <3>0, <3>1, <4>1
    <3>3. new \in [1..(n + 1) -> Int]
      BY <2>6, <3>2
    <3>4. new \in Seq(Int) /\ Len(new) = n + 1
      BY <3>0, <3>3
    <3>5. /\ Append(Times(s), now) \in Seq(Int)
          /\ Len(Append(Times(s), now)) = n + 1
          /\ \A i \in 1..n : Append(Times(s), now)[i] = Times(s)[i]
          /\ Append(Times(s), now)[n + 1] = now
      BY <2>2, <3>0, AppendProperties
    <3>6. \A i \in 1..(n + 1) : new[i] = Append(Times(s), now)[i]
      <4>1. \A i \in 1..(n + 1) : i \in 1..n \/ i = n + 1
        BY <3>0
      <4> QED
        BY <2>6, <3>0, <3>5, <4>1
    <3> QED
      BY <3>4, <3>5, <3>6, SeqEqual
  <2> QED
    BY <2>5, <2>7
<1>4. \A r \in Sources \ {s} : Times(r)' = Times(r)
  BY <1>1 DEF TypeOK, Times
<1> QED
  BY <1>3, <1>4 DEF Written

-----------------------------------------------------------------------------
(* The initial states are initial states of the abstract specification. *)
LEMMA AbstractInit == Init => Evidence!Init
<1> SUFFICES ASSUME Init PROVE Evidence!Init
  OBVIOUS
<1>1. /\ now = 0 /\ phase = "observe" /\ end.mono = 0
      /\ view = [s \in Sources |-> {0}]
  BY DEF Init, NoMark, Unsealed
<1>2. Written = [s \in Sources |-> <<>>]
  <2>1. \A s \in Sources : Times(s) = <<>>
    BY DEF Init, Times
  <2> QED
    BY <2>1 DEF Written
<1>3. Stage = "observing"
  BY <1>1 DEF Stage
<1> QED
  BY <1>1, <1>2, <1>3 DEF Evidence!Init, Evidence!Unsealed, Written, Times, Stage

(* A step that moves none of what the abstract specification sees. *)
LEMMA Stutter ==
  ASSUME UNCHANGED <<now, out, end>>, Stage' = Stage, UNCHANGED view
  PROVE  UNCHANGED Evidence!vars
<1>1. Written' = Written
  BY SameWritten
<1> QED
  BY <1>1 DEF Evidence!vars, Written, Times, Stage

(* A snapshot is the abstract Seal: it keeps only lines written by the
   cutoff. *)
LEMMA SnapshotMapsToSeal ==
  ASSUME RefinementInv, NEW s \in Sources, Snapshot(s)
  PROVE  Evidence!Seal(s)
<1> DEFINE visible == Retained(s, Eligible(s))
<1>1. /\ phase = "seal" /\ ~ Sealed(s)
      /\ view' = [view EXCEPT ![s] = visible]
      /\ UNCHANGED <<now, out, end, capture>>
  BY SourcesAssumption DEF Snapshot, RefinementInv, StageInv
<1>2. Stage = "closing" /\ Stage' = "closing"
  BY <1>1 DEF Snapshot, Stage
<1>3. visible \subseteq {i \in DOMAIN Written[s] : Written[s][i] <= end.mono}
  <2> SUFFICES ASSUME NEW i \in visible
               PROVE  i \in DOMAIN Times(s) /\ Times(s)[i] <= end.mono
    BY DEF Written
  <2>1. i \in 1..Len(marks[s]) /\ marks[s][i].mono <= end.mono
    BY RetainedBounds
  <2>2. i \in DOMAIN out[s] /\ out[s][i].at <= marks[s][i].mono
    BY <2>1 DEF RefinementInv, WindowInv, TypeOK, RecordsFollowLines, LinesAreMarkedLate
  <2>3. out[s][i].at \in Int /\ marks[s][i].mono \in Int /\ end.mono \in Int
    <3>1. out[s][i] \in Line /\ marks[s][i] \in Mark /\ end \in Mark
      BY <2>1, <2>2 DEF RefinementInv, WindowInv, TypeOK
    <3> QED
      BY <3>1 DEF Line, Mark
  <2> QED
    BY <2>1, <2>2, <2>3 DEF Times
<1>4. Written' = Written
  BY <1>1, SameWritten
<1> HIDE DEF visible
<1> QED
  BY <1>1, <1>2, <1>3, <1>4
  DEF Evidence!Seal, Evidence!WrittenBy, Evidence!Unsealed, Sealed, Unsealed, Written, Times, Stage

(* Every step of the window is an abstract step or a stutter. *)
LEMMA AbstractStep == RefinementInv /\ [Next]_vars => [Evidence!Next]_(Evidence!vars)
<1> SUFFICES ASSUME RefinementInv, [Next]_vars PROVE [Evidence!Next]_(Evidence!vars)
  OBVIOUS
<1>0. TypeOK /\ StageInv
  BY DEF RefinementInv, WindowInv
<1>1. CASE Tick
  <2>1. now' \in Int /\ now' > now
    BY <1>0, <1>1 DEF Tick, TypeOK
  <2>2. Written' = Written /\ Stage' = Stage /\ UNCHANGED <<end, view>>
    BY <1>1, SameWritten DEF Tick, Stage
  <2>3. Evidence!TimePasses
    BY <2>1, <2>2 DEF Evidence!TimePasses, Written, Times, Stage
  <2> QED
    BY <2>3 DEF Evidence!Next
<1>2. CASE StepWallClock \/ Sniff
  BY <1>2, Stutter DEF StepWallClock, Sniff, Stage
<1>3. ASSUME NEW s \in Sources, Emit(s) PROVE [Evidence!Next]_(Evidence!vars)
  <2>1. Written' = [Written EXCEPT ![s] = Append(@, now)]
    BY <1>0, <1>3, EmitWrites
  <2>2. UNCHANGED <<now, end, view>> /\ Stage' = Stage
    BY <1>3 DEF Emit, Stage
  <2>3. Evidence!Write(s)
    BY <2>1, <2>2 DEF Evidence!Write, Written, Times, Stage
  <2> QED
    BY <2>3 DEF Evidence!Next
<1>4. ASSUME NEW s \in Sources, Exit(s) \/ Reader(s) PROVE [Evidence!Next]_(Evidence!vars)
  <2>1. UNCHANGED <<now, out, end, view, phase, capture>>
    BY <1>4 DEF Exit, Reader, ReadLine, ReadEnd, MarkUnix, MarkMono, Store, ReaderFails
  <2> QED
    BY <2>1, Stutter DEF Stage
<1>5. CASE Closing
  <2>1. CASE CutUnix
    <3>1. /\ UNCHANGED <<now, out, view>> /\ end'.mono = end.mono
          /\ Stage' = Stage
      BY <1>0, <2>1, EndMono DEF CutUnix, Stage
    <3>2. Written' = Written
      BY <3>1, SameWritten
    <3> QED
      BY <3>1, <3>2 DEF Evidence!vars, Written, Times, Stage
  <2>2. CASE CutMono
    <3>1. /\ UNCHANGED <<now, out, view>> /\ end'.mono = now
          /\ Stage = "observing" /\ Stage' = "closing"
      BY <1>0, <2>2, EndMono DEF CutMono, Stage
    <3>2. Written' = Written
      BY <3>1, SameWritten
    <3>3. Evidence!Cut
      BY <3>1, <3>2 DEF Evidence!Cut, Written, Times, Stage
    <3> QED
      BY <3>3 DEF Evidence!Next
  <2>3. CASE StopCapture
    BY <2>3, Stutter DEF StopCapture, Stage
  <2>4. CASE Trim
    <3>1. UNCHANGED <<now, out, end, view>> /\ \A s \in Sources : Sealed(s)
      BY <1>0, <2>4 DEF Trim, StageInv
    <3>2. capture' # Unsealed
      <4>1. 0 \notin DOMAIN packets
        BY <1>0 DEF TypeOK
      <4> QED
        BY <2>4, <4>1 DEF Trim, Unsealed
    <3>3. Stage = "closing" /\ Stage' = "sealed"
      BY <2>4, <3>2 DEF Trim, Stage
    <3>4. Written' = Written
      BY <3>1, SameWritten
    <3>5. Evidence!Publish
      BY <3>1, <3>3, <3>4
      DEF Evidence!Publish, Evidence!Unsealed, Sealed, Unsealed, Written, Times, Stage
    <3> QED
      BY <3>5 DEF Evidence!Next
  <2>5. CASE CloseFails
    <3>1. UNCHANGED <<now, out, end, view>> /\ capture' = Unsealed
      BY <1>0, <2>5 DEF CloseFails, StageInv
    <3>2. Stage = "closing" /\ Stage' = "abandoned"
      BY <2>5, <3>1 DEF CloseFails, Stage
    <3>3. Written' = Written
      BY <3>1, SameWritten
    <3>4. Evidence!Abandon
      BY <3>1, <3>2, <3>3 DEF Evidence!Abandon, Written, Times, Stage
    <3> QED
      BY <3>4 DEF Evidence!Next
  <2>6. ASSUME NEW s \in Sources, CheckError(s) PROVE [Evidence!Next]_(Evidence!vars)
    BY <2>6, Stutter DEF CheckError, Stage
  <2>7. ASSUME NEW s \in Sources, Snapshot(s) PROVE [Evidence!Next]_(Evidence!vars)
    BY <2>7, SnapshotMapsToSeal DEF Evidence!Next
  <2> QED
    BY <1>5, <2>1, <2>2, <2>3, <2>4, <2>5, <2>6, <2>7 DEF Closing
<1>6. CASE Cleanup
  <2>1. UNCHANGED <<now, out, end, view, capture>> /\ Stage' = Stage
    BY <1>6 DEF Cleanup, BeginCleanup, Done, Terminate, Finish, Stage
  <2> QED
    BY <2>1, Stutter
<1>7. CASE UNCHANGED vars
  BY <1>7, Stutter DEF vars, Stage
<1> QED
  BY <1>1, <1>2, <1>3, <1>4, <1>5, <1>6, <1>7 DEF Next, World, Finished

(* Every behaviour of the observation window is one that SealedEvidence    *)
(* allows: each visible log is fixed once, between the cutoff and the end  *)
(* of closing, from lines written by the cutoff, and stays as it is while  *)
(* queries run, daemons are killed and recorders time out.                 *)
THEOREM WindowImplementsSealedEvidence == Spec => ImplementsSealedEvidence
<1>1. Init => RefinementInv
  BY WindowInit DEF Init, RefinementInv, StageInv, NoMark
<1>2. RefinementInv /\ [Next]_vars => RefinementInv'
  BY WindowStep, StageStep DEF RefinementInv
<1> QED
  BY <1>1, <1>2, AbstractInit, AbstractStep, PTL DEF Spec, ImplementsSealedEvidence, Evidence!Spec
=============================================================================
