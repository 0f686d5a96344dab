---------------------- MODULE ObservationWindowProofs -----------------------
(***************************************************************************)
(* Proofs about ObservationWindow, for any sources, any clock steps and    *)
(* any bounds.                                                             *)
(***************************************************************************)
EXTENDS ObservationWindow, NatSets, SequenceTheorems, TLAPS

USE DEF clockVars, daemonVars, readerVars, mainVars

(* The mark of a thread that holds no line is a mark. *)
LEMMA NoMarkType == NoMark \in Mark
  BY DEF NoMark, Mark

(* Taking one of the two clocks keeps a mark a mark. *)
LEMMA MarkExcept ==
  ASSUME NEW m \in Mark, NEW t \in Int
  PROVE  /\ [m EXCEPT !.unix = t] \in Mark
         /\ [m EXCEPT !.mono = t] \in Mark
         /\ [m EXCEPT !.mono = t].mono = t
         /\ [m EXCEPT !.unix = t].mono = m.mono
  BY DEF Mark

(* snapshot keeps some of the records received by the cutoff. *)
LEMMA RetainedBounds ==
  ASSUME NEW s
  PROVE  Retained(s, Eligible(s)) \subseteq
           {i \in 1..Len(marks[s]) : marks[s][i].mono <= end.mono}
  <1>1. Eligible(s) \subseteq {i \in 1..Len(marks[s]) : marks[s][i].mono <= end.mono}
    BY DEF Eligible
  <1> QED
    BY <1>1 DEF Retained

(* The program starts with every variable in its type. *)
LEMMA TypeInit == Init => TypeOK
<1> SUFFICES ASSUME Init PROVE TypeOK
  OBVIOUS
<1>1. <<>> \in Seq(Line) /\ <<>> \in Seq(Mark) /\ <<>> \in Seq([at : Int, ts : Int])
  OBVIOUS
<1> QED
  <2>1. started \in Mark
    BY ClockAssumption DEF Init, Mark
  <2>2. view \in [Sources -> SUBSET Nat] /\ capture \in SUBSET Nat
    BY DEF Init, Unsealed
  <2> QED
    BY <1>1, <2>1, <2>2, NoMarkType DEF Init, TypeOK

(* No action takes a variable out of its type. *)
LEMMA TypeStep == TypeOK /\ [Next]_vars => TypeOK'
<1> SUFFICES ASSUME TypeOK, [Next]_vars PROVE TypeOK'
  OBVIOUS
<1> USE DEF TypeOK
<1>1. CASE Tick
  BY <1>1 DEF Tick
<1>2. CASE StepWallClock
  BY <1>2 DEF StepWallClock
<1>3. CASE Sniff
  <2>1. [at |-> now, ts |-> Wall] \in [at : Int, ts : Int]
    BY ClockAssumption DEF Wall
  <2> QED
    BY <1>3, <2>1, AppendProperties DEF Sniff
<1>4. ASSUME NEW s \in Sources, Emit(s) PROVE TypeOK'
  <2>1. PICK kind \in Kinds(s) :
          LET stamp == IF s \in Stamped /\ kind # "indented" THEN {Wall} ELSE {}
          IN  out' = [out EXCEPT ![s] = Append(@, [at |-> now, stamp |-> stamp, kind |-> kind])]
    BY <1>4 DEF Emit
  <2> DEFINE line == [at |-> now,
                      stamp |-> IF s \in Stamped /\ kind # "indented" THEN {Wall} ELSE {},
                      kind |-> kind]
  <2>2. line \in Line
    BY <2>1, ClockAssumption DEF Line, Kinds, Wall
  <2>3. Append(out[s], line) \in Seq(Line)
    BY <2>2, AppendProperties
  <2> QED
    BY <1>4, <2>1, <2>3 DEF Emit
<1>5. ASSUME NEW s \in Sources, Exit(s) PROVE TypeOK'
  BY <1>5 DEF Exit
<1>6. ASSUME NEW s \in Sources, Reader(s) PROVE TypeOK'
  <2>1. CASE ReadLine(s) \/ ReadEnd(s) \/ ReaderFails(s)
    BY <2>1, NoMarkType, ZenonT(30) DEF ReadLine, ReadEnd, ReaderFails, Goes
  <2>2. CASE MarkUnix(s)
    <3>1. Wall \in Int
      BY ClockAssumption DEF Wall
    <3>2. mark' = [mark EXCEPT ![s] = [mark[s] EXCEPT !.unix = Wall]]
      BY <2>2 DEF MarkUnix
    <3>3. mark' \in [Sources -> Mark]
      BY <3>1, <3>2, MarkExcept
    <3> QED
      BY <2>2, <3>3 DEF MarkUnix, Goes
  <2>3. CASE MarkMono(s)
    <3>1. mark' = [mark EXCEPT ![s] = [mark[s] EXCEPT !.mono = now]]
      BY <2>3 DEF MarkMono
    <3>2. mark' \in [Sources -> Mark]
      <4>1. now \in Int
        OBVIOUS
      <4>2. [mark[s] EXCEPT !.mono = now] \in Mark
        BY <4>1, MarkExcept
      <4> QED
        BY <3>1, <4>2
    <3> QED
      BY <2>3, <3>2 DEF MarkMono, Goes
  <2>4. CASE Store(s)
    <3>1. Append(marks[s], mark[s]) \in Seq(Mark)
      BY AppendProperties
    <3> QED
      BY <2>4, <3>1, NoMarkType DEF Store, Goes
  <2> QED
    BY <1>6, <2>1, <2>2, <2>3, <2>4 DEF Reader
<1>7. CASE Closing
  <2>1. CASE CutUnix
    <3>1. Wall \in Int
      BY ClockAssumption DEF Wall
    <3>2. end' \in Mark
      BY <2>1, <3>1, MarkExcept DEF CutUnix
    <3> QED
      BY <2>1, <3>2 DEF CutUnix
  <2>2. CASE CutMono
    <3>1. end' \in Mark
      <4>1. now \in Int
        OBVIOUS
      <4> QED
        BY <2>2, <4>1, MarkExcept DEF CutMono
    <3> QED
      BY <2>2, <3>1 DEF CutMono
  <2>3. CASE StopCapture \/ CloseFails
    BY <2>3 DEF StopCapture, CloseFails
  <2>4. CASE Trim
    BY <2>4 DEF Trim
  <2>5. ASSUME NEW s \in Sources, CheckError(s) PROVE TypeOK'
    BY <2>5 DEF CheckError
  <2>6. ASSUME NEW s \in Sources, Snapshot(s) PROVE TypeOK'
    <3>1. Retained(s, Eligible(s)) \in SUBSET Nat
      BY RetainedBounds
    <3> QED
      BY <2>6, <3>1 DEF Snapshot
  <2> QED
    BY <1>7, <2>1, <2>2, <2>3, <2>4, <2>5, <2>6 DEF Closing
<1>8. CASE Cleanup
  BY <1>8 DEF Cleanup, BeginCleanup, Done, Terminate, Finish, FinishError
<1>9. CASE UNCHANGED vars
  BY <1>9 DEF vars
<1> QED
  BY <1>1, <1>2, <1>3, <1>4, <1>5, <1>6, <1>7, <1>8, <1>9 DEF Next, World, Finished

(* Every variable keeps its type, in every reachable state. *)
THEOREM TypeCorrect == Spec => []TypeOK
  BY TypeInit, TypeStep, PTL DEF Spec

-----------------------------------------------------------------------------
(* Where a reader thread can be in its loop, relative to what its daemon   *)
(* has written, and how its clock marks relate to the time of its lines.   *)
RecordsFollowLines(s) ==
  /\ Len(marks[s]) <= Len(out[s])
  /\ rpc[s] \in {"unix", "mono", "store"} => Len(marks[s]) < Len(out[s])

LinesAreMarkedLate(s) ==
  /\ \A i \in 1..Len(out[s]) : out[s][i].at <= now
  /\ \A i \in 1..Len(marks[s]) : out[s][i].at <= marks[s][i].mono
  /\ rpc[s] = "store" => out[s][Len(marks[s]) + 1].at <= mark[s].mono

ViewsAreSealedInTime(s) ==
  Sealed(s) =>
    /\ phase \notin {"observe", "mark"}
    /\ \A i \in view[s] : i \in 1..Len(marks[s]) /\ marks[s][i].mono <= end.mono

WindowInv ==
  /\ TypeOK
  /\ \A s \in Sources :
       RecordsFollowLines(s) /\ LinesAreMarkedLate(s) /\ ViewsAreSealedInTime(s)

(* The time of a written line is an integer. *)
LEMMA LineTimes ==
  ASSUME TypeOK, NEW s \in Sources, NEW i \in 1..Len(out[s])
  PROVE  out[s][i].at \in Int
<1>1. out[s][i] \in Line
  BY DEF TypeOK
<1> QED
  BY <1>1 DEF Line

(* At the start no daemon has written and no view is sealed. *)
LEMMA WindowInit == Init => WindowInv
<1> SUFFICES ASSUME Init PROVE WindowInv
  OBVIOUS
<1>1. TypeOK
  BY TypeInit
<1>2. ASSUME NEW r \in Sources
      PROVE  RecordsFollowLines(r) /\ LinesAreMarkedLate(r) /\ ViewsAreSealedInTime(r)
  <2>1. out[r] = <<>> /\ marks[r] = <<>> /\ rpc[r] \in {"read", "eof"} /\ view[r] = Unsealed
    BY DEF Init
  <2> QED
    BY <2>1 DEF RecordsFollowLines, LinesAreMarkedLate, ViewsAreSealedInTime, Sealed
<1> QED
  BY <1>1, <1>2 DEF WindowInv

(* The three parts for one source r are kept by every step, of whatever    *)
(* thread.                                                                 *)
LEMMA SourceStep ==
  ASSUME WindowInv, [Next]_vars, NEW r \in Sources
  PROVE  (RecordsFollowLines(r) /\ LinesAreMarkedLate(r) /\ ViewsAreSealedInTime(r))'
<1> DEFINE Kept == (RecordsFollowLines(r) /\ LinesAreMarkedLate(r) /\ ViewsAreSealedInTime(r))'
<1> USE DEF RecordsFollowLines, LinesAreMarkedLate, ViewsAreSealedInTime, Sealed
<1>0. /\ TypeOK
      /\ RecordsFollowLines(r) /\ LinesAreMarkedLate(r) /\ ViewsAreSealedInTime(r)
      /\ out[r] \in Seq(Line) /\ marks[r] \in Seq(Mark) /\ now \in Int
      /\ \A i \in 1..Len(out[r]) : out[r][i].at \in Int
  BY LineTimes DEF WindowInv, TypeOK
<1>1. CASE Tick
  BY <1>0, <1>1 DEF Tick
<1>2. CASE StepWallClock \/ Sniff
  BY <1>0, <1>2 DEF StepWallClock, Sniff
<1>3. ASSUME NEW s \in Sources, Emit(s) PROVE Kept
  <2>1. PICK line : /\ line.at = now
                    /\ out' = [out EXCEPT ![s] = Append(out[s], line)]
    BY <1>3 DEF Emit
  <2>2. CASE s # r
    BY <1>0, <1>3, <2>1, <2>2 DEF Emit, TypeOK
  <2>3. CASE s = r
    <3>1. /\ out'[r] = Append(out[r], line)
          /\ Len(out'[r]) = Len(out[r]) + 1
          /\ \A i \in 1..Len(out[r]) : out'[r][i] = out[r][i]
          /\ out'[r][Len(out[r]) + 1] = line
      BY <1>0, <2>1, <2>3 DEF TypeOK
    <3> QED
      BY <1>0, <1>3, <2>1, <3>1 DEF Emit, TypeOK
  <2> QED
    BY <2>2, <2>3
<1>4. ASSUME NEW s \in Sources, Exit(s) PROVE Kept
  BY <1>0, <1>4 DEF Exit
<1>5. ASSUME NEW s \in Sources, Reader(s) PROVE Kept
  <2>1. CASE ReadLine(s) \/ ReadEnd(s) \/ ReaderFails(s)
    BY <1>0, <2>1, ZenonT(30) DEF ReadLine, ReadEnd, ReaderFails, Goes, TypeOK
  <2>2. CASE MarkUnix(s)
    BY <1>0, <2>2 DEF MarkUnix, Goes, TypeOK
  <2>3. CASE MarkMono(s)
    <3>1. mark' = [mark EXCEPT ![s] = [mark[s] EXCEPT !.mono = now]]
      BY <2>3 DEF MarkMono
    <3>2. mark'[s].mono = now
      BY <1>0, <3>1, MarkExcept DEF TypeOK
    <3>3. CASE s # r
      BY <1>0, <2>3, <3>1, <3>3 DEF MarkMono, Goes, TypeOK
    <3>4. CASE s = r
      <4>1. Len(marks[r]) + 1 \in 1..Len(out[r])
        BY <1>0, <2>3, <3>4 DEF MarkMono, Goes
      <4>2. out[r][Len(marks[r]) + 1].at <= now
        BY <1>0, <4>1
      <4> QED
        BY <1>0, <2>3, <3>2, <3>4, <4>1, <4>2 DEF MarkMono, Goes, TypeOK
    <3> QED
      BY <3>3, <3>4
  <2>4. CASE Store(s)
    <3>1. CASE s # r
      BY <1>0, <2>4, <3>1 DEF Store, Goes, TypeOK
    <3>2. CASE s = r
      <4>1. /\ marks'[r] = Append(marks[r], mark[r])
            /\ Len(marks'[r]) = Len(marks[r]) + 1
            /\ \A i \in 1..Len(marks[r]) : marks'[r][i] = marks[r][i]
            /\ marks'[r][Len(marks[r]) + 1] = mark[r]
        BY <1>0, <2>4, <3>2 DEF Store, TypeOK
      <4> QED
        BY <1>0, <2>4, <3>2, <4>1 DEF Store, Goes, TypeOK
    <3> QED
      BY <3>1, <3>2
  <2> QED
    BY <1>5, <2>1, <2>2, <2>3, <2>4 DEF Reader
<1>6. CASE Closing
  <2>1. CASE CutUnix \/ CutMono \/ StopCapture \/ Trim \/ CloseFails
    BY <1>0, <2>1 DEF CutUnix, CutMono, StopCapture, Trim, CloseFails
  <2>2. ASSUME NEW s \in Sources, CheckError(s) PROVE Kept
    BY <1>0, <2>2 DEF CheckError
  <2>3. ASSUME NEW s \in Sources, Snapshot(s) PROVE Kept
    <3>1. Retained(s, Eligible(s)) \subseteq
            {i \in 1..Len(marks[s]) : marks[s][i].mono <= end.mono}
      BY RetainedBounds
    <3> QED
      BY <1>0, <2>3, <3>1 DEF Snapshot, TypeOK
  <2> QED
    BY <1>6, <2>1, <2>2, <2>3 DEF Closing
<1>7. CASE Cleanup
  BY <1>0, <1>7 DEF Cleanup, BeginCleanup, Done, Terminate, Finish
<1>8. CASE UNCHANGED vars
  BY <1>0, <1>8 DEF vars
<1> QED
  BY <1>1, <1>2, <1>3, <1>4, <1>5, <1>6, <1>7, <1>8 DEF Next, World, Finished

(* Every step keeps the invariant, because it does so for each source. *)
LEMMA WindowStep == WindowInv /\ [Next]_vars => WindowInv'
<1> SUFFICES ASSUME WindowInv, [Next]_vars PROVE WindowInv'
  OBVIOUS
<1>1. TypeOK'
  BY TypeStep DEF WindowInv
<1> QED
  BY <1>1, SourceStep DEF WindowInv

(* No line written after the cutoff is ever visible, for any sources, any  *)
(* setting of the wall clock and any interleaving of the reader threads    *)
(* with the closing procedure.                                             *)
THEOREM NothingVisibleAfterCutoff == Spec => []VisibleBeforeCutoff
<1>1. WindowInv => VisibleBeforeCutoff
  <2> SUFFICES ASSUME WindowInv, NEW s \in Sources, Sealed(s), NEW i \in view[s]
               PROVE  i \in DOMAIN out[s] /\ out[s][i].at <= end.mono
    BY DEF VisibleBeforeCutoff
  <2>1. i \in 1..Len(marks[s]) /\ marks[s][i].mono <= end.mono
    BY DEF WindowInv, ViewsAreSealedInTime
  <2>2. i \in DOMAIN out[s] /\ out[s][i].at <= marks[s][i].mono
    BY <2>1 DEF WindowInv, TypeOK, RecordsFollowLines, LinesAreMarkedLate
  <2>3. out[s][i].at \in Int /\ marks[s][i].mono \in Int /\ end.mono \in Int
    <3>1. out[s][i] \in Line /\ marks[s][i] \in Mark /\ end \in Mark
      BY <2>1, <2>2 DEF WindowInv, TypeOK
    <3> QED
      BY <3>1 DEF Line, Mark
  <2> QED
    BY <2>1, <2>2, <2>3
<1> QED
  BY <1>1, WindowInit, WindowStep, PTL DEF Spec

-----------------------------------------------------------------------------
(* A reader thread that has reached the end of its pipe has recorded every *)
(* line, and nothing can be written after that; a recorder that finished   *)
(* without an error is such a thread.                                      *)
DrainInv ==
  /\ TypeOK
  /\ \A s \in Sources :
       /\ rpc[s] = "eof" => ~ alive[s] /\ Len(marks[s]) = Len(out[s])
       /\ s \in joined /\ ~ failed => rpc[s] = "eof"
  /\ phase = "done" => joined = Sources

(* At the start every record is missing together with its line. *)
LEMMA DrainInit == Init => DrainInv
  BY TypeInit DEF Init, DrainInv

(* A reader ends at the end of its pipe or fails; a recorder joined without
   an error has ended; no step changes that. *)
LEMMA DrainStep == DrainInv /\ [Next]_vars => DrainInv'
<1> SUFFICES ASSUME DrainInv, [Next]_vars PROVE DrainInv'
  OBVIOUS
<1>1. TypeOK'
  BY TypeStep DEF DrainInv
<1> USE DEF DrainInv, TypeOK
<1>2. CASE Tick \/ StepWallClock \/ Sniff
  BY <1>1, <1>2 DEF Tick, StepWallClock, Sniff
<1>3. ASSUME NEW s \in Sources, Emit(s) PROVE DrainInv'
  <2>1. rpc[s] # "eof"
    BY <1>3 DEF Emit
  <2>2. \A r \in Sources \ {s} : out'[r] = out[r]
    BY <1>3 DEF Emit
  <2>3. /\ alive' = alive /\ rpc' = rpc /\ marks' = marks
        /\ joined' = joined /\ failed' = failed /\ phase' = phase
    BY <1>3 DEF Emit
  <2> QED
    BY <1>1, <2>1, <2>2, <2>3
<1>4. ASSUME NEW s \in Sources, Exit(s) PROVE DrainInv'
  BY <1>1, <1>4 DEF Exit
<1>5. ASSUME NEW s \in Sources, Reader(s) PROVE DrainInv'
  <2>1. CASE ReadLine(s) \/ ReadEnd(s) \/ ReaderFails(s)
    BY <1>1, <2>1 DEF ReadLine, ReadEnd, ReaderFails, Goes
  <2>2. CASE MarkUnix(s) \/ MarkMono(s)
    BY <1>1, <2>2 DEF MarkUnix, MarkMono, Goes
  <2>3. CASE Store(s)
    <3>1. \A r \in Sources \ {s} : marks'[r] = marks[r] /\ rpc'[r] = rpc[r]
      BY <2>3 DEF Store, Goes
    <3>2. rpc[s] = "store" /\ rpc'[s] = "read"
      BY <2>3 DEF Store, Goes
    <3>3. /\ alive' = alive /\ out' = out
          /\ joined' = joined /\ failed' = failed /\ phase' = phase
      BY <2>3 DEF Store
    <3> QED
      BY <1>1, <3>1, <3>2, <3>3
  <2> QED
    BY <1>5, <2>1, <2>2, <2>3 DEF Reader
<1>6. CASE Closing
  <2>1. CASE CutUnix \/ CutMono \/ StopCapture \/ Trim \/ CloseFails
    BY <1>1, <2>1 DEF CutUnix, CutMono, StopCapture, Trim, CloseFails
  <2>2. ASSUME NEW s \in Sources, CheckError(s) \/ Snapshot(s) PROVE DrainInv'
    BY <1>1, <2>2 DEF CheckError, Snapshot
  <2> QED
    BY <1>6, <2>1, <2>2 DEF Closing
<1>7. CASE Cleanup
  <2>1. CASE BeginCleanup \/ Done
    BY <1>1, <2>1 DEF BeginCleanup, Done
  <2>2. ASSUME NEW s \in Sources, Terminate(s) PROVE DrainInv'
    <3>1. \A r \in Sources : alive'[r] => alive[r]
      BY <2>2 DEF Terminate
    <3>2. failed => failed'
      BY <2>2 DEF Terminate
    <3>3. /\ out' = out /\ rpc' = rpc /\ marks' = marks
          /\ joined' = joined /\ phase' = phase
      BY <2>2 DEF Terminate
    <3> QED
      BY <1>1, <3>1, <3>2, <3>3
  <2>3. ASSUME NEW s \in Sources, Finish(s) PROVE DrainInv'
    BY <1>1, <2>3 DEF Finish, FinishError
  <2> QED
    BY <1>7, <2>1, <2>2, <2>3 DEF Cleanup
<1>8. CASE UNCHANGED vars
  BY <1>1, <1>8 DEF vars
<1> QED
  BY <1>2, <1>3, <1>4, <1>5, <1>6, <1>7, <1>8 DEF Next, World, Finished

(* When closing and cleanup record no error, every daemon is gone and      *)
(* every line it wrote is recorded.                                        *)
THEOREM AcceptedRunsAreComplete == Spec => []AcceptedIsComplete
<1>1. DrainInv => AcceptedIsComplete
  BY DEF DrainInv, AcceptedIsComplete
<1> QED
  BY <1>1, DrainInit, DrainStep, PTL DEF Spec

-----------------------------------------------------------------------------
(* retained_control_line_indexes walks over the lines once and remembers   *)
(* whether it is inside a block; EchoBlocks says what that amounts to.     *)

(* A line is in a block when it is an echo, or indented after a line that  *)
(* is in one.                                                              *)
LEMMA BlockGoesOn ==
  ASSUME NEW s, NEW i \in Nat, i # 0
  PROVE  InEchoBlock(s, i) <=> \/ out[s][i].kind = "echo"
                               \/ InEchoBlock(s, i - 1) /\ out[s][i].kind = "indented"
<1>1. ASSUME InEchoBlock(s, i), out[s][i].kind # "echo"
      PROVE  InEchoBlock(s, i - 1) /\ out[s][i].kind = "indented"
  <2>1. PICK j \in 1..i : /\ out[s][j].kind = "echo"
                          /\ \A k \in (j + 1)..i : out[s][k].kind = "indented"
    BY <1>1 DEF InEchoBlock
  <2>2. j \in 1..(i - 1) /\ i \in (j + 1)..i
    BY <1>1, <2>1
  <2>3. \A k \in (j + 1)..(i - 1) : out[s][k].kind = "indented"
    BY <2>1, <2>2
  <2> QED
    BY <2>1, <2>2, <2>3 DEF InEchoBlock
<1>2. ASSUME out[s][i].kind = "echo" PROVE InEchoBlock(s, i)
  <2>1. i \in 1..i /\ \A k \in (i + 1)..i : out[s][k].kind = "indented"
    OBVIOUS
  <2> QED
    BY <1>2, <2>1 DEF InEchoBlock
<1>3. ASSUME InEchoBlock(s, i - 1), out[s][i].kind = "indented" PROVE InEchoBlock(s, i)
  <2>1. PICK j \in 1..(i - 1) : /\ out[s][j].kind = "echo"
                                /\ \A k \in (j + 1)..(i - 1) : out[s][k].kind = "indented"
    BY <1>3 DEF InEchoBlock
  <2>2. j \in 1..i /\ \A k \in (j + 1)..i : out[s][k].kind = "indented"
    BY <1>3, <2>1
  <2> QED
    BY <2>1, <2>2 DEF InEchoBlock
<1> QED
  BY <1>1, <1>2, <1>3

(* Over the first n lines the walk finds exactly the lines of the blocks.  *)
LEMMA EchoBlocks ==
  ASSUME NEW s, NEW n \in Nat
  PROVE  InEcho(s, 1..n) = {i \in 1..n : InEchoBlock(s, i)}
<1> DEFINE Walk(inside) ==
             [i \in Nat |->
                IF i = 0 THEN FALSE
                ELSE IF i \notin 1..n THEN inside[i - 1]
                ELSE \/ out[s][i].kind = "echo"
                     \/ inside[i - 1] /\ out[s][i].kind = "indented"]
           blocks == [i \in Nat |-> InEchoBlock(s, IF i <= n THEN i ELSE n)]
           walked == CHOOSE inside : inside = Walk(inside)
<1>1. ~ InEchoBlock(s, 0)
  BY DEF InEchoBlock
<1>2. \A i \in Nat : i <= n => blocks[i] = InEchoBlock(s, i)
  OBVIOUS
<1>3. \A i \in Nat : i > n => blocks[i] = InEchoBlock(s, n)
  OBVIOUS
<1>4. blocks = [i \in Nat |-> blocks[i]]
  OBVIOUS
<1> HIDE DEF blocks
<1>5. ASSUME NEW i \in Nat PROVE blocks[i] = Walk(blocks)[i]
  <2>1. CASE i = 0
    <3>1. blocks[0] = FALSE
      BY <1>1, <1>2
    <3> QED
      BY <2>1, <3>1
  <2>2. CASE i # 0 /\ i <= n
    <3>1. i - 1 \in Nat /\ i - 1 <= n /\ i \in 1..n
      BY <2>2
    <3>2. blocks[i] = InEchoBlock(s, i)
      BY <1>2, <2>2
    <3>3. blocks[i - 1] = InEchoBlock(s, i - 1)
      BY <1>2, <3>1
    <3>4. Walk(blocks)[i] = (\/ out[s][i].kind = "echo"
                             \/ blocks[i - 1] /\ out[s][i].kind = "indented")
      BY <2>2, <3>1
    <3>5. InEchoBlock(s, i) <=> \/ out[s][i].kind = "echo"
                                \/ InEchoBlock(s, i - 1) /\ out[s][i].kind = "indented"
      BY <2>2, BlockGoesOn, Zenon
    <3>6. InEchoBlock(s, i) = (\/ out[s][i].kind = "echo"
                               \/ InEchoBlock(s, i - 1) /\ out[s][i].kind = "indented")
      BY <3>5 DEF InEchoBlock
    <3> QED
      BY <3>2, <3>3, <3>4, <3>6, Zenon
  <2>3. CASE i > n
    <3>1. i - 1 \in Nat /\ i # 0 /\ i \notin 1..n /\ (i - 1 > n \/ i - 1 = n)
      BY <2>3
    <3>2. blocks[i] = InEchoBlock(s, n)
      BY <1>3, <2>3
    <3>3. blocks[i - 1] = InEchoBlock(s, n)
      BY <1>2, <1>3, <3>1
    <3>4. Walk(blocks)[i] = blocks[i - 1]
      BY <3>1, Zenon
    <3> QED
      BY <3>2, <3>3, <3>4, Zenon
  <2>4. i = 0 \/ (i # 0 /\ i <= n) \/ i > n
    OBVIOUS
  <2> QED
    BY <2>1, <2>2, <2>3, <2>4, Zenon
<1>6. blocks = Walk(blocks)
  BY <1>4, <1>5
<1>7. walked = Walk(walked)
  BY <1>6, Zenon
<1>8. InEcho(s, 1..n) = {i \in 1..n : walked[i]}
  BY DEF InEcho
<1> HIDE DEF walked
<1> DEFINE Agrees == {i \in Nat : walked[i] = blocks[i]}
<1>9. 0 \in Agrees
  <2>1. Walk(walked)[0] = FALSE /\ Walk(blocks)[0] = FALSE
    OBVIOUS
  <2> QED
    BY <1>6, <1>7, <2>1, Zenon
<1>10. ASSUME NEW i \in Nat, i \in Agrees PROVE i + 1 \in Agrees
  <2>1. walked[i] = blocks[i] /\ (i + 1) - 1 = i /\ i + 1 # 0 /\ i + 1 \in Nat
    BY <1>10
  <2>2. Walk(walked)[i + 1] = Walk(blocks)[i + 1]
    BY <2>1, Zenon
  <2> QED
    BY <1>6, <1>7, <2>1, <2>2, Zenon
<1>11. \A i \in Nat : walked[i] = blocks[i]
  <2>1. Nat \subseteq Agrees
    BY <1>9, <1>10, NatInSet
  <2> QED
    BY <2>1
<1>12. \A i \in 1..n : walked[i] = InEchoBlock(s, i)
  <2>1. \A i \in 1..n : i \in Nat /\ i <= n
    OBVIOUS
  <2> QED
    BY <1>2, <1>11, <2>1, Zenon
<1> QED
  BY <1>8, <1>12, Zenon

-----------------------------------------------------------------------------
(* While the wall clock is only ever set forward, both clocks order the    *)
(* lines and the packets alike, and three more properties hold.            *)
OnlyForward == \A step \in Steps : step[1] <= step[2]

(* Where the cutoff lies on the two clocks.  From the moment when both are *)
(* read, the wall clock is at least as far past end.unix as the monotonic  *)
(* clock is past end.mono.                                                 *)
CutoffOnClocks ==
  /\ started.mono = 0 /\ started.unix <= Wall
  /\ end.mono >= 0
  /\ phase # "observe" => started.unix <= end.unix
  /\ phase = "mark" => end.unix <= Wall
  /\ phase \notin {"observe", "mark"} =>
       end.mono <= now /\ end.unix - end.mono <= skew

(* A mark is made after its line was stamped, and after earlier marks.     *)
StampedBy(s, i, t) == \A stamp \in out[s][i].stamp : stamp <= t

MarkedBy(s, n, m) == \A i \in 1..n : marks[s][i].unix <= m.unix /\ marks[s][i].mono <= m.mono

MarksInOrder(s) ==
  /\ \A i \in 1..Len(out[s]) : StampedBy(s, i, Wall)
  /\ \A i \in 1..Len(marks[s]) :
       /\ StampedBy(s, i, marks[s][i].unix)
       /\ marks[s][i].unix <= Wall /\ marks[s][i].mono <= now
       /\ MarkedBy(s, i, marks[s][i])
  /\ rpc[s] \in {"mono", "store"} =>
       /\ StampedBy(s, Len(marks[s]) + 1, mark[s].unix)
       /\ mark[s].unix <= Wall
       /\ \A i \in 1..Len(marks[s]) : marks[s][i].unix <= mark[s].unix
  /\ rpc[s] = "store" =>
       /\ mark[s].mono <= now
       /\ MarkedBy(s, Len(marks[s]), mark[s])

(* A sealed view is what is left of the first n lines, all of them marked  *)
(* and stamped by the cutoff.                                              *)
ViewIsPrefix(s, n) ==
  /\ n \in 0..Len(marks[s])
  /\ view[s] = {i \in 1..n : ~ (s \in Scrubbed /\ InEchoBlock(s, i))}
  /\ \A i \in 1..n : /\ marks[s][i].unix <= end.unix /\ marks[s][i].mono <= end.mono
                     /\ StampedBy(s, i, end.unix)

ViewsArePrefixes(s) ==
  Sealed(s) => phase \notin {"observe", "mark"} /\ \E n \in Nat : ViewIsPrefix(s, n)

(* No packet that the wall clock puts before the cutoff came after it.     *)
PacketsInOrder ==
  /\ \A i \in DOMAIN packets : packets[i].at <= now
  /\ phase \notin {"observe", "mark"} =>
       \A i \in DOMAIN packets : packets[i].ts <= end.unix => packets[i].at <= end.mono

CaptureIsTrimmed ==
  /\ phase \in {"observe", "mark"} => capture = Unsealed
  /\ phase = "trim" => \A s \in Sources : Sealed(s)
  /\ capture # Unsealed =>
       /\ \A i \in capture : i \in DOMAIN packets /\ packets[i].ts <= end.unix
       /\ \A s \in Sources : Sealed(s)

ForwardInv ==
  /\ WindowInv
  /\ CutoffOnClocks
  /\ \A s \in Sources : MarksInOrder(s) /\ ViewsArePrefixes(s)
  /\ PacketsInOrder
  /\ CaptureIsTrimmed

(* The times that the proofs compare are integers. *)
LEMMA ClockTypes ==
  ASSUME TypeOK
  PROVE  /\ now \in Nat /\ skew \in Nat /\ Wall \in Nat
         /\ started.unix \in Int /\ end.unix \in Int /\ end.mono \in Int
         /\ \A i \in DOMAIN packets : packets[i].at \in Int /\ packets[i].ts \in Int
<1>1. now \in Nat /\ skew \in Nat /\ started \in Mark /\ end \in Mark
  BY ClockAssumption DEF TypeOK
<1>2. \A i \in DOMAIN packets : packets[i] \in [at : Int, ts : Int]
  <2> DEFINE Packet == [at : Int, ts : Int]
  <2>1. packets \in Seq(Packet)
    BY DEF TypeOK
  <2> HIDE DEF Packet
  <2>2. \A i \in DOMAIN packets : packets[i] \in Packet
    BY <2>1
  <2> QED
    BY <2>2 DEF Packet
<1>3. now \in Nat /\ skew \in Nat /\ Wall \in Nat
  BY <1>1 DEF Wall
<1>4. started.unix \in Int /\ end.unix \in Int /\ end.mono \in Int
  BY <1>1 DEF Mark
<1>5. \A i \in DOMAIN packets : packets[i].at \in Int /\ packets[i].ts \in Int
  BY <1>2
<1> QED
  BY <1>3, <1>4, <1>5

(* The same for the lines and the marks of one source. *)
LEMMA SourceTypes ==
  ASSUME TypeOK, NEW s \in Sources
  PROVE  /\ out[s] \in Seq(Line) /\ marks[s] \in Seq(Mark)
         /\ Len(out[s]) \in Nat /\ Len(marks[s]) \in Nat
         /\ \A i \in 1..Len(out[s]) : out[s][i].stamp \in SUBSET Int
         /\ \A i \in 1..Len(marks[s]) : marks[s][i].unix \in Int /\ marks[s][i].mono \in Int
         /\ mark[s] \in Mark /\ mark[s].unix \in Int /\ mark[s].mono \in Int
<1>1. out[s] \in Seq(Line) /\ marks[s] \in Seq(Mark) /\ mark[s] \in Mark
  BY DEF TypeOK
<1>2. \A i \in 1..Len(out[s]) : out[s][i] \in Line
  BY <1>1
<1>3. \A i \in 1..Len(marks[s]) : marks[s][i] \in Mark
  BY <1>1
<1> QED
  BY <1>1, <1>2, <1>3, LenProperties DEF Line, Mark

(* Neither clock goes back. *)
LEMMA ClocksAdvance ==
  ASSUME OnlyForward, TypeOK, [Next]_vars
  PROVE  now <= now' /\ skew <= skew' /\ Wall <= Wall'
<1>1. now \in Nat /\ skew \in Nat
  BY ClockTypes
<1>2. CASE Tick
  BY <1>1, <1>2 DEF Tick, Wall
<1>3. CASE StepWallClock
  <2>1. PICK k \in Skews : <<skew, k>> \in Steps /\ skew' = k /\ now' = now
    BY <1>3 DEF StepWallClock
  <2>2. skew <= k /\ k \in Nat
    BY <2>1, ClockAssumption DEF OnlyForward
  <2> QED
    BY <1>1, <2>1, <2>2 DEF Wall
<1>4. CASE now' = now /\ skew' = skew
  BY <1>1, <1>4 DEF Wall
<1>5. ASSUME NEW s \in Sources, Emit(s) \/ Exit(s) \/ Reader(s) PROVE now' = now /\ skew' = skew
  BY <1>5 DEF Emit, Exit, Reader, ReadLine, ReadEnd, MarkUnix, MarkMono, Store, ReaderFails
<1>6. CASE Sniff
  BY <1>4, <1>6 DEF Sniff
<1>7. CASE Closing
  BY <1>4, <1>7 DEF Closing, CutUnix, CutMono, StopCapture, Trim, CloseFails, CheckError, Snapshot
<1>8. CASE Cleanup
  BY <1>4, <1>8 DEF Cleanup, BeginCleanup, Done, Terminate, Finish
<1>9. CASE UNCHANGED vars
  BY <1>4, <1>9 DEF vars
<1> QED
  BY <1>2, <1>3, <1>4, <1>5, <1>6, <1>7, <1>8, <1>9 DEF Next, World, Finished

(* Before the cutoff is read on a clock it is in the future, then it stays *)
(* where it is: the main thread goes through its phases in order.          *)
LEMMA CutoffSteps ==
  ASSUME TypeOK, [Next]_vars
  PROVE  \/ CutUnix \/ CutMono
         \/ /\ end' = end /\ (phase = "observe" <=> phase' = "observe")
            /\ (phase = "mark" <=> phase' = "mark")
<1>1. CASE Tick \/ StepWallClock \/ Sniff
  BY <1>1 DEF Tick, StepWallClock, Sniff
<1>2. ASSUME NEW s \in Sources, Emit(s) \/ Exit(s) \/ Reader(s)
      PROVE  end' = end /\ phase' = phase
  BY <1>2 DEF Emit, Exit, Reader, ReadLine, ReadEnd, MarkUnix, MarkMono, Store, ReaderFails
<1>3. CASE StopCapture \/ Trim \/ CloseFails
  BY <1>3 DEF StopCapture, Trim, CloseFails
<1>4. ASSUME NEW s \in Sources, CheckError(s) \/ Snapshot(s)
      PROVE  /\ end' = end /\ (phase = "observe" <=> phase' = "observe")
             /\ (phase = "mark" <=> phase' = "mark")
  BY <1>4 DEF CheckError, Snapshot
<1>5. CASE Cleanup
  BY <1>5 DEF Cleanup, BeginCleanup, Done, Terminate, Finish
<1>6. CASE UNCHANGED vars
  BY <1>6 DEF vars
<1> QED
  BY <1>1, <1>2, <1>3, <1>4, <1>5, <1>6 DEF Next, World, Closing, Finished

(* The start of the tested station is not recorded twice. *)
LEMMA StartedOnce == [Next]_vars => started' = started
<1> SUFFICES ASSUME [Next]_vars PROVE started' = started
  OBVIOUS
<1>1. CASE World \/ UNCHANGED vars
  BY <1>1 DEF World, Tick, StepWallClock, Sniff, Emit, Exit, vars
<1>2. ASSUME NEW s \in Sources, Reader(s) PROVE started' = started
  BY <1>2 DEF Reader, ReadLine, ReadEnd, MarkUnix, MarkMono, Store, ReaderFails
<1>3. CASE Closing
  BY <1>3 DEF Closing, CutUnix, CutMono, StopCapture, Trim, CloseFails, CheckError, Snapshot
<1>4. CASE Cleanup
  BY <1>4 DEF Cleanup, BeginCleanup, Done, Terminate, Finish
<1> QED
  BY <1>1, <1>2, <1>3, <1>4 DEF Next, Finished

(* The cutoff stays in its place on the two clocks. *)
LEMMA CutoffStep ==
  ASSUME OnlyForward, ForwardInv, [Next]_vars
  PROVE  CutoffOnClocks'
<1>1. TypeOK /\ CutoffOnClocks
  BY DEF ForwardInv, WindowInv
<1>2. TypeOK'
  BY <1>1, TypeStep
<1>3. now \in Nat /\ skew \in Nat /\ started.unix \in Int /\ end.unix \in Int /\ end.mono \in Int
  BY <1>1, ClockTypes
<1>4. now' \in Nat /\ skew' \in Nat /\ Wall' = now' + skew' /\ Wall = now + skew
  BY <1>1, <1>2, ClockTypes, ClockAssumption DEF TypeOK, Wall
<1>5. now <= now' /\ skew <= skew' /\ Wall <= Wall'
  BY <1>1, ClocksAdvance
<1>6. started' = started
  BY StartedOnce
<1>7. CASE CutUnix
  <2>1. end'.unix = Wall /\ end'.mono = end.mono /\ phase' = "mark"
    BY <1>1, <1>7 DEF CutUnix, TypeOK, Mark
  <2>2. Wall \in Int /\ Wall' \in Int
    BY <1>3, <1>4
  <2>3. started.mono = 0 /\ started.unix <= Wall /\ end.mono >= 0
    BY <1>1 DEF CutoffOnClocks
  <2>4. started.unix <= Wall'
    BY <1>3, <1>5, <2>2, <2>3
  <2>5. started.unix <= end'.unix /\ end'.unix <= Wall'
    BY <1>5, <2>1, <2>3
  <2> QED
    BY <1>6, <2>1, <2>3, <2>4, <2>5 DEF CutoffOnClocks
<1>8. CASE CutMono
  <2>1. end'.mono = now /\ end'.unix = end.unix /\ phase' = "stop" /\ phase = "mark"
        /\ now' = now /\ skew' = skew
    BY <1>1, <1>8 DEF CutMono, TypeOK, Mark
  <2>2. /\ started.mono = 0 /\ started.unix <= Wall' /\ now >= 0
        /\ started.unix <= end.unix /\ end.unix - now <= skew /\ now <= now
    BY <1>1, <1>3, <1>4, <1>5, <2>1 DEF CutoffOnClocks
  <2> QED
    BY <1>6, <2>1, <2>2 DEF CutoffOnClocks
<1>9. CASE /\ end' = end /\ (phase = "observe" <=> phase' = "observe")
           /\ (phase = "mark" <=> phase' = "mark")
  BY <1>1, <1>3, <1>4, <1>5, <1>6, <1>9 DEF CutoffOnClocks
<1> QED
  BY <1>1, <1>7, <1>8, <1>9, CutoffSteps

(* What has been written or recorded does not change. *)
LEMMA LogsGrow ==
  ASSUME TypeOK, [Next]_vars, NEW r \in Sources
  PROVE  /\ Len(out[r]) \in Nat /\ Len(out'[r]) \in Nat /\ Len(out[r]) <= Len(out'[r])
         /\ \A i \in 1..Len(out[r]) : out'[r][i] = out[r][i]
         /\ Len(marks[r]) \in Nat /\ Len(marks'[r]) \in Nat /\ Len(marks[r]) <= Len(marks'[r])
         /\ \A i \in 1..Len(marks[r]) : marks'[r][i] = marks[r][i]
<1> DEFINE Grows == /\ Len(out[r]) <= Len(out'[r])
                    /\ \A i \in 1..Len(out[r]) : out'[r][i] = out[r][i]
                    /\ Len(marks[r]) <= Len(marks'[r])
                    /\ \A i \in 1..Len(marks[r]) : marks'[r][i] = marks[r][i]
<1>1. /\ out[r] \in Seq(Line) /\ marks[r] \in Seq(Mark)
      /\ Len(out[r]) \in Nat /\ Len(marks[r]) \in Nat
  BY SourceTypes
<1>2. Len(out'[r]) \in Nat /\ Len(marks'[r]) \in Nat
  BY TypeStep, LenProperties DEF TypeOK
<1>3. CASE out' = out /\ marks' = marks
  BY <1>1, <1>3
<1>4. ASSUME NEW s \in Sources, Emit(s) PROVE Grows
  <2>1. PICK line : out' = [out EXCEPT ![s] = Append(out[s], line)]
    BY <1>4 DEF Emit
  <2>2. CASE s # r
    BY <1>1, <1>4, <2>1, <2>2 DEF Emit, TypeOK
  <2>3. CASE s = r
    <3>1. out'[r] = Append(out[r], line)
      BY <2>1, <2>3 DEF TypeOK
    <3>2. marks' = marks
      BY <1>4 DEF Emit
    <3>3. Len(out'[r]) = Len(out[r]) + 1 /\ \A i \in 1..Len(out[r]) : out'[r][i] = out[r][i]
      BY <1>1, <3>1
    <3> QED
      BY <1>1, <3>2, <3>3
  <2> QED
    BY <2>2, <2>3
<1>5. ASSUME NEW s \in Sources, Store(s) PROVE Grows
  <2>1. marks' = [marks EXCEPT ![s] = Append(marks[s], mark[s])] /\ out' = out
    BY <1>5 DEF Store
  <2>2. CASE s # r
    BY <1>1, <2>1, <2>2 DEF TypeOK
  <2>3. CASE s = r
    <3>1. marks'[r] = Append(marks[r], mark[r])
      BY <2>1, <2>3 DEF TypeOK
    <3>2. Len(marks'[r]) = Len(marks[r]) + 1
          /\ \A i \in 1..Len(marks[r]) : marks'[r][i] = marks[r][i]
      BY <1>1, <3>1
    <3> QED
      BY <1>1, <2>1, <3>2
  <2> QED
    BY <2>2, <2>3
<1>6. CASE Tick \/ StepWallClock \/ Sniff
  BY <1>3, <1>6 DEF Tick, StepWallClock, Sniff
<1>7. ASSUME NEW s \in Sources,
             Exit(s) \/ ReadLine(s) \/ ReadEnd(s) \/ MarkUnix(s) \/ MarkMono(s) \/ ReaderFails(s)
      PROVE  Grows
  BY <1>3, <1>7 DEF Exit, ReadLine, ReadEnd, MarkUnix, MarkMono, ReaderFails
<1>8. CASE Closing
  BY <1>3, <1>8 DEF Closing, CutUnix, CutMono, StopCapture, Trim, CloseFails, CheckError, Snapshot
<1>9. CASE Cleanup
  BY <1>3, <1>9 DEF Cleanup, BeginCleanup, Done, Terminate, Finish
<1>10. CASE UNCHANGED vars
  BY <1>3, <1>10 DEF vars
<1>11. Grows
  BY <1>4, <1>5, <1>6, <1>7, <1>8, <1>9, <1>10 DEF Next, World, Reader, Finished
<1> QED
  BY <1>1, <1>2, <1>11

(* Packets are added by tcpdump only, while it runs. *)
LEMMA PacketSteps == [Next]_vars => Sniff \/ packets' = packets
<1> SUFFICES ASSUME [Next]_vars PROVE Sniff \/ packets' = packets
  OBVIOUS
<1>1. CASE Tick \/ StepWallClock \/ UNCHANGED vars
  BY <1>1 DEF Tick, StepWallClock, vars
<1>2. ASSUME NEW s \in Sources, Emit(s) \/ Exit(s) \/ Reader(s) PROVE packets' = packets
  BY <1>2 DEF Emit, Exit, Reader, ReadLine, ReadEnd, MarkUnix, MarkMono, Store, ReaderFails
<1>3. CASE Closing
  BY <1>3 DEF Closing, CutUnix, CutMono, StopCapture, Trim, CloseFails, CheckError, Snapshot
<1>4. CASE Cleanup
  BY <1>4 DEF Cleanup, BeginCleanup, Done, Terminate, Finish
<1> QED
  BY <1>1, <1>2, <1>3, <1>4 DEF Next, World, Finished

(* Views and the capture are written by Snapshot and Trim only. *)
LEMMA SealSteps ==
  [Next]_vars => \/ Trim
                 \/ \E s \in Sources : Snapshot(s)
                 \/ capture' = capture /\ view' = view /\ (phase' = "trim" => phase = "trim")
<1> SUFFICES ASSUME [Next]_vars, ~ Trim, ~ \E s \in Sources : Snapshot(s)
             PROVE  capture' = capture /\ view' = view /\ (phase' = "trim" => phase = "trim")
  OBVIOUS
<1>1. CASE Tick \/ StepWallClock \/ Sniff \/ UNCHANGED vars
  BY <1>1 DEF Tick, StepWallClock, Sniff, vars
<1>2. ASSUME NEW s \in Sources, Emit(s) \/ Exit(s) \/ Reader(s)
      PROVE  capture' = capture /\ view' = view /\ phase' = phase
  BY <1>2 DEF Emit, Exit, Reader, ReadLine, ReadEnd, MarkUnix, MarkMono, Store, ReaderFails
<1>3. CASE Closing
  BY <1>3 DEF Closing, CutUnix, CutMono, StopCapture, CloseFails, CheckError
<1>4. CASE Cleanup
  BY <1>4 DEF Cleanup, BeginCleanup, Done, Terminate, Finish
<1> QED
  BY <1>1, <1>2, <1>3, <1>4 DEF Next, World, Finished

(* A packet goes at the end of the capture. *)
LEMMA PacketsGrow ==
  ASSUME TypeOK, [Next]_vars
  PROVE  \A i \in DOMAIN packets : i \in DOMAIN packets' /\ packets'[i] = packets[i]
<1>1. CASE Sniff
  <2> DEFINE Packet == [at : Int, ts : Int]
             packet == [at |-> now, ts |-> Wall]
  <2>1. packets \in Seq(Packet) /\ packets' = Append(packets, packet)
    BY <1>1 DEF Sniff, TypeOK
  <2> HIDE DEF Packet, packet
  <2>2. /\ DOMAIN packets = 1..Len(packets) /\ DOMAIN packets' = 1..(Len(packets) + 1)
        /\ Len(packets) \in Nat
        /\ \A i \in 1..Len(packets) : packets'[i] = packets[i]
    BY <2>1
  <2> QED
    BY <2>2
<1>2. CASE packets' = packets
  BY <1>2
<1> QED
  BY <1>1, <1>2, PacketSteps

(* The packets that come between the cutoff and the end of tcpdump are on  *)
(* the right side of it on both clocks.                                    *)
LEMMA PacketsStep ==
  ASSUME OnlyForward, ForwardInv, [Next]_vars
  PROVE  PacketsInOrder'
<1>1. TypeOK /\ PacketsInOrder /\ CutoffOnClocks
  BY DEF ForwardInv, WindowInv
<1>2. TypeOK'
  BY <1>1, TypeStep
<1>3. /\ now \in Nat /\ skew \in Nat /\ end.unix \in Int /\ end.mono \in Int
      /\ \A i \in DOMAIN packets : packets[i].at \in Int /\ packets[i].ts \in Int
  BY <1>1, ClockTypes
<1>4. now' \in Nat /\ now <= now'
  BY <1>1, <1>2, ClocksAdvance DEF TypeOK
<1>5. CASE Sniff
  <2> DEFINE Packet == [at : Int, ts : Int]
             packet == [at |-> now, ts |-> Wall]
  <2>1. /\ packets \in Seq(Packet) /\ packets' = Append(packets, packet)
        /\ end' = end /\ phase' = phase /\ now' = now
    BY <1>1, <1>5 DEF Sniff, TypeOK
  <2>2. packet.at = now /\ packet.ts = now + skew
    BY DEF Wall
  <2> HIDE DEF Packet, packet
  <2>3. /\ DOMAIN packets = 1..Len(packets) /\ DOMAIN packets' = 1..(Len(packets) + 1)
        /\ Len(packets) \in Nat
        /\ \A i \in 1..Len(packets) : packets'[i] = packets[i]
        /\ packets'[Len(packets) + 1] = packet
    BY <2>1
  <2>4. \A i \in DOMAIN packets' : packets'[i].at <= now
    BY <1>1, <1>3, <2>2, <2>3 DEF PacketsInOrder
  <2>5. phase \notin {"observe", "mark"} /\ now + skew <= end.unix => now <= end.mono
    BY <1>1, <1>3 DEF CutoffOnClocks
  <2>6. phase \notin {"observe", "mark"} =>
          \A i \in DOMAIN packets' : packets'[i].ts <= end.unix => packets'[i].at <= end.mono
    BY <1>1, <2>2, <2>3, <2>5 DEF PacketsInOrder
  <2> QED
    BY <2>1, <2>4, <2>6 DEF PacketsInOrder
<1>6. CASE packets' = packets
  <2>1. \A i \in DOMAIN packets' : packets'[i].at <= now'
    BY <1>1, <1>3, <1>4, <1>6 DEF PacketsInOrder
  <2>2. CASE CutUnix
    BY <2>1, <2>2 DEF CutUnix, PacketsInOrder
  <2>3. CASE CutMono
    <3>1. end'.mono = now
      BY <1>1, <2>3 DEF CutMono, TypeOK, Mark
    <3>2. \A i \in DOMAIN packets' : packets'[i].at <= end'.mono
      BY <1>1, <1>6, <3>1 DEF PacketsInOrder
    <3> QED
      BY <2>1, <3>2 DEF PacketsInOrder
  <2>4. CASE /\ end' = end /\ (phase = "observe" <=> phase' = "observe")
             /\ (phase = "mark" <=> phase' = "mark")
    BY <1>1, <1>6, <2>1, <2>4 DEF PacketsInOrder
  <2> QED
    BY <1>1, <2>2, <2>3, <2>4, CutoffSteps
<1> QED
  BY <1>5, <1>6, PacketSteps

(* A view that snapshot writes is never mistaken for one that is missing.  *)
LEMMA SnapshotSeals == \A s : Retained(s, Eligible(s)) # Unsealed
  BY RetainedBounds DEF Unsealed

(* The visible capture is fixed by Trim after every log was sealed. *)
LEMMA CaptureStep ==
  ASSUME ForwardInv, [Next]_vars
  PROVE  CaptureIsTrimmed'
<1>1. TypeOK /\ CaptureIsTrimmed
  BY DEF ForwardInv, WindowInv
<1>2. \A i \in DOMAIN packets : i \in DOMAIN packets' /\ packets'[i] = packets[i]
  BY <1>1, PacketsGrow
<1>3. CASE Trim
  <2>1. /\ phase = "trim" /\ phase' = "query" /\ view' = view /\ end' = end /\ packets' = packets
        /\ capture' = {i \in DOMAIN packets : packets[i].ts <= end.unix}
    BY <1>3 DEF Trim
  <2> QED
    BY <1>1, <2>1 DEF CaptureIsTrimmed, Sealed
<1>4. ASSUME NEW s \in Sources, Snapshot(s) PROVE CaptureIsTrimmed'
  <2>1. /\ phase = "seal" /\ phase' \in {"trim", "seal"}
        /\ view' = [view EXCEPT ![s] = Retained(s, Eligible(s))]
        /\ phase' = "trim" => \A r \in Sources \ {s} : view[r] # Unsealed
        /\ capture' = capture /\ end' = end /\ packets' = packets
    BY <1>4 DEF Snapshot
  <2>2. /\ view'[s] # Unsealed
        /\ \A r \in Sources \ {s} : view'[r] = view[r]
    BY <1>1, <2>1, SnapshotSeals DEF TypeOK
  <2>3. phase' = "trim" \/ capture # Unsealed => \A r \in Sources : view'[r] # Unsealed
    BY <1>1, <2>1, <2>2 DEF CaptureIsTrimmed, Sealed
  <2> QED
    BY <1>1, <2>1, <2>3 DEF CaptureIsTrimmed, Sealed
<1>5. CASE capture' = capture /\ view' = view /\ (phase' = "trim" => phase = "trim")
  <2>1. phase' = "trim" => \A s \in Sources : view'[s] # Unsealed
    BY <1>1, <1>5 DEF CaptureIsTrimmed, Sealed
  <2>2. CASE CutUnix \/ CutMono
    BY <1>1, <1>5, <2>1, <2>2 DEF CutUnix, CutMono, CaptureIsTrimmed, Sealed
  <2>3. CASE /\ end' = end /\ (phase = "observe" <=> phase' = "observe")
             /\ (phase = "mark" <=> phase' = "mark")
    <3>1. phase' \in {"observe", "mark"} => capture' = Unsealed
      BY <1>1, <1>5, <2>3 DEF CaptureIsTrimmed
    <3>2. capture' # Unsealed =>
            /\ \A i \in capture' : i \in DOMAIN packets' /\ packets'[i].ts <= end'.unix
            /\ \A s \in Sources : view'[s] # Unsealed
      BY <1>1, <1>2, <1>5, <2>3 DEF CaptureIsTrimmed, Sealed
    <3> QED
      BY <2>1, <3>1, <3>2 DEF CaptureIsTrimmed, Sealed, Unsealed
  <2> QED
    BY <1>1, <2>2, <2>3, CutoffSteps
<1> QED
  BY <1>3, <1>4, <1>5, SealSteps

(* Every reader takes the marks of its lines in the order of the lines,    *)
(* each after the line was stamped.                                        *)
LEMMA MarksStep ==
  ASSUME OnlyForward, ForwardInv, [Next]_vars, NEW r \in Sources
  PROVE  MarksInOrder(r)'
<1> DEFINE Holds == r \in Sources /\ MarksInOrder(r)'
           n == Len(marks[r])
<1>1. TypeOK /\ RecordsFollowLines(r) /\ MarksInOrder(r)
  BY DEF ForwardInv, WindowInv
<1>2. /\ out[r] \in Seq(Line) /\ marks[r] \in Seq(Mark)
      /\ Len(out[r]) \in Nat /\ n \in Nat
      /\ \A i \in 1..Len(out[r]) : out[r][i].stamp \in SUBSET Int
      /\ \A i \in 1..n : marks[r][i].unix \in Int /\ marks[r][i].mono \in Int
      /\ mark[r] \in Mark /\ mark[r].unix \in Int /\ mark[r].mono \in Int
  BY <1>1, SourceTypes
<1>3. TypeOK' /\ now \in Int /\ Wall \in Int /\ now' \in Int /\ Wall' \in Int
  <2>1. TypeOK'
    BY <1>1, TypeStep
  <2>2. Wall' \in Int
    BY <2>1, ClockAssumption DEF TypeOK, Wall
  <2>3. now \in Int /\ Wall \in Int
    BY <1>1, ClockTypes
  <2>4. now' \in Int
    BY <2>1 DEF TypeOK
  <2> QED
    BY <2>1, <2>2, <2>3, <2>4
<1>4. now <= now' /\ Wall <= Wall'
  BY <1>1, ClocksAdvance
<1>5. /\ \A i \in 1..Len(out[r]) : StampedBy(r, i, Wall')
      /\ \A i \in 1..n : /\ StampedBy(r, i, marks[r][i].unix)
                         /\ marks[r][i].unix <= Wall' /\ marks[r][i].mono <= now'
                         /\ MarkedBy(r, i, marks[r][i])
      /\ rpc[r] \in {"mono", "store"} =>
           /\ StampedBy(r, n + 1, mark[r].unix)
           /\ mark[r].unix <= Wall'
           /\ \A i \in 1..n : marks[r][i].unix <= mark[r].unix
      /\ rpc[r] = "store" => mark[r].mono <= now' /\ MarkedBy(r, n, mark[r])
  BY <1>1, <1>2, <1>3, <1>4, SMTT(30) DEF MarksInOrder, StampedBy
<1>6. ASSUME out'[r] = out[r], marks'[r] = marks[r],
             rpc'[r] \in {"mono", "store"} => rpc'[r] = rpc[r] /\ mark'[r] = mark[r]
      PROVE  Holds
  BY <1>5, <1>6 DEF MarksInOrder, StampedBy, MarkedBy
<1>7. ASSUME NEW s \in Sources, Emit(s) PROVE Holds
  <2>1. PICK kind \in Kinds(s) :
          LET stamp == IF s \in Stamped /\ kind # "indented" THEN {Wall} ELSE {}
          IN  out' = [out EXCEPT ![s] = Append(@, [at |-> now, stamp |-> stamp, kind |-> kind])]
    BY <1>7 DEF Emit
  <2> DEFINE line == [at |-> now,
                      stamp |-> IF s \in Stamped /\ kind # "indented" THEN {Wall} ELSE {},
                      kind |-> kind]
  <2>2. out' = [out EXCEPT ![s] = Append(out[s], line)]
    BY <2>1
  <2>3. marks' = marks /\ mark' = mark /\ rpc' = rpc /\ Wall' = Wall
    BY <1>7 DEF Emit, Wall
  <2>4. \A stamp \in line.stamp : stamp <= Wall
    BY <1>3
  <2> HIDE DEF line
  <2>5. CASE s # r
    BY <1>6, <2>2, <2>3, <2>5
  <2>6. CASE s = r
    <3>1. out'[r] = Append(out[r], line)
      BY <1>1, <2>2, <2>6 DEF TypeOK
    <3>2. /\ Len(out'[r]) = Len(out[r]) + 1
          /\ \A i \in 1..Len(out[r]) : out'[r][i] = out[r][i]
          /\ out'[r][Len(out[r]) + 1] = line
      BY <1>2, <3>1
    <3>3. ASSUME NEW i \in 1..Len(out'[r]) PROVE StampedBy(r, i, Wall)'
      <4>1. CASE i \in 1..Len(out[r])
        BY <1>5, <3>2, <4>1 DEF StampedBy
      <4>2. CASE i = Len(out[r]) + 1
        BY <2>3, <2>4, <3>2, <4>2 DEF StampedBy
      <4> QED
        BY <1>2, <3>2, <4>1, <4>2
    <3>4. \A i \in 1..n : StampedBy(r, i, marks[r][i].unix)'
      BY <1>1, <1>2, <1>5, <2>3, <3>2, SMTT(30) DEF StampedBy, RecordsFollowLines
    <3>5. rpc[r] \in {"mono", "store"} => StampedBy(r, n + 1, mark[r].unix)'
      <4> SUFFICES ASSUME rpc[r] \in {"mono", "store"} PROVE StampedBy(r, n + 1, mark[r].unix)'
        OBVIOUS
      <4>1. n + 1 \in 1..Len(out[r])
        BY <1>1, <1>2 DEF RecordsFollowLines
      <4> QED
        BY <1>5, <2>3, <3>2, <4>1 DEF StampedBy
    <3>6. \A i \in 1..n : MarkedBy(r, i, marks[r][i])'
      BY <1>5, <2>3 DEF MarkedBy
    <3>7. rpc[r] = "store" => MarkedBy(r, n, mark[r])'
      BY <1>5, <2>3 DEF MarkedBy
    <3> QED
      BY <1>5, <2>3, <3>3, <3>4, <3>5, <3>6, <3>7 DEF MarksInOrder
  <2> QED
    BY <2>5, <2>6
<1>8. ASSUME NEW s \in Sources, Reader(s) PROVE Holds
  <2>1. out' = out /\ Wall' = Wall /\ now' = now
    BY <1>8 DEF Reader, ReadLine, ReadEnd, MarkUnix, MarkMono, Store, ReaderFails, Wall
  <2>2. CASE s # r
    <3>1. rpc'[r] = rpc[r] /\ mark'[r] = mark[r] /\ marks'[r] = marks[r]
      BY <1>1, <1>8, <2>2 DEF Reader, ReadLine, ReadEnd, MarkUnix, MarkMono, Store, ReaderFails,
                              Goes, TypeOK
    <3> QED
      BY <1>6, <2>1, <3>1
  <2>3. CASE s = r /\ (ReadLine(s) \/ ReadEnd(s) \/ ReaderFails(s))
    <3>1. rpc'[r] \notin {"mono", "store"} /\ marks'[r] = marks[r]
      BY <1>1, <2>3 DEF ReadLine, ReadEnd, ReaderFails, Goes, TypeOK
    <3> QED
      BY <1>6, <2>1, <3>1
  <2>4. CASE s = r /\ MarkUnix(s)
    <3>1. /\ rpc[r] = "unix" /\ rpc'[r] = "mono" /\ marks' = marks
          /\ mark'[r].unix = Wall
      BY <1>1, <1>2, <2>4 DEF MarkUnix, Goes, TypeOK, Mark
    <3>2. n + 1 \in 1..Len(out[r])
      BY <1>1, <1>2, <3>1 DEF RecordsFollowLines
    <3>3. StampedBy(r, n + 1, Wall)'
      BY <1>5, <2>1, <3>1, <3>2 DEF StampedBy
    <3>4. /\ \A i \in 1..Len(out[r]) : StampedBy(r, i, Wall)'
          /\ \A i \in 1..n : StampedBy(r, i, marks[r][i].unix)' /\ MarkedBy(r, i, marks[r][i])'
      BY <1>5, <2>1, <3>1 DEF StampedBy, MarkedBy
    <3> QED
      BY <1>3, <1>5, <2>1, <3>1, <3>3, <3>4 DEF MarksInOrder
  <2>5. CASE s = r /\ MarkMono(s)
    <3>1. /\ rpc[r] = "mono" /\ rpc'[r] = "store" /\ marks' = marks
          /\ mark'[r].unix = mark[r].unix /\ mark'[r].mono = now
      <4>1. mark'[r] = [mark[r] EXCEPT !.mono = now]
        BY <1>1, <2>5 DEF MarkMono, TypeOK
      <4> QED
        BY <1>1, <1>2, <1>3, <2>5, <4>1, MarkExcept DEF MarkMono, Goes, TypeOK
    <3>2. /\ \A i \in 1..Len(out[r]) : StampedBy(r, i, Wall)'
          /\ \A i \in 1..n : StampedBy(r, i, marks[r][i].unix)' /\ MarkedBy(r, i, marks[r][i])'
          /\ StampedBy(r, n + 1, mark[r].unix)'
      BY <1>5, <2>1, <3>1 DEF StampedBy, MarkedBy
    <3>3. MarkedBy(r, n, mark[r])'
      BY <1>5, <2>1, <3>1 DEF MarkedBy
    <3> QED
      BY <1>3, <1>5, <2>1, <3>1, <3>2, <3>3 DEF MarksInOrder
  <2>6. CASE s = r /\ Store(s)
    <3>1. /\ rpc[r] = "store" /\ rpc'[r] = "read"
          /\ marks'[r] = Append(marks[r], mark[r])
      BY <1>1, <2>6 DEF Store, Goes, TypeOK
    <3>2. /\ Len(marks'[r]) = n + 1
          /\ \A i \in 1..n : marks'[r][i] = marks[r][i]
          /\ marks'[r][n + 1] = mark[r]
      BY <1>2, <3>1
    <3>3. \A i \in 1..Len(out[r]) : StampedBy(r, i, Wall)'
      BY <1>5, <2>1 DEF StampedBy
    <3>4. ASSUME NEW i \in 1..n
          PROVE  /\ StampedBy(r, i, marks[r][i].unix)'
                 /\ marks'[r][i].unix <= Wall' /\ marks'[r][i].mono <= now'
                 /\ MarkedBy(r, i, marks[r][i])'
      <4>1. marks'[r][i] = marks[r][i] /\ \A j \in 1..i : marks'[r][j] = marks[r][j]
        <5>1. i \in 1..n /\ \A j \in 1..i : j \in 1..n
          BY <1>2
        <5> HIDE DEF n
        <5> QED
          BY <3>2, <5>1
      <4>2. StampedBy(r, i, marks[r][i].unix)'
        <5>1. StampedBy(r, i, marks[r][i].unix)
          BY <1>5
        <5> QED
          BY <2>1, <4>1, <5>1 DEF StampedBy
      <4>3. MarkedBy(r, i, marks[r][i])'
        BY <1>5, <4>1 DEF MarkedBy
      <4> QED
        BY <1>5, <4>1, <4>2, <4>3
    <3>5. /\ StampedBy(r, n + 1, marks'[r][n + 1].unix)
          /\ marks'[r][n + 1].unix <= Wall' /\ marks'[r][n + 1].mono <= now'
      BY <1>5, <3>1, <3>2 DEF StampedBy
    <3>6. \A i \in 1..(n + 1) : /\ marks'[r][i].unix <= marks'[r][n + 1].unix
                                /\ marks'[r][i].mono <= marks'[r][n + 1].mono
      BY <1>2, <1>5, <3>1, <3>2 DEF MarkedBy
    <3>7. ASSUME NEW i \in 1..Len(marks'[r])
          PROVE  /\ StampedBy(r, i, marks[r][i].unix)'
                 /\ marks'[r][i].unix <= Wall' /\ marks'[r][i].mono <= now'
                 /\ MarkedBy(r, i, marks[r][i])'
      <4>1. CASE i \in 1..n
        BY <3>4, <4>1
      <4>2. CASE i = n + 1
        BY <2>1, <3>5, <3>6, <4>2 DEF StampedBy, MarkedBy
      <4> QED
        BY <1>2, <3>2, <4>1, <4>2
    <3> QED
      BY <2>1, <3>1, <3>3, <3>7 DEF MarksInOrder
  <2> QED
    BY <1>8, <2>2, <2>3, <2>4, <2>5, <2>6 DEF Reader
<1>9. CASE Tick \/ StepWallClock \/ Sniff \/ UNCHANGED vars
  BY <1>6, <1>9 DEF Tick, StepWallClock, Sniff, vars
<1>10. ASSUME NEW s \in Sources, Exit(s) PROVE Holds
  BY <1>6, <1>10 DEF Exit
<1>11. CASE Closing
  BY <1>6, <1>11 DEF Closing, CutUnix, CutMono, StopCapture, Trim, CloseFails, CheckError, Snapshot
<1>12. CASE Cleanup
  BY <1>6, <1>12 DEF Cleanup, BeginCleanup, Done, Terminate, Finish
<1> QED
  BY <1>7, <1>8, <1>9, <1>10, <1>11, <1>12 DEF Next, World, Finished

(* Whether a line is in a block depends on the lines up to it. *)
LEMMA BlocksStay ==
  ASSUME NEW s, NEW n \in Nat, \A i \in 1..n : out'[s][i] = out[s][i]
  PROVE  \A i \in 1..n : InEchoBlock(s, i)' <=> InEchoBlock(s, i)
<1> SUFFICES ASSUME NEW i \in 1..n PROVE InEchoBlock(s, i)' <=> InEchoBlock(s, i)
  OBVIOUS
<1>1. \A j \in 1..i : /\ out'[s][j] = out[s][j]
                      /\ \A k \in (j + 1)..i : out'[s][k] = out[s][k]
  OBVIOUS
<1> QED
  BY <1>1 DEF InEchoBlock

(* What snapshot keeps is a prefix: a line received and stamped by the     *)
(* cutoff comes after lines that were.                                     *)
LEMMA EligibleIsPrefix ==
  ASSUME TypeOK, NEW s \in Sources, RecordsFollowLines(s), MarksInOrder(s)
  PROVE  \E n \in 0..Len(marks[s]) : Eligible(s) = 1..n
<1>1. /\ Len(marks[s]) \in Nat /\ Len(out[s]) \in Nat /\ Len(marks[s]) <= Len(out[s])
      /\ end.unix \in Int /\ end.mono \in Int
      /\ \A i \in 1..Len(marks[s]) : marks[s][i].unix \in Int /\ marks[s][i].mono \in Int
      /\ \A i \in 1..Len(out[s]) : out[s][i].stamp \in SUBSET Int
  BY SourceTypes, ClockTypes DEF RecordsFollowLines
<1>2. Eligible(s) \in SUBSET (1..Len(marks[s]))
  BY DEF Eligible
<1>3. ASSUME NEW i \in Eligible(s), NEW j \in 1..i PROVE j \in Eligible(s)
  <2>1. /\ i \in 1..Len(marks[s]) /\ j \in 1..Len(marks[s])
        /\ marks[s][i].unix <= end.unix /\ marks[s][i].mono <= end.mono
    BY <1>1, <1>3 DEF Eligible
  <2>2. marks[s][j].unix <= marks[s][i].unix /\ marks[s][j].mono <= marks[s][i].mono
    BY <1>3, <2>1 DEF MarksInOrder, MarkedBy
  <2>3. marks[s][j].unix <= end.unix /\ marks[s][j].mono <= end.mono
    BY <1>1, <2>1, <2>2, SMTT(30)
  <2>4. \A t \in out[s][j].stamp : t <= marks[s][j].unix
    BY <2>1 DEF MarksInOrder, StampedBy
  <2>5. \A t \in out[s][j].stamp : t <= end.unix
    BY <1>1, <2>1, <2>3, <2>4, SMTT(30)
  <2> QED
    BY <2>1, <2>3, <2>5 DEF Eligible
<1> QED
  BY <1>1, <1>2, <1>3, InitialPlaces

(* A view is a prefix without its blocks when it is sealed, and stays so.  *)
LEMMA ViewsStep ==
  ASSUME ForwardInv, [Next]_vars, NEW r \in Sources
  PROVE  ViewsArePrefixes(r)'
<1>1. /\ TypeOK /\ RecordsFollowLines(r) /\ MarksInOrder(r) /\ ViewsArePrefixes(r)
      /\ CaptureIsTrimmed
  BY DEF ForwardInv, WindowInv
<1>2. /\ Len(out[r]) \in Nat /\ Len(out'[r]) \in Nat /\ Len(out[r]) <= Len(out'[r])
      /\ \A i \in 1..Len(out[r]) : out'[r][i] = out[r][i]
      /\ Len(marks[r]) \in Nat /\ Len(marks'[r]) \in Nat /\ Len(marks[r]) <= Len(marks'[r])
      /\ \A i \in 1..Len(marks[r]) : marks'[r][i] = marks[r][i]
      /\ Len(marks[r]) <= Len(out[r])
  BY <1>1, LogsGrow DEF RecordsFollowLines
<1>3. ASSUME view'[r] = view[r], end' = end, Sealed(r), phase' \notin {"observe", "mark"}
      PROVE  ViewsArePrefixes(r)'
  <2>1. PICK n \in Nat : ViewIsPrefix(r, n)
    BY <1>1, <1>3 DEF ViewsArePrefixes
  <2>2. n \in 0..Len(marks[r])
    BY <2>1 DEF ViewIsPrefix
  <2>3. n \in 0..Len(marks'[r])
    BY <1>2, <2>2
  <2>4. \A i \in 1..n : out'[r][i] = out[r][i] /\ marks'[r][i] = marks[r][i]
    BY <1>2, <2>2
  <2>5. \A i \in 1..n : InEchoBlock(r, i)' <=> InEchoBlock(r, i)
    BY <2>4, BlocksStay
  <2>6. view'[r] = {i \in 1..n : ~ (r \in Scrubbed /\ InEchoBlock(r, i)')}
    BY <1>3, <2>1, <2>5 DEF ViewIsPrefix
  <2>7. \A i \in 1..n : /\ marks'[r][i].unix <= end'.unix /\ marks'[r][i].mono <= end'.mono
                        /\ StampedBy(r, i, end.unix)'
    BY <1>3, <2>1, <2>4 DEF ViewIsPrefix, StampedBy
  <2>8. ViewIsPrefix(r, n)'
    BY <2>3, <2>6, <2>7 DEF ViewIsPrefix
  <2> QED
    BY <1>3, <2>8 DEF ViewsArePrefixes
<1>4. ASSUME view'[r] = view[r], ~ Sealed(r) PROVE ViewsArePrefixes(r)'
  BY <1>4 DEF ViewsArePrefixes, Sealed
<1>5. CASE view'[r] = view[r]
  <2>1. CASE CutUnix \/ CutMono
    BY <1>1, <1>4, <1>5, <2>1 DEF CutUnix, CutMono, ViewsArePrefixes
  <2>2. CASE /\ end' = end /\ (phase = "observe" <=> phase' = "observe")
             /\ (phase = "mark" <=> phase' = "mark")
    BY <1>1, <1>3, <1>4, <1>5, <2>2 DEF ViewsArePrefixes
  <2> QED
    BY <1>1, <2>1, <2>2, CutoffSteps
<1>6. ASSUME Snapshot(r) PROVE ViewsArePrefixes(r)'
  <2>1. PICK n \in 0..Len(marks[r]) : Eligible(r) = 1..n
    BY <1>1, EligibleIsPrefix
  <2>2. /\ view'[r] = Retained(r, 1..n)
        /\ out' = out /\ marks' = marks /\ end' = end /\ phase' \in {"trim", "seal"}
    BY <1>1, <1>6, <2>1 DEF Snapshot, TypeOK
  <2>3. n \in Nat
    BY <1>2, <2>1
  <2>4. InEcho(r, 1..n) = {i \in 1..n : InEchoBlock(r, i)}
    BY <2>3, EchoBlocks
  <2>5. Retained(r, 1..n) = {i \in 1..n : ~ (r \in Scrubbed /\ InEchoBlock(r, i))}
    BY <2>4 DEF Retained
  <2>6. \A i \in 1..n : InEchoBlock(r, i)' <=> InEchoBlock(r, i)
    BY <2>2, <2>3, BlocksStay
  <2>7. view'[r] = {i \in 1..n : ~ (r \in Scrubbed /\ InEchoBlock(r, i)')}
    BY <2>2, <2>5, <2>6
  <2>8. \A i \in 1..n : /\ marks[r][i].unix <= end.unix /\ marks[r][i].mono <= end.mono
                        /\ StampedBy(r, i, end.unix)
    BY <2>1 DEF Eligible, StampedBy
  <2>9. ViewIsPrefix(r, n)'
    BY <2>1, <2>2, <2>7, <2>8 DEF ViewIsPrefix, StampedBy
  <2> QED
    BY <2>2, <2>3, <2>9 DEF ViewsArePrefixes
<1>7. ASSUME NEW s \in Sources, Snapshot(s), s # r PROVE view'[r] = view[r]
  BY <1>1, <1>7 DEF Snapshot, TypeOK
<1>8. Trim => view' = view
  BY DEF Trim
<1> QED
  BY <1>5, <1>6, <1>7, <1>8, SealSteps

(* Nothing has happened at the start. *)
LEMMA ForwardInit == Init => ForwardInv
<1> SUFFICES ASSUME Init PROVE ForwardInv
  OBVIOUS
<1>1. WindowInv
  BY WindowInit
<1>2. skew \in Nat /\ now = 0
  BY ClockAssumption DEF Init
<1>3. /\ started.mono = 0 /\ started.unix = skew /\ end.mono = 0 /\ phase = "observe"
      /\ capture = Unsealed /\ DOMAIN packets = {}
  BY DEF Init, NoMark
<1>4. CutoffOnClocks
  BY <1>2, <1>3 DEF CutoffOnClocks, Wall
<1>5. ASSUME NEW s \in Sources PROVE MarksInOrder(s) /\ ViewsArePrefixes(s)
  <2>1. /\ Len(out[s]) = 0 /\ Len(marks[s]) = 0 /\ rpc[s] \in {"read", "eof"}
        /\ view[s] = Unsealed
    BY DEF Init
  <2> QED
    BY <2>1 DEF MarksInOrder, ViewsArePrefixes, Sealed
<1>6. PacketsInOrder
  BY <1>3 DEF PacketsInOrder
<1>7. CaptureIsTrimmed
  BY <1>3 DEF CaptureIsTrimmed
<1> QED
  BY <1>1, <1>4, <1>5, <1>6, <1>7 DEF ForwardInv

(* Every part is kept. *)
LEMMA ForwardStep ==
  ASSUME OnlyForward
  PROVE  ForwardInv /\ [Next]_vars => ForwardInv'
<1> SUFFICES ASSUME ForwardInv, [Next]_vars PROVE ForwardInv'
  OBVIOUS
<1>1. WindowInv'
  BY WindowStep DEF ForwardInv
<1>2. CutoffOnClocks'
  BY CutoffStep
<1>3. \A s \in Sources : MarksInOrder(s)' /\ ViewsArePrefixes(s)'
  BY MarksStep, ViewsStep
<1>4. PacketsInOrder'
  BY PacketsStep
<1>5. CaptureIsTrimmed'
  BY CaptureStep
<1> QED
  BY <1>1, <1>2, <1>3, <1>4, <1>5 DEF ForwardInv

(* The wall clock is only set forward: ForwardInv is an invariant. *)
LEMMA ForwardInvariant ==
  ASSUME OnlyForward
  PROVE  Spec => []ForwardInv
<1>1. ForwardInv /\ [Next]_vars => ForwardInv'
  BY ForwardStep
<1> QED
  BY <1>1, ForwardInit, PTL DEF Spec

(* While the wall clock is only set forward, every visible log is a prefix *)
(* of what the daemon wrote, without its echo blocks.                      *)
THEOREM ViewsAreScrubbedPrefixes ==
  ASSUME OnlyForward
  PROVE  Spec => []VisibleIsScrubbedPrefix
<1>1. ForwardInv => VisibleIsScrubbedPrefix
  <2> SUFFICES ASSUME ForwardInv, NEW s \in Sources, Sealed(s)
               PROVE  \E n \in 0..Len(out[s]) :
                        view[s] = {i \in 1..n : ~ (s \in Scrubbed /\ InEchoBlock(s, i))}
    BY DEF VisibleIsScrubbedPrefix
  <2>1. PICK n \in Nat : ViewIsPrefix(s, n)
    BY DEF ForwardInv, ViewsArePrefixes
  <2>2. TypeOK /\ Len(marks[s]) <= Len(out[s])
    BY DEF ForwardInv, WindowInv, RecordsFollowLines
  <2>3. Len(marks[s]) \in Nat /\ Len(out[s]) \in Nat
    BY <2>2, SourceTypes
  <2>4. n \in 0..Len(out[s])
    BY <2>1, <2>2, <2>3 DEF ViewIsPrefix
  <2> QED
    BY <2>1, <2>4 DEF ViewIsPrefix
<1> QED
  BY <1>1, ForwardInvariant, PTL

(* While the wall clock is only set forward, no packet that came after the *)
(* cutoff is in the visible capture, for any number of packets.            *)
THEOREM CaptureEndsAtCutoff ==
  ASSUME OnlyForward
  PROVE  Spec => []CaptureBeforeCutoff
<1>1. ForwardInv => CaptureBeforeCutoff
  <2> SUFFICES ASSUME ForwardInv, capture # Unsealed, NEW i \in capture
               PROVE  packets[i].at <= end.mono
    BY DEF CaptureBeforeCutoff
  <2>1. i \in DOMAIN packets /\ packets[i].ts <= end.unix
    BY DEF ForwardInv, CaptureIsTrimmed
  <2>2. phase \notin {"observe", "mark"}
    BY DEF ForwardInv, CaptureIsTrimmed
  <2> QED
    BY <2>1, <2>2 DEF ForwardInv, PacketsInOrder
<1> QED
  BY <1>1, ForwardInvariant, PTL

(* What close_observation seals, validate_window accepts, as long as the   *)
(* wall clock is only set forward.                                         *)
THEOREM WindowsLoad ==
  ASSUME OnlyForward
  PROVE  Spec => []SealedWindowsLoad
<1>1. ForwardInv => SealedWindowsLoad
  <2> SUFFICES ASSUME ForwardInv, capture # Unsealed PROVE WindowValid
    BY DEF SealedWindowsLoad
  <2>1. TypeOK /\ CutoffOnClocks /\ CaptureIsTrimmed
    BY DEF ForwardInv, WindowInv
  <2>2. started.unix <= end.unix /\ started.mono <= end.mono
    BY <2>1, ClockTypes DEF CutoffOnClocks, CaptureIsTrimmed
  <2>3. ASSUME NEW s \in Sources PROVE LogValid(s)
    <3>1. PICK n \in Nat : ViewIsPrefix(s, n)
      BY <2>1 DEF ForwardInv, ViewsArePrefixes, CaptureIsTrimmed
    <3>2. /\ n \in 0..Len(marks[s]) /\ Len(marks[s]) \in Nat
          /\ \A i \in 1..n : /\ marks[s][i].unix <= end.unix /\ marks[s][i].mono <= end.mono
                             /\ StampedBy(s, i, end.unix)
      BY <2>1, <3>1, SourceTypes DEF ViewIsPrefix
    <3>3. \A i \in view[s] : i \in 1..n /\ ~ (s \in Scrubbed /\ InEchoBlock(s, i))
      BY <3>1 DEF ViewIsPrefix
    <3>4. ASSUME NEW i \in 1..n, out[s][i].kind = "echo" PROVE InEchoBlock(s, i)
      <4>1. i \in 1..i /\ \A k \in (i + 1)..i : out[s][k].kind = "indented"
        OBVIOUS
      <4> QED
        BY <3>4, <4>1 DEF InEchoBlock
    <3>5. ASSUME NEW i \in view[s]
          PROVE  /\ marks[s][i].unix <= end.unix /\ marks[s][i].mono <= end.mono
                 /\ \A t \in out[s][i].stamp : t <= end.unix
                 /\ ~ (s \in Scrubbed /\ out[s][i].kind = "echo")
      BY <3>2, <3>3, <3>4 DEF StampedBy
    <3>6. ASSUME NEW i \in view[s], NEW j \in view[s], i < j
          PROVE  marks[s][i].mono <= marks[s][j].mono
      <4>1. j \in 1..Len(marks[s]) /\ i \in 1..j
        BY <3>2, <3>3, <3>6
      <4> QED
        BY <4>1 DEF ForwardInv, MarksInOrder, MarkedBy
    <3> QED
      BY <3>5, <3>6 DEF LogValid
  <2>4. \A i \in capture : packets[i].ts <= end.unix
    BY <2>1 DEF CaptureIsTrimmed
  <2> QED
    BY <2>2, <2>3, <2>4 DEF WindowValid
<1> QED
  BY <1>1, ForwardInvariant, PTL
=============================================================================
