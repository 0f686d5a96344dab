------------------------- MODULE ObservationWindow --------------------------
(***************************************************************************)
(* How lab/window.py and the closing part of lab/run_lab.py turn live      *)
(* daemon output into a bounded observation.                               *)
(*                                                                         *)
(* Each daemon writes lines into a pipe.  One LogRecorder thread per       *)
(* daemon takes a line from the pipe, reads the wall clock, then the       *)
(* monotonic clock, writes the line to a raw file and appends it to its    *)
(* records.  Meanwhile the main thread ends the observation: it reads the  *)
(* two clocks (the cutoff), stops tcpdump, freezes every daemon's records  *)
(* into a visible log, trims the capture, runs control queries, kills the  *)
(* daemons and joins the threads.                                          *)
(*                                                                         *)
(* Real time is the monotonic clock, now.  The wall clock is now + skew:   *)
(* skew changes when the wall clock is stepped.                            *)
(***************************************************************************)
EXTENDS Integers, Sequences, FiniteSets

CONSTANTS
  Sources,    (* daemons with a visible log                              *)
  Scrubbed,   (* those whose control echoes are removed (SCRUB_RULES)    *)
  Stamped,    (* those that print a wall-clock time on a line (-t)       *)
  Nobody,     (* no source                                               *)
  Skews,      (* wall clock minus monotonic clock: the values it takes   *)
  Steps,      (* the pairs <<from, to>> by which the wall clock is set   *)
  MaxTime,    (* bound on now                                            *)
  MaxLines,   (* bound on the lines of one daemon                        *)
  MaxPackets  (* bound on the captured packets                           *)

ASSUME SourcesAssumption ==
  /\ Sources # {}
  /\ Scrubbed \subseteq Sources
  /\ Stamped \subseteq Sources
  /\ Nobody \notin Sources

ASSUME ClockAssumption ==
  /\ Skews \subseteq Nat
  /\ Skews # {}
  /\ Steps \subseteq Skews \X Skews

ASSUME BoundAssumption == MaxTime \in Nat /\ MaxLines \in Nat /\ MaxPackets \in Nat

VARIABLES
  now,      (* the monotonic clock                                       *)
  skew,     (* wall clock minus monotonic clock                          *)
  started,  (* the two clocks when the tested station was started        *)
  out,      (* per source, the lines its daemon has written              *)
  alive,    (* per source, whether some process holds its pipe open      *)
  rpc,      (* per source, where its reader thread is                    *)
  mark,     (* per source, the clock mark of the line being read         *)
  marks,    (* per source, the clock marks of its records                *)
  packets,  (* the packets in the raw capture                            *)
  phase,    (* where the main thread is                                  *)
  current,  (* the source that the main thread is working on             *)
  end,      (* observation_end                                           *)
  view,     (* per source, the positions of its visible lines            *)
  capture,  (* the positions of the visible packets                      *)
  failed,   (* whether closing or cleaning up recorded an error          *)
  joined    (* the sources whose recorder is finished                    *)

clockVars == <<now, skew, started>>
daemonVars == <<out, alive>>
readerVars == <<rpc, mark, marks>>
mainVars == <<phase, current, end, view, capture, failed, joined>>
vars == <<clockVars, daemonVars, readerVars, packets, mainVars>>

Wall == now + skew
Unsealed == {0}   (* a view that has not been fixed: no line or packet is at 0 *)
Mark == [unix : Int, mono : Int]
NoMarkOfOneClock == [unix |-> 0]   (* variant: the monotonic clock is forgotten *)
NoMark == [unix |-> 0, mono |-> 0]
Kinds(s) == IF s \in Scrubbed THEN {"event", "echo", "indented"} ELSE {"event"}
Line == [at : Int, stamp : SUBSET Int, kind : {"event", "echo", "indented"}]

TypeOK ==
  /\ now \in Nat /\ skew \in Skews /\ started \in Mark
  /\ out \in [Sources -> Seq(Line)]
  /\ alive \in [Sources -> BOOLEAN]
  /\ rpc \in [Sources -> {"read", "unix", "mono", "store", "eof", "failed"}]
  /\ mark \in [Sources -> Mark]
  /\ marks \in [Sources -> Seq(Mark)]
  /\ packets \in Seq([at : Int, ts : Int])
  /\ phase \in {"observe", "mark", "stop", "seal", "trim", "query", "cleanup", "done"}
  /\ current \in Sources \union {Nobody}
  /\ end \in Mark
  /\ view \in [Sources -> SUBSET Nat]
  /\ capture \in SUBSET Nat
  /\ failed \in BOOLEAN
  /\ joined \in SUBSET Sources

(* A source that is not alive at first is a daemon that was never started: *)
(* close_observation gives it a recorder over an empty stream.             *)
Init ==
  /\ now = 0 /\ skew \in Skews /\ started = [unix |-> skew, mono |-> 0]
  /\ out = [s \in Sources |-> <<>>]
  /\ alive \in [Sources -> BOOLEAN]
  /\ rpc = [s \in Sources |-> IF alive[s] THEN "read" ELSE "eof"]
  /\ mark = [s \in Sources |-> NoMark]
  /\ marks = [s \in Sources |-> <<>>]
  /\ packets = <<>>
  /\ phase = "observe" /\ current = Nobody /\ end = NoMark
  /\ view = [s \in Sources |-> Unsealed] /\ capture = Unsealed
  /\ failed = FALSE /\ joined = {}

-----------------------------------------------------------------------------
(* The clocks and the processes outside the harness. *)

Tick ==
  /\ now < MaxTime
  /\ now' = now + 1
  /\ UNCHANGED <<skew, started, daemonVars, readerVars, packets, mainVars>>

StepWallClock ==
  /\ \E k \in Skews : <<skew, k>> \in Steps /\ skew' = k
  /\ UNCHANGED <<now, started, daemonVars, readerVars, packets, mainVars>>

(* A line with -t starts with the wall time; an indented one has no stamp. *)
Emit(s) ==
  /\ alive[s]
  /\ Len(out[s]) < MaxLines
  /\ \E kind \in Kinds(s) :
       LET stamp == IF s \in Stamped /\ kind # "indented" THEN {Wall} ELSE {}
       IN  out' = [out EXCEPT ![s] = Append(@, [at |-> now, stamp |-> stamp, kind |-> kind])]
  /\ UNCHANGED <<clockVars, alive, readerVars, packets, mainVars>>

Exit(s) ==
  /\ alive[s]
  /\ alive' = [alive EXCEPT ![s] = FALSE]
  /\ UNCHANGED <<clockVars, out, readerVars, packets, mainVars>>

(* tcpdump runs until close_observation stops it. *)
Sniff ==
  /\ phase \in {"observe", "mark", "stop"}
  /\ Len(packets) < MaxPackets
  /\ packets' = Append(packets, [at |-> now, ts |-> Wall])
  /\ UNCHANGED <<clockVars, daemonVars, readerVars, mainVars>>

-----------------------------------------------------------------------------
(* LogRecorder._read, one thread per source. *)

Goes(s, from, to) == rpc[s] = from /\ rpc' = [rpc EXCEPT ![s] = to]

ReadLine(s) ==
  /\ Len(marks[s]) < Len(out[s])
  /\ Goes(s, "read", "unix")
  /\ UNCHANGED <<clockVars, daemonVars, mark, marks, packets, mainVars>>

ReadEnd(s) ==
  /\ ~ alive[s] /\ Len(marks[s]) = Len(out[s])
  /\ Goes(s, "read", "eof")
  /\ UNCHANGED <<clockVars, daemonVars, mark, marks, packets, mainVars>>

MarkUnix(s) ==
  /\ Goes(s, "unix", "mono")
  /\ mark' = [mark EXCEPT ![s].unix = Wall]
  /\ UNCHANGED <<clockVars, daemonVars, marks, packets, mainVars>>

MarkMono(s) ==
  /\ Goes(s, "mono", "store")
  /\ mark' = [mark EXCEPT ![s].mono = now]
  /\ UNCHANGED <<clockVars, daemonVars, marks, packets, mainVars>>

(* The raw write, its flush and the append under the lock. *)
Store(s) ==
  /\ Goes(s, "store", "read")
  /\ marks' = [marks EXCEPT ![s] = Append(@, mark[s])]
  /\ mark' = [mark EXCEPT ![s] = NoMark]
  /\ UNCHANGED <<clockVars, daemonVars, packets, mainVars>>

(* The raw file cannot be created or written, or the pipe read fails: the  *)
(* thread keeps the error and ends.                                        *)
ReaderFails(s) ==
  /\ rpc[s] \in {"read", "store"}
  /\ rpc' = [rpc EXCEPT ![s] = "failed"]
  /\ mark' = [mark EXCEPT ![s] = NoMark]
  /\ UNCHANGED <<clockVars, daemonVars, marks, packets, mainVars>>

-----------------------------------------------------------------------------
(* Executor.close_observation *)

CutUnix ==
  /\ phase = "observe" /\ phase' = "mark"
  /\ end' = [end EXCEPT !.unix = Wall]
  /\ UNCHANGED <<clockVars, daemonVars, readerVars, packets, current, view, capture, failed, joined>>

CutMono ==
  /\ phase = "mark" /\ phase' = "stop"
  /\ end' = [end EXCEPT !.mono = now]
  /\ UNCHANGED <<clockVars, daemonVars, readerVars, packets, current, view, capture, failed, joined>>

(* tcpdump exits on SIGINT or is killed, and its own recorder is joined.   *)
StopCapture ==
  /\ phase = "stop" /\ phase' = "seal"
  /\ UNCHANGED <<clockVars, daemonVars, readerVars, packets, current, end, view, capture, failed, joined>>

(* snapshot looks at the recorder's error before it takes the lock.  The   *)
(* code's fixed order of the sources is one of those allowed here.         *)
CheckError(s) ==
  /\ phase = "seal" /\ current = Nobody /\ view[s] = Unsealed
  /\ rpc[s] # "failed"
  /\ current' = s
  /\ UNCHANGED <<clockVars, daemonVars, readerVars, packets, phase, end, view, capture, failed, joined>>

(* Variants of Eligible that a change could introduce: trusting the wall    *)
(* clock alone, or the monotonic clock alone.                              *)
EligibleByWallClock(s) == {i \in 1..Len(marks[s]) : marks[s][i].unix <= end.unix}
EligibleByReceipt(s) == {i \in 1..Len(marks[s]) : marks[s][i].mono <= end.mono}

(* The records that snapshot keeps: received by the cutoff on both clocks, *)
(* and not stamped later than the cutoff by the daemon itself.             *)
Eligible(s) ==
  {i \in 1..Len(marks[s]) :
     /\ marks[s][i].unix <= end.unix
     /\ marks[s][i].mono <= end.mono
     /\ \A t \in out[s][i].stamp : t <= end.unix}

(* Variant: only the echo itself is removed. *)
EchoOnly(s, E) == {i \in E : out[s][i].kind = "echo"}

(* retained_control_line_indexes over the eligible lines: an echo starts a *)
(* block, and the block goes on while the lines are indented or blank.     *)
InEcho(s, E) ==
  LET inside[i \in Nat] ==
        IF i = 0 THEN FALSE
        ELSE IF i \notin E THEN inside[i - 1]
        ELSE \/ out[s][i].kind = "echo"
             \/ inside[i - 1] /\ out[s][i].kind = "indented"
  IN  {i \in E : inside[i]}

Retained(s, E) == IF s \in Scrubbed THEN E \ InEcho(s, E) ELSE E

Snapshot(s) ==
  /\ phase = "seal" /\ current = s
  /\ view' = [view EXCEPT ![s] = Retained(s, Eligible(s))]
  /\ current' = Nobody
  /\ phase' = IF \A r \in Sources \ {s} : view[r] # Unsealed THEN "trim" ELSE "seal"
  /\ UNCHANGED <<clockVars, daemonVars, readerVars, packets, end, capture, failed, joined>>

(* Variant: every packet of the raw capture is copied. *)
TrimNothing ==
  /\ phase = "trim" /\ phase' = "query"
  /\ capture' = DOMAIN packets
  /\ UNCHANGED <<clockVars, daemonVars, readerVars, packets, current, end, view, failed, joined>>

(* trim_capture: packets are compared with the wall clock only. *)
Trim ==
  /\ phase = "trim" /\ phase' = "query"
  /\ capture' = {i \in DOMAIN packets : packets[i].ts <= end.unix}
  /\ UNCHANGED <<clockVars, daemonVars, readerVars, packets, current, end, view, failed, joined>>

(* An exception leaves the procedure: tcpdump or its log does not stop in  *)
(* time, a recorder has failed, a file cannot be written, the capture has  *)
(* no header or ends in a partial record because tcpdump was killed.       *)
CloseFails ==
  /\ phase \in {"stop", "seal", "trim"} /\ phase' = "query"
  /\ current' = Nobody
  /\ failed' = TRUE
  /\ UNCHANGED <<clockVars, daemonVars, readerVars, packets, end, view, capture, joined>>

-----------------------------------------------------------------------------
(* The queries, during which the daemons go on writing, and cleanup. *)

BeginCleanup ==
  /\ phase = "query" /\ phase' = "cleanup"
  /\ UNCHANGED <<clockVars, daemonVars, readerVars, packets, current, end, view, capture, failed, joined>>

(* TERM, wait, KILL, wait.  The pipe stays open when a process survives    *)
(* (an error) or has left a descendant that holds it.                      *)
Terminate(s) ==
  /\ phase = "cleanup" /\ current = Nobody /\ s \notin joined
  /\ current' = s
  /\ \/ alive' = [alive EXCEPT ![s] = FALSE] /\ UNCHANGED failed
     \/ alive[s] /\ UNCHANGED alive /\ failed' \in {failed, TRUE}
  /\ UNCHANGED <<clockVars, out, readerVars, packets, phase, end, view, capture, joined>>

(* Variant: only a recording error counts, not a thread that is still busy. *)
FinishErrorIgnoringTimeout(s) == rpc[s] = "failed"

(* finish: join with a timeout; a thread that is still alive is an error,  *)
(* and so is one that ended with an error.                                 *)
FinishError(s) == rpc[s] # "eof"

(* Variant: join without a timeout. *)
FinishWithoutTimeout(s) ==
  /\ phase = "cleanup" /\ current = s
  /\ rpc[s] \in {"eof", "failed"}
  /\ current' = Nobody
  /\ joined' = joined \union {s}
  /\ failed' = (failed \/ FinishError(s))
  /\ UNCHANGED <<clockVars, daemonVars, readerVars, packets, phase, end, view, capture>>

Finish(s) ==
  /\ phase = "cleanup" /\ current = s
  /\ current' = Nobody
  /\ joined' = joined \union {s}
  /\ failed' = (failed \/ FinishError(s))
  /\ UNCHANGED <<clockVars, daemonVars, readerVars, packets, phase, end, view, capture>>

Done ==
  /\ phase = "cleanup" /\ joined = Sources
  /\ phase' = "done"
  /\ UNCHANGED <<clockVars, daemonVars, readerVars, packets, current, end, view, capture, failed, joined>>

-----------------------------------------------------------------------------
World  == Tick \/ StepWallClock \/ Sniff \/ \E s \in Sources : Emit(s) \/ Exit(s)

Reader(s) ==
  \/ ReadLine(s) \/ ReadEnd(s)
  \/ MarkUnix(s) \/ MarkMono(s) \/ Store(s) \/ ReaderFails(s)

Closing ==
  \/ CutUnix \/ CutMono \/ StopCapture \/ Trim \/ CloseFails
  \/ \E s \in Sources : CheckError(s) \/ Snapshot(s)

Cleanup == BeginCleanup \/ Done \/ \E s \in Sources : Terminate(s) \/ Finish(s)

(* What happens after the bundle is finished is not followed. *)
Finished == phase = "done" /\ UNCHANGED vars

Next ==
  \/ phase # "done" /\ (World \/ \E s \in Sources : Reader(s))
  \/ Closing
  \/ Cleanup
  \/ Finished

Spec == Init /\ [][Next]_vars

(* Every wait of the main thread has a timeout, so it always has a step to *)
(* take and the scheduler lets it take one.                                *)
FairSpec == Spec /\ WF_vars(Closing \/ Cleanup)
-----------------------------------------------------------------------------
(* Properties. *)

Sealed(s) == view[s] # Unsealed

(* A line that a daemon wrote after the cutoff is in no visible log,       *)
(* however the wall clock is stepped, whatever the daemons print, and      *)
(* wherever the reader threads are when the records are copied: a mark is  *)
(* taken after its line left the pipe and snapshot drops later marks.      *)
VisibleBeforeCutoff ==
  \A s \in Sources : Sealed(s) =>
    \A i \in view[s] : i \in DOMAIN out[s] /\ out[s][i].at <= end.mono

(* A line belongs to an echo block when some line at or before it is a     *)
(* control echo and every line in between, itself included, is indented.   *)
InEchoBlock(s, i) ==
  \E j \in 1..i :
    /\ out[s][j].kind = "echo"
    /\ \A k \in (j + 1)..i : out[s][k].kind = "indented"

(* "A uniform build-time scrub removes [echo] lines and indented           *)
(* continuation lines": no line of an echo block is in a visible log.      *)
EchoBlocksRemoved ==
  \A s \in Scrubbed : Sealed(s) => \A i \in view[s] : ~ InEchoBlock(s, i)

(* While the wall clock is not stepped back, a visible log is exactly a    *)
(* prefix of what the daemon wrote, without its echo blocks (lab/README:   *)
(* the echo lines "and indented continuation lines" are removed, "Other    *)
(* retained lines remain in original order"): no gap, no orphaned          *)
(* continuation line, whichever of the two clocks cuts the log.            *)
VisibleIsScrubbedPrefix ==
  \A s \in Sources : Sealed(s) =>
    \E n \in 0..Len(out[s]) :
      view[s] = {i \in 1..n : ~ (s \in Scrubbed /\ InEchoBlock(s, i))}

(* While the wall clock is not stepped back, a packet captured after the   *)
(* cutoff is not in the visible capture, although trim_capture compares    *)
(* wall times only and tcpdump goes on until it is stopped.                *)
CaptureBeforeCutoff ==
  capture # Unsealed => \A i \in capture : packets[i].at <= end.mono

(* What validate_window asks of a bundle when it is loaded. *)
LogValid(s) ==
  /\ \A i \in view[s] :
       /\ marks[s][i].unix <= end.unix /\ marks[s][i].mono <= end.mono
       /\ \A t \in out[s][i].stamp : t <= end.unix
       /\ ~ (s \in Scrubbed /\ out[s][i].kind = "echo")
  /\ \A i, j \in view[s] : i < j => marks[s][i].mono <= marks[s][j].mono

WindowValid ==
  /\ started.unix <= end.unix /\ started.mono <= end.mono
  /\ \A s \in Sources : LogValid(s)
  /\ \A i \in capture : packets[i].ts <= end.unix

(* Every window that close_observation seals is one that validate_window   *)
(* accepts when the bundle is loaded, while the wall clock is not stepped  *)
(* back: the two were written apart and check different things.            *)
SealedWindowsLoad == capture # Unsealed => WindowValid

(* A run that ends without a recorded error has recorded everything: each  *)
(* daemon's pipe was closed and drained to its last line, and no thread    *)
(* failed, not even after its log had been sealed.                         *)
AcceptedIsComplete ==
  phase = "done" /\ ~ failed =>
    \A s \in Sources :
      ~ alive[s] /\ rpc[s] = "eof" /\ Len(marks[s]) = Len(out[s])

(* The main thread reaches the end, although a pipe may never close and a  *)
(* reader thread may never be scheduled: close_observation and cleanup     *)
(* wait for nothing without a timeout.                                     *)
Terminates == <>(phase = "done")

(* The window is an implementation of SealedEvidence. *)
Evidence == INSTANCE SealedEvidence WITH
  written <- [s \in Sources |-> [i \in DOMAIN out[s] |-> out[s][i].at]],
  cutoff  <- end.mono,
  stage   <- CASE phase \in {"observe", "mark"} -> "observing"
               [] phase \in {"stop", "seal", "trim"} -> "closing"
               [] OTHER -> IF capture # Unsealed THEN "sealed" ELSE "abandoned"

(* Every behaviour of the window, with its threads, clocks, failures and   *)
(* shutdown output, is one that SealedEvidence allows: a view is fixed     *)
(* once, during closing, from lines written by the cutoff.                 *)
ImplementsSealedEvidence == Evidence!Spec
=============================================================================
