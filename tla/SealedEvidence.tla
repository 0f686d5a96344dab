--------------------------- MODULE SealedEvidence ---------------------------
(***************************************************************************)
(* What the lab promises about the evidence of one bundle: daemons write   *)
(* lines whenever they like, one cutoff is taken, and each daemon's        *)
(* visible log is fixed once, as some of the lines that the daemon had     *)
(* written by the cutoff.  Whatever happens later, control queries, daemon *)
(* shutdown output, a failing cleanup, leaves a sealed log as it is.  The  *)
(* closing procedure may also be abandoned, and then nothing else is       *)
(* sealed.  ObservationWindow implements this with pipes, reader threads   *)
(* and two clocks.                                                         *)
(***************************************************************************)
EXTENDS Integers, Sequences

CONSTANT Sources   (* the daemons whose output becomes a visible log *)

VARIABLES
  now,       (* real time                                                *)
  written,   (* per source, the times at which its lines were written    *)
  stage,     (* "observing", "closing", "sealed" or "abandoned"          *)
  cutoff,    (* the end of the observation, once it has been taken       *)
  view       (* per source, the positions of its visible lines           *)

vars == <<now, written, stage, cutoff, view>>

Unsealed == {0}   (* a view that has not been fixed: no line is at 0 *)

(* The lines of s that existed at time t. *)
WrittenBy(s, t) == {i \in DOMAIN written[s] : written[s][i] <= t}

Init ==
  /\ now = 0
  /\ written = [s \in Sources |-> <<>>]
  /\ stage = "observing"
  /\ cutoff = 0
  /\ view = [s \in Sources |-> Unsealed]

TimePasses ==
  /\ now' \in Int
  /\ now' > now
  /\ UNCHANGED <<written, stage, cutoff, view>>

Write(s) ==
  /\ written' = [written EXCEPT ![s] = Append(@, now)]
  /\ UNCHANGED <<now, stage, cutoff, view>>

Cut ==
  /\ stage = "observing"
  /\ stage' = "closing"
  /\ cutoff' = now
  /\ UNCHANGED <<now, written, view>>

Seal(s) ==
  /\ stage = "closing"
  /\ view[s] = Unsealed
  /\ \E visible \in SUBSET WrittenBy(s, cutoff) :
       view' = [view EXCEPT ![s] = visible]
  /\ UNCHANGED <<now, written, stage, cutoff>>

Publish ==
  /\ stage = "closing"
  /\ \A s \in Sources : view[s] # Unsealed
  /\ stage' = "sealed"
  /\ UNCHANGED <<now, written, cutoff, view>>

Abandon ==
  /\ stage = "closing"
  /\ stage' = "abandoned"
  /\ UNCHANGED <<now, written, cutoff, view>>

Next ==
  \/ TimePasses
  \/ \E s \in Sources : Write(s) \/ Seal(s)
  \/ Cut
  \/ Publish
  \/ Abandon

Spec == Init /\ [][Next]_vars
=============================================================================
