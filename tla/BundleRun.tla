----------------------------- MODULE BundleRun ------------------------------
(***************************************************************************)
(* One run_bundle of lab/run_lab.py: the Executor carries out the plan of  *)
(* a scenario class (load the module, create namespaces, start daemons,    *)
(* wait for them), the observation is closed, the intervention is          *)
(* verified, everything is cleaned up and the metadata decide whether the  *)
(* bundle is quarantined.                                                  *)
(*                                                                         *)
(* Commands fail, time out or cannot be started, daemons exit when they    *)
(* like, the overall deadline passes at any moment, and the user may       *)
(* interrupt the harness.  What close_observation does with logs and       *)
(* capture is ObservationWindow; here it succeeds or fails.                *)
(***************************************************************************)
EXTENDS Integers, Sequences, FiniteSets, SequencesExt

CONSTANTS
  Classes,         (* the scenario classes to run, some of CLASS_IDS        *)
  MaxInterrupts    (* bound on KeyboardInterrupts                           *)

ASSUME ClassAssumption ==
  Classes \subseteq {"ok", "dhcp_no_server", "ap_full", "ap_deauth"}

ASSUME BoundAssumption == MaxInterrupts \in Nat

VARIABLES
  class,        (* the class of this bundle                                *)
  step,         (* number of plan steps carried out                        *)
  started,      (* executor.processes, by log name                         *)
  running,      (* the daemons that are alive                              *)
  netns,        (* the namespaces of this bundle that exist                *)
  owned,        (* executor.namespaces                                     *)
  module,       (* whether mac80211_hwsim is loaded                        *)
  loaded,       (* executor.loaded_module                                  *)
  late,         (* whether the overall deadline has passed                 *)
  phase,        (* where run_bundle is                                     *)
  raising,      (* when an interrupt is raised again: "no", "afterwards"   *)
                (* (the metadata are written first) or "atOnce" (only      *)
                (* cleanup still runs)                                     *)
  ok,           (* metadata["status"] = "ok"                               *)
  error,        (* metadata["error"] is not None                           *)
  atCutoff,     (* the daemons that were alive at the cutoff               *)
  sealed,       (* whether there is an observation window                  *)
  verified,     (* metadata["injection_verified"]                          *)
  task,         (* number of cleanup tasks carried out                     *)
  cleanupError, (* whether cleanup returned an error                       *)
  meta,         (* what meta.json says, or NoMeta                          *)
  interrupts    (* number of interrupts so far                             *)

hostVars == <<running, netns, module>>
execVars == <<started, owned, loaded>>
dataVars == <<ok, error, atCutoff, sealed, verified, cleanupError, meta>>
mainVars == <<step, phase, raising, task>>
envVars  == <<late, interrupts>>
vars == <<class, hostVars, execVars, dataVars, mainVars, envVars>>

Roles  == {"ap", "sta", "occ"}
Daemons == {"tcpdump", "dhcp_server", "hostapd", "occupant", "wpa_supplicant", "dhcp_client"}
NoMeta == "none"

(* command_plan.  A run step names the resource that it creates.  Commands *)
(* that create nothing which cleanup has to undo, and the short delays,    *)
(* are part of the step that they precede: they can only end the plan      *)
(* where that step can.  "discover" is discover_phys.                      *)
Plan ==
  LET Run(what)   == [kind |-> "run", what |-> what]
      Start(what) == [kind |-> "start", what |-> what]
      Step(kind)  == [kind |-> kind, what |-> ""]
      Only(c, steps) == IF class = c THEN steps ELSE <<>>
  IN  <<Run("module"), Step("discover"), Run("ap"), Run("sta"), Run("occ"), Start("tcpdump")>>
      \o (IF class = "dhcp_no_server" THEN <<>> ELSE <<Start("dhcp_server")>>)
      \o <<Start("hostapd"), Step("wait")>>
      \o Only("ap_full", <<Start("occupant"), Step("wait")>>)
      \o <<Start("wpa_supplicant"), Start("dhcp_client")>>
      \o Only("ap_deauth", <<Step("wait"), Step("require")>>)
      \o <<Step("delay")>>

(* start(..., required=False) is used for the DHCP client only. *)
Required == Daemons \ {"dhcp_client"}

Launched == ToSet(started)

TypeOK ==
  /\ class \in Classes
  /\ step \in 0..Len(Plan)
  /\ started \in Seq(Daemons) /\ running \in SUBSET Daemons
  /\ netns \in SUBSET Roles /\ owned \in SUBSET Roles
  /\ module \in BOOLEAN /\ loaded \in BOOLEAN
  /\ phase \in {"plan", "close", "seal", "verify", "observe", "cleanup", "finalize",
                "returned", "raised"}
  /\ late \in BOOLEAN /\ raising \in {"no", "afterwards", "atOnce"} /\ ok \in BOOLEAN /\ error \in BOOLEAN
  /\ sealed \in BOOLEAN /\ verified \in BOOLEAN /\ cleanupError \in BOOLEAN
  /\ atCutoff \in SUBSET Daemons
  /\ task \in 0..(Len(started) + 4) /\ interrupts \in 0..MaxInterrupts
  /\ meta \in {NoMeta, "accepted", "quarantined"}

Init ==
  /\ class \in Classes
  /\ step = 0 /\ started = <<>> /\ running = {}
  /\ netns = {} /\ owned = {} /\ module = FALSE /\ loaded = FALSE
  /\ late = FALSE /\ phase = "plan" /\ raising = "no"
  /\ ok = FALSE /\ error = FALSE /\ atCutoff = {} /\ sealed = FALSE /\ verified = FALSE
  /\ task = 0 /\ cleanupError = FALSE /\ meta = NoMeta
  /\ interrupts = 0

-----------------------------------------------------------------------------
(* The environment. *)

Ended == phase \in {"returned", "raised"}

DeadlinePasses ==
  /\ ~ late /\ ~ Ended
  /\ late' = TRUE
  /\ UNCHANGED <<class, hostVars, execVars, dataVars, mainVars, interrupts>>

(* Variant: the client that is allowed to exit is started bare. *)
ExitIfRequired(p) ==
  /\ p \in running \intersect Required
  /\ running' = running \ {p}
  /\ UNCHANGED <<class, netns, module, execVars, dataVars, mainVars, envVars>>

(* A daemon exits: it fails, it is done (udhcpc -q), or the "timeout ...   *)
(* 140s" that each of them runs under kills it, whether or not the harness *)
(* still knows it.                                                         *)
Exit(p) ==
  /\ p \in running
  /\ running' = running \ {p}
  /\ UNCHANGED <<class, netns, module, execVars, dataVars, mainVars, envVars>>

-----------------------------------------------------------------------------
(* Executor.execute, one action per kind of step and outcome. *)

Healthy == Required \intersect Launched \subseteq running

At(kind) ==
  /\ phase = "plan" /\ step < Len(Plan)
  /\ Plan[step + 1].kind = kind

Advance == step' = step + 1

(* What the command of this step creates. *)
Creates == Plan[step + 1].what

Effect ==
  /\ netns' = IF Creates \in Roles THEN netns \union {Creates} ELSE netns
  /\ module' = (module \/ Creates = "module")

RunSucceeds ==
  /\ At("run") /\ Healthy /\ ~ late
  /\ Advance /\ Effect
  /\ owned' = IF Creates \in Roles THEN owned \union {Creates} ELSE owned
  /\ loaded' = (loaded \/ Creates = "module")
  /\ UNCHANGED <<class, running, started, dataVars, phase, raising, task, envVars>>

(* An exception ends the plan: its text is kept, the status stays failed.  *)
PlanFails ==
  /\ error' = TRUE
  /\ phase' = "close"
  /\ UNCHANGED <<class, step, raising, task, ok, atCutoff, sealed, verified, cleanupError, meta, envVars>>

(* The command is killed at its timeout after it has done its work: the    *)
(* executor does not learn of the effect.                                  *)
RunTimesOutAfterEffect ==
  /\ At("run") /\ Healthy /\ ~ late
  /\ Effect
  /\ UNCHANGED <<running, execVars>>
  /\ PlanFails

StartSucceeds ==
  /\ At("start") /\ Healthy /\ ~ late
  /\ Advance
  /\ running' = running \union {Plan[step + 1].what}
  /\ started' = Append(started, Plan[step + 1].what)
  /\ UNCHANGED <<class, netns, module, owned, loaded, dataVars, phase, raising, task, envVars>>

(* discover_phys finds the radios; a delay is slept in full; a wait or a   *)
(* required command answers as it should.                                  *)
QuietStepSucceeds ==
  /\ \/ At("discover")
     \/ Healthy /\ ~ late /\ \E kind \in {"delay", "wait", "require"} : At(kind)
  /\ Advance
  /\ UNCHANGED <<class, hostVars, execVars, dataVars, phase, raising, task, envVars>>

(* Variant: a wait polls until it sees what it wants. *)
StepFailsUnlessWaiting ==
  \/ At("wait") /\ UNCHANGED vars
  \/ /\ phase = "plan" /\ step < Len(Plan)
     /\ ~ At("wait")
     /\ UNCHANGED <<hostVars, execVars>>
     /\ PlanFails

(* Any step can fail and have no effect: a required daemon is gone, the    *)
(* command cannot be started, returns an error, says something else or     *)
(* takes too long (a wait gives up, and so does one slow poll of it), or   *)
(* too little is left of the run's time.                                   *)
StepFails ==
  /\ phase = "plan" /\ step < Len(Plan)
  /\ UNCHANGED <<hostVars, execVars>>
  /\ PlanFails

(* The last look at the daemons, after the last step. *)
PlanSucceeds ==
  /\ phase = "plan" /\ step = Len(Plan)
  /\ \/ Healthy /\ ok' = TRUE /\ UNCHANGED error
     \/ ~ Healthy /\ error' = TRUE /\ UNCHANGED ok
  /\ phase' = "close"
  /\ UNCHANGED <<class, hostVars, execVars, atCutoff, sealed, verified, cleanupError, meta,
                 step, raising, task, envVars>>

-----------------------------------------------------------------------------
(* The finally block: close, verify, observe. *)

TakeCutoff ==
  /\ phase = "close" /\ phase' = "seal"
  /\ atCutoff' = running
  /\ UNCHANGED <<class, hostVars, execVars, ok, error, sealed, verified, cleanupError, meta,
                 step, raising, task, envVars>>

(* tcpdump is stopped, the logs are frozen, the capture that it wrote is   *)
(* trimmed.                                                                *)
Seal ==
  /\ phase = "seal" /\ phase' = "verify"
  /\ "tcpdump" \in Launched
  /\ running' = running \ {"tcpdump"}
  /\ sealed' = TRUE
  /\ UNCHANGED <<class, netns, module, execVars, ok, error, atCutoff, verified, cleanupError, meta,
                 step, raising, task, envVars>>

(* Variant: the status alone tells of the failure. *)
SealFailsUnexplained ==
  /\ phase = "seal" /\ phase' = "verify"
  /\ running' \in {running, running \ {"tcpdump"}}
  /\ ok' = FALSE
  /\ UNCHANGED <<class, netns, module, execVars, error, atCutoff, sealed, verified, cleanupError,
                 meta, step, raising, task, envVars>>

SealFails ==
  /\ phase = "seal" /\ phase' = "verify"
  /\ running' \in {running, running \ {"tcpdump"}}
  /\ ok' = FALSE /\ error' = TRUE
  /\ UNCHANGED <<class, netns, module, execVars, atCutoff, sealed, verified, cleanupError, meta,
                 step, raising, task, envVars>>

(* Variant: the live processes are not part of the verification. *)
InjectionCheckableByQueries == ~ late

(* verify_injection can pass only while queries get an answer, and if the  *)
(* daemons that it wants are alive: executor.processes, polled.            *)
InjectionCheckable ==
  /\ ~ late
  /\ {"hostapd", "wpa_supplicant"} \subseteq Launched \intersect running
  /\ class # "dhcp_no_server" => "dhcp_server" \in Launched \intersect running

Verify ==
  /\ phase = "verify" /\ phase' = "observe"
  /\ \/ ok /\ InjectionCheckable /\ verified' = TRUE
     \/ UNCHANGED verified
  /\ UNCHANGED <<class, hostVars, execVars, ok, error, atCutoff, sealed, cleanupError, meta,
                 step, raising, task, envVars>>

(* collect_observed keeps every failure to itself. *)
Observe ==
  /\ phase = "observe" /\ phase' = "cleanup"
  /\ UNCHANGED <<class, hostVars, execVars, dataVars, step, raising, task, envVars>>

-----------------------------------------------------------------------------
(* Executor.cleanup *)

KillTasks == [i \in 1..Len(started) |-> [kind |-> "kill", what |-> Reverse(started)[i]]]
HostTasks == <<[kind |-> "delete", what |-> "occ"], [kind |-> "delete", what |-> "sta"],
               [kind |-> "delete", what |-> "ap"], [kind |-> "unload", what |-> "module"]>>

(* Variant: the host is cleaned up twice. *)
TasksInTwoRounds == KillTasks \o HostTasks \o HostTasks

(* Variant: the namespaces go first. *)
TasksHostFirst == HostTasks \o KillTasks

Tasks == KillTasks \o HostTasks

Doing(kind) ==
  /\ phase = "cleanup" /\ task < Len(Tasks)
  /\ Tasks[task + 1].kind = kind
  /\ task' = task + 1
  /\ UNCHANGED <<class, execVars, ok, error, atCutoff, sealed, verified, meta, step, phase, raising, envVars>>

(* TERM, wait, KILL, wait, finish the recorder.  Either the daemon is      *)
(* gone, or the error is kept; a recorder can add an error of its own.     *)
Kill ==
  /\ Doing("kill")
  /\ \/ running' = running \ {Tasks[task + 1].what} /\ cleanupError' \in {cleanupError, TRUE}
     \/ UNCHANGED running /\ cleanupError' = TRUE
  /\ UNCHANGED <<netns, module>>

(* Variant: only a module that is known to be loaded is an error to keep. *)
DeleteIgnoringErrors ==
  /\ Doing("delete")
  /\ netns' \in {netns, netns \ ({Tasks[task + 1].what} \intersect owned)}
  /\ UNCHANGED <<running, module, cleanupError>>

Delete ==
  /\ Doing("delete")
  /\ LET role == Tasks[task + 1].what IN
     \/ role \in owned /\ netns' = netns \ {role} /\ UNCHANGED cleanupError
     \/ role \in owned /\ UNCHANGED netns /\ cleanupError' = TRUE
     \/ role \notin owned /\ UNCHANGED <<netns, cleanupError>>
  /\ UNCHANGED <<running, module>>

(* Variant: a module that cannot be removed is no error. *)
UnloadIgnoringErrors ==
  /\ Doing("unload")
  /\ module' \in {module, module /\ ~ loaded}
  /\ UNCHANGED <<running, netns, cleanupError>>

Unload ==
  /\ Doing("unload")
  /\ \/ loaded /\ module' = FALSE /\ UNCHANGED cleanupError
     \/ loaded /\ UNCHANGED module /\ cleanupError' = TRUE
     \/ ~ loaded /\ UNCHANGED <<module, cleanupError>>
  /\ UNCHANGED <<running, netns>>

CleanupEnds ==
  /\ phase = "cleanup" /\ task = Len(Tasks)
  /\ IF raising = "atOnce"
     THEN phase' = "raised" /\ UNCHANGED <<ok, error>>
     ELSE /\ phase' = "finalize"
          /\ ok' = (ok /\ ~ cleanupError)
          /\ error' = (error \/ cleanupError)
  /\ UNCHANGED <<class, hostVars, execVars, atCutoff, sealed, verified, cleanupError, meta,
                 step, raising, task, envVars>>

-----------------------------------------------------------------------------
(* The metadata. *)

(* BundleMeta: a failed status, an unverified injection or an unhealthy    *)
(* capture quarantines the bundle.                                         *)
Quarantine(status, healthy) == ~ status \/ ~ verified \/ ~ healthy

(* The capture is parsed; an empty required file fails the run, with an    *)
(* error; then meta.json is written and a pending interrupt is raised.     *)
Finalize ==
  /\ phase = "finalize"
  /\ \E healthy, complete \in BOOLEAN :
       /\ ok' = (ok /\ complete)
       /\ error' = (error \/ (ok /\ ~ complete))
       /\ meta' = IF Quarantine(ok', healthy) THEN "quarantined" ELSE "accepted"
  /\ phase' = IF raising = "no" THEN "returned" ELSE "raised"
  /\ UNCHANGED <<class, hostVars, execVars, atCutoff, sealed, verified, cleanupError,
                 step, raising, task, envVars>>

(* validate_meta refuses an end that precedes the start (the wall clock    *)
(* was set back), or meta.json cannot be written.                          *)
FinalizeRaises ==
  /\ phase = "finalize" /\ phase' = "raised"
  /\ UNCHANGED <<class, hostVars, execVars, dataVars, step, raising, task, envVars>>

-----------------------------------------------------------------------------
(* KeyboardInterrupt.  During the plan it is noted and the finally block   *)
(* runs; while closing, verifying or observing, only cleanup still runs;   *)
(* later nothing does.                                                     *)

CountInterrupt == interrupts < MaxInterrupts /\ interrupts' = interrupts + 1

(* It can come after a command has had its effect and before the executor  *)
(* has noted it: between Popen and processes.append the daemon runs,       *)
(* unlisted.                                                               *)
InterruptPlan ==
  /\ phase = "plan" /\ phase' = "close"
  /\ CountInterrupt
  /\ raising' = "afterwards" /\ error' = TRUE
  /\ \/ UNCHANGED hostVars
     \/ At("run") /\ Healthy /\ ~ late /\ Effect /\ UNCHANGED running
     \/ /\ At("start") /\ Healthy /\ ~ late
        /\ running' = running \union {Plan[step + 1].what}
        /\ UNCHANGED <<netns, module>>
  /\ UNCHANGED <<class, execVars, ok, atCutoff, sealed, verified, cleanupError, meta,
                 step, task, late>>

InterruptClosing ==
  /\ phase \in {"close", "seal", "verify", "observe"} /\ phase' = "cleanup"
  /\ CountInterrupt
  /\ raising' = "atOnce"
  /\ UNCHANGED <<class, hostVars, execVars, dataVars, step, task, late>>

InterruptEnd ==
  /\ phase \in {"cleanup", "finalize"} /\ phase' = "raised"
  /\ CountInterrupt
  /\ raising' = "atOnce"
  /\ UNCHANGED <<class, hostVars, execVars, dataVars, step, task, late>>

Finished == Ended /\ UNCHANGED vars

-----------------------------------------------------------------------------
Harness ==
  \/ RunSucceeds \/ RunTimesOutAfterEffect
  \/ StartSucceeds \/ QuietStepSucceeds
  \/ StepFails \/ PlanSucceeds
  \/ TakeCutoff \/ Seal \/ SealFails
  \/ Verify \/ Observe
  \/ Kill \/ Delete \/ Unload \/ CleanupEnds
  \/ Finalize \/ FinalizeRaises

Next ==
  \/ Harness
  \/ DeadlinePasses
  \/ \E p \in Daemons : Exit(p)
  \/ InterruptPlan \/ InterruptClosing \/ InterruptEnd
  \/ Finished

Spec == Init /\ [][Next]_vars

(* The harness is one thread in which every call has a timeout, and every  *)
(* daemon runs under GNU timeout.                                          *)
FairSpec ==
  /\ Spec
  /\ WF_vars(Harness)
  /\ \A p \in Daemons : WF_vars(Exit(p))

-----------------------------------------------------------------------------
(* An accepted bundle comes from a run that nothing interrupted and that   *)
(* left nothing on the host: its namespaces and the module are gone, every *)
(* daemon is dead, including one that died between two looks at it, and    *)
(* there is a sealed observation window.                                   *)
AcceptedRunIsClean ==
  meta = "accepted" =>
    /\ raising = "no" /\ sealed
    /\ running = {} /\ netns = {} /\ ~ module

(* In an accepted bundle the daemons that impose the scenario, which the   *)
(* harness looks at before the cutoff (healthy) and after it               *)
(* (verify_injection) only, were alive when the observation was cut off.   *)
DaemonsAliveAtCutoff ==
  meta = "accepted" =>
    /\ {"hostapd", "wpa_supplicant"} \subseteq atCutoff
    /\ class # "dhcp_no_server" => "dhcp_server" \in atCutoff

(* Whenever metadata are written and cleanup has reported no error,        *)
(* everything that the executor knew of is released, however early and in  *)
(* whatever way the plan ended.                                            *)
OwnedIsReleased ==
  meta # NoMeta /\ ~ cleanupError =>
    /\ running \intersect Launched = {}
    /\ netns \intersect owned = {}
    /\ loaded => ~ module

(* Metadata are always valid in this respect: a status that is not ok has  *)
(* an error, or BundleMeta would refuse the metadata and the run's outcome *)
(* would be lost with them.                                                *)
FailuresAreExplained == phase = "finalize" => ok \/ error

(* "terminates process groups before deleting owned namespaces and         *)
(* unloading the module": while a daemon that was started is alive no      *)
(* namespace goes away and the module stays, unless a kill failed.         *)
DaemonsGoFirst ==
  [][ ~ (netns \subseteq netns') \/ (module /\ ~ module')
      => running \intersect Launched = {} \/ cleanupError ]_vars

(* Every bundle ends: "Setup and polling are bounded". *)
Ends == <>Ended

(* Whatever happens to the harness, in the end no daemon runs, also one    *)
(* that the harness never listed.                                          *)
DaemonsDie == <>[](running = {})

(* "a finally block terminates process groups before deleting owned        *)
(* namespaces and unloading the module": after a run whose cleanup         *)
(* reported no error, nothing is left on the host.                         *)
NothingLeftBehind ==
  meta # NoMeta /\ ~ cleanupError => running = {} /\ netns = {} /\ ~ module
=============================================================================
