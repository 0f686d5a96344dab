# airtrace: a TLA+ model

airtrace is two things that work on the same captures. A C11 program parses
classic pcap files of 802.11 frames and prints JSONL or statistics. A Python lab
drives hostapd, wpa_supplicant, a DHCP server and client and tcpdump on simulated
radios, breaks one thing on purpose, and keeps what a diagnosing tool may see as a
*bundle*; a Python triage package shows bundles to rules and language models and
scores their answers. This directory models the parts in which the order of
events, failures or limits decide whether the result can be trusted.

## Inventory

| Component | State | Operations | Interacts with |
|---|---|---|---|
| Frame parser, `src/airtrace.c` | an offset, the frame record | radiotap, MAC header, management body, elements, EAPOL | called by the command line for each record |
| Pcap reader, `src/pcap.c` | the file, `NULL` after a terminal error | open, next | command line |
| Command line and statistics, `src/main.c` | counters, BSSID table, handshake table, result | the reading loop, `add_stats`, exit | reader, parser; run by `verify.py` and `triage/data.py` |
| Observation window, `lab/window.py` | per daemon a pipe, a reader thread and its records; the cutoff | `_read`, `snapshot`, `finish`, `trim_capture`, `validate_window` | threads and main thread share the records; bundles are loaded by triage |
| Scrub, `lab/scrub.py` | none | which lines are control echoes | `snapshot` |
| Lab runner, `lab/run_lab.py` | the Executor: processes, namespaces, module, deadline; the metadata | plan, execute, close, cleanup, run_bundle, main | the host: processes, namespaces, a kernel module |
| Verification, outcomes, manifest: `lab/verify.py`, `outcomes.py`, `manifest.py` | the metadata, `manifest.json` | queries, acceptance rule, hashes | runner, triage |
| Triage data: `data.py`, `redact.py` | bundle, view, key | load, redact | all arms |
| Triage tools: `tools.py` | a worker process and a pipe per search | `search_safely`, listings | the tool arm |
| Arms and client: `arms.py`, `llm.py` | messages, rounds, repair flag, tokens, request times | `run_arm`, `complete` | evaluation, an HTTP service |
| Evaluation and freeze: `eval.py`, `freeze.py` | provenance, frozen hashes, results | evaluate, freeze, verify | the dataset and the source tree, which others can change |
| Metrics: `metrics.py`, `statistics.py`, `leakprobe.py`, `audit.py` | none | tables and intervals | evaluation |
| Rules, citations, codes, schema, trace, fake | an append-only file at most | text matching | arms |
| `bench/`, `fuzz/`, `third_party/` | | | drive the parser |

What is hard, and what makes each part correct:

* **Window.** One thread per daemon, two clocks of which one can be set, a cutoff
  taken while lines are in flight, tcpdump that runs on, pipes that never close.
  Correct: nothing written after the cutoff is visible; a visible log has no
  holes; echo blocks go as a whole; what is sealed can be loaded; a failing
  recorder or an undrained pipe never goes unnoticed; closing always ends.
* **Runner.** Commands fail, hang, or time out after they have worked; daemons die
  between two looks at them; the user interrupts; cleanup fails half-way.
  Correct: an accepted bundle comes from a complete and cleaned-up run whose
  daemons were alive at the cutoff; what the executor owns is released, daemons
  first; each failure is explained; every run ends and every daemon dies.
* **Statistics.** Tables of fixed size, fields that arrive in any order, errors of
  two kinds. Correct: the summary agrees with the frames; status 0 means that it
  is complete.
* **Parser.** Offsets from untrusted lengths; alignment; chained present words;
  capacity of the element table. Correct: never outside the buffer, never past a
  declared length.
* **Tools, arms, client.** A worker that answers when its time is up; rounds,
  repair and retries; accounting over failed attempts. Correct: bounded calls,
  one repair, no double counting.
* **Evaluation.** Inputs hashed at one time and read at another. Correct: results
  are about the inputs that they name, or evaluation fails.

## Modules

| Module | Models | Proved or checked |
|---|---|---|
| `SealedEvidence` | abstract: what the lab promises about the evidence of a bundle | refined by `ObservationWindow` |
| `ObservationWindow` | `lab/window.py`, `lab/scrub.py`, `close_observation`, joining of recorders | TLC and TLAPS |
| `ObservationWindowProofs` | type, cutoff and drain theorems; prefixes, captures and loading while the clock is set forward only | TLAPS |
| `ObservationWindowRefinement` | the refinement theorem | TLAPS |
| `BundleRun` | one `run_bundle`: plan, Executor, finally block, metadata | TLC and TLAPS |
| `BundleRunProofs` | type, release and order-of-cleanup theorems; what an error, a cutoff and an acceptance tell of the run | TLAPS |
| `CaptureStats` | reading loop and statistics of `src/main.c` | TLC and TLAPS |
| `CaptureStatsProofs` | types, counts, both tables and exit status 0 | TLAPS |
| `FrameParser` | `src/airtrace.c` on one record after the other, with the reader of `src/pcap.c` under it | TLC and TLAPS |
| `FrameParserProofs` | types, bounds of all reads, record boundaries, elements, radiotap fields, progress of the loops | TLAPS |
| `ModelArm` | `run_arm` of `triage/arms.py`, `complete` of `llm.py`, `search_safely` of `tools.py`, `trace.py` | TLC and TLAPS |
| `ModelArmProofs` | type, calls, plan, spacing, worker and trace theorems | TLAPS |
| `Evaluation` | `main` of `lab/run_lab.py`, `lab/manifest.py`, `triage/freeze.py`, `evaluate` of `eval.py`, exclusions of `metrics.py` | TLC and TLAPS |
| `EvaluationProofs` | type, held-out and row theorems; reasons of a refusal, published counts | TLAPS |
| `NatSets` | induction over the natural numbers, stated for sets | TLAPS |
| `MC...` | values of the constants for TLC | |

Operators introduced by a comment that begins with "Variant" are what a plausible
mistake would make of the definition after them. The specifications do not use
them; substituting one for its definition must break the property that it is
meant for.

### ObservationWindow

`out[s]` is everything daemon `s` wrote, each line with the time `at` which it was
written, the wall time that the daemon printed on it (`-t`) and whether it is an
ordinary event, a control echo or an indented continuation. `now` is the monotonic
clock and real time; the wall clock is `now + skew`, and `StepWallClock` sets it.
`rpc[s]` is where the reader thread is: blocked in `readline`, before the wall
clock is read, before the monotonic clock is read, before the line is stored,
ended, failed. `marks[s][i]` is the mark of record `i`. The main thread goes
through `phase`; `CutUnix` and `CutMono` are the two readings of `clock_mark`,
`CheckError` and `Snapshot` the unlocked look at the error and the copy under the
lock, `Trim` is `trim_capture`, `Terminate` and `Finish` are the two halves of
each round of `cleanup`.

Abstractions. A line that `splitlines` breaks into several records is one record.
The fixed order of the four sources is any order. Line contents are what the
scrub and the cutoff tell apart. Blank lines count as indented, as the scrub has
it. Pcap bytes are a time per packet.

`SealedEvidence` knows only times of lines, one cutoff and views that are fixed
once. The mapping forgets threads, clocks and records: `written` is the times of
`out`, the cutoff is the monotonic half of the mark.

### BundleRun

`class` selects the plan; `step` is the place in it. The host (`running`, `netns`,
`module`) is kept apart from what the executor knows of it (`started`, `owned`,
`loaded`), since the gap between them is where things are lost:
`RunTimesOutAfterEffect` and the interrupt between `Popen` and `append` open it.
`StepFails` is every exception without an effect. `TakeCutoff`, `Seal` or
`SealFails`, `Verify`, `Observe` are the statements of the finally block, the
tasks of `cleanup` are taken one by one with their errors, `Finalize` is the rest
up to `meta.json`. `raising` tells the two ways in which an interrupt travels: one
during the plan is raised again after the metadata are written, one during closing
loses them after cleanup.

Abstractions. Commands that create nothing, and short delays, belong to the step
before which they stand. The deadline passes at any moment, as do the 140 seconds
of GNU `timeout`. Queries answer as they like. What closing does to the evidence
is `ObservationWindow`. The model is one bundle on a clean host: `main` looks at
the host once, before the first bundle.

### CaptureStats

The variables are the fields of `capture_stats`, plus the history `seen` of all
parsed frames. Properties compare the incremental tables with what a second,
declarative reading of `seen` says: the frames about an address, about it with a
signal, between two stations with a message are sets of places in `seen`, and an
entry is what the last or the first of such a set says, or how many there are. A
frame is a record of the fields that statistics use; the address list is the two
addresses that `add_handshake` looks at. Counters do not wrap: they have 64 bits.

### FrameParser

`reader` is `airtrace_pcap_reader` (its file pointer, snaplen and link type);
`inStep` is a history that tells whether the file stands at a record boundary.
`phase` is the function or loop that runs: `radiotap`, `maps` (the chain of present
words), `fields`, `tlvs`, `control` and `header` (`parse_mac`), `fixed`
(`parse_management`), `elements`, `eapol`. `off` and `limit` are the offset and length
that the function was called with, `origin` where its buffer begins in the record,
and `reach` is one past the last byte that it has read: a history that every
read raises, and that `ReadsInBounds` compares with what was available. The record's
bytes are chosen as they are read, so that one run of the model is one class of
records. `words`, `cur`, `bits`, `base` and `std` are the present words, the word and
the bits of it that are still to be scanned, the field index of its bit 0 and whether
it lists standard fields. `turn` flips at every step of the parser, so that no step
is a stutter and `FramesEnd` speaks of every iteration of every loop.

Abstractions. A decoded value is present or absent, and of the copies that a frame
keeps only which element they came from. Presence bits are scanned from the lowest
set bit, as `for` does with its `continue`. The two byte orders and resolutions of a
capture are one choice at opening. Lengths in the code are `size_t` and come from
16-bit and 8-bit fields of a record that the command line limits to 1 MiB, so that
sums do not wrap; the model uses naturals. `MaxIes` stands for 128, `Capacity` for the caller's
buffer.

### ModelArm

The messages of a conversation are their size, in the estimate that
`estimate_prompt_tokens` makes of them, and so are `InitialEstimate`, `HistoryBudget`
and `Largest` of `preflight`. `pc` is where `run_arm`, or the call that it is in,
stands: `ask` is the head of its loop, `limit` and `post` are `complete`, `judge` and
`tools` what it makes of an answer, and the phases from `poll` to `killed` are
`search_safely`. `worker` is the worker process and its pipe, which may hold nothing,
part of a message or all of it. Times are relative: `wait` is how long until the next
request may start, so that no clock grows. `since` and `spacing` (time between
requests), `refused` and `spill` are histories.

Abstractions. The order of calls in a round is kept, their kind is chosen: a search,
another tool, a call without an id of its own, an exception that nobody catches. The
provider is any sequence of failures, bad envelopes and answers, with or without
token counts. Latency and price follow the same accounting as tokens, of which one
kind is kept. Trimming of the raw logs to their budget has happened before the arm
begins: it decides `Initial`.

### Evaluation

Contents are versions: `now[i]` is the version of a bundle's files, of `models.json`
or of the source tree, and `Edit` raises it at any moment after the campaign, between
any two reads. `bundle[b]` says whether a directory is complete, quarantined, or the
stray of a `run_bundle` that raised. `manifest` holds the versions that
`manifest.json` lists; `RewriteManifest` is `python -m lab.manifest`. `stage` and `step`
say where `freeze` and `evaluate` stand, in `verified_manifest` and `current_hashes`
too, which both call: `seen` is what they have hashed so far and `listed` the
manifest that they read. `recorded` is `provenance`. `used` and `scored` are
histories of what the evaluation has read, and in which version.

Abstractions. Hashes do not collide. An edit never brings back old contents: a file
that is changed and restored between two hashes is beyond what the code can notice
and beyond what the properties say. The settings are a function of `models.json`
(`SettingsOf`), so that an edit may leave them as they are. `commit`, seed schedule and
the field checks of the metadata reject a dataset as a mismatch does.
`models.json` and each bundle are read in one step; the source, in more than one step,
is imported, hashed, read for `preflight` and read for each diagnosis.

## Runs

| Run | Bounds | Shows |
|---|---|---|
| `WindowSteppedBack` | one stamped and scrubbed daemon, 2 lines, 2 times, the wall clock set between 2 values | `VisibleBeforeCutoff`; the refinement. Two lines are one in flight and one stored; two times are before and after the cutoff |
| `WindowForward` | the same with a packet and the wall clock set forward only | `VisibleIsScrubbedPrefix`, `SealedWindowsLoad`, `CaptureBeforeCutoff` |
| `WindowDrain` | two daemons, up to 2 lines each, fairness | `AcceptedIsComplete`, `Terminates`: one daemon can fail while the other is drained |
| `WindowEcho` | 2 lines, no time passes | finding: `EchoBlocksRemoved` is violated |
| `BundleSafety` | the three plans that contain all others, 1 interrupt | the six safety properties of a run |
| `BundleEnds` | the shortest plan, 1 interrupt, fairness | `Ends`, `DaemonsDie` |
| `BundleLeak` | plain plan, no interrupt | finding: `NothingLeftBehind` is violated |
| `StatsSummary` | 3 access points, 2 clients, tables of 2, 4 records of 14 kinds | the summary properties: a table fills up with three records and the fourth is about a known or an unknown address |
| `FrameParser` | records of 21 lengths up to and past a buffer of 142 bytes, presence words of ten kinds and up to 5 of them, frames of every type, 3 elements | the properties of the parser and the reader, and that every loop ends. Lengths fit exactly or miss by a byte; three words already hold a reset, a vendor namespace and a word after either; the fourth element finds a full table |
| `ModelArm` | 2 tool rounds, 1 retry, budgets in the proportion of the code's, context lengths that reject, just fit and leave room; outputs that fit and overrun; up to 7 calls in a round | the seven properties of a diagnosis: the last round, the repair and the closing message all meet in two rounds |
| `Evaluation` | a dev and a test bundle, a rules and a model group, 2 edits of anything at any moment, the first edit of `models.json` leaving the settings as they are | the five properties of a published evaluation. Two edits are one between hash and use and one more that could hide it; the theorems hold for any number of both |
| `StatsHiddenSsid` | beacons only, 3 records | finding: `RevealedSsidIsRetained` is violated |

The properties of `WindowForward` hold only while the wall clock is not set back
(the constant `Steps` says which settings occur): with it set back, late packets
pass `trim_capture`, a log can have holes, and a window can be sealed that
`validate_window` refuses since the scenario starts after its end.

## Fairness

`WindowDrain` assumes weak fairness of the main thread only: every wait in
`close_observation`, `finish` and `cleanup` has a timeout, so a step is always
enabled, whatever reader threads and daemons do. `BundleEnds` assumes it of the
harness for the same reason (each command, poll loop and wait is bounded), and of
the exit of each daemon, because each is started under `timeout
--kill-after=3s 140s`. `FrameParser` assumes it of the parser's own steps, which one
thread takes without waiting; calls of the reader may stay away. `ModelArm` assumes it
of the arm's own steps, whose waits have time limits (`sleep`, `poll`, `join`), and of a
worker that has begun to write its answer: `recv` after a successful `poll` has no time limit,
and the message, cut to 200 rows, follows its length at once. Nothing is assumed of
a worker that searches, nor of the provider (`Request`): the timeout that `llm.py:188`
gives to `httpx.Client` limits each connect, read and write, not the request, so that a
response which arrives byte by byte may never end. `ArmEnds` therefore says that a
diagnosis ends or stays in one request for ever. Nothing is assumed of interrupts, deadlines or
wall clocks.

## Findings

1. `lab/window.py:100`. The cutoff drops lines before echo blocks are looked for.
   If the wall clock is set back between the two lines, the echo line is dropped
   and its continuation remains visible, while `lab/README.md:103` says that echo
   lines and their continuations are removed in every class.
2. `lab/run_lab.py:159`. Effects of a command that timed out are not noted, so
   cleanup skips them and reports no error; `lab/README.md:66` says that the finally
   block deletes owned namespaces and unloads the module.
3. `src/main.c:150`. "Hidden" is length zero only; an SSID of NUL bytes replaces
   the revealed name, which the comment and `README.md:87` say is retained.

Gaps that no run reports. The first is a disagreement with a comment as well; the others
contradict no document:

* `triage/tools.py:51`. `re.compile` raises `OverflowError` for a repeat count that is
  too large, which neither `search_safely` nor the toolbox nor `run_arm` catches. It
  ends the diagnosis (`pc = "raised"` in `ModelArm`) as an `ERROR` row without tokens or
  cost, and the completion that called the tool never reaches the trace, while
  `trace.py:1` promises a record for each completion request. `TraceMatchesCalls`
  therefore speaks of diagnoses that return. An `OSError` of `recv` on a message that
  stops in its middle ends a diagnosis in the same way; one that stops after its
  length is an `EOFError`, which is caught.
* tcpdump or the occupant can die between the last `healthy()` and the cutoff, and
  `verify_injection` does not look at them.
* A worker that outlives `SIGKILL` makes `process.close` (`triage/tools.py:77`) raise
  `ValueError`, which the model is told as invalid arguments.
* `triage/llm.py:253`. No limit is set to a request as a whole: a provider that sends a
  little within each timeout holds a diagnosis, and the evaluation, for ever.
* `triage/eval.py:215`. On the dev split, `models.json` is loaded before it is hashed
  for the record, and the source is imported before it is. An edit in between is
  published under the hash of the new contents. On the test split both lie between
  two verifications of the freeze (`HeldOutIsFrozen`).
* A `run_bundle` that raises leaves a directory without `meta.json`, which the
  manifest does not list; `verify_manifest` refuses the dataset from then on, the
  complete bundles included, until someone removes it.
* `python -m triage.freeze` creates `FROZEN.json` before it writes it. `HeldOutIsFrozen`
  is about evaluations that begin with a complete one (`frozenFirst`); one that
  began earlier has imported its source, and read its settings, before the freeze.

## Proofs

Every safety property that a passing run checks, invariant or action property,
is also a theorem, for every value of the constants that satisfies the named
assumptions of its module; so is the refinement. Only the five liveness properties
are left to TLC.

| Component | Holds for | Assumed |
|---|---|---|
| window | every set of sources, every setting of the wall clock, every bound | the sources form a nonempty set, skews and bounds are natural numbers; three theorems also `OnlyForward`, see below |
| run | every set of classes, any number of interrupts | the classes are among the four |
| statistics | every set of frames, capacities of the tables and lengths of the capture | a station is not a group address, no value is the marker of an absent one, capacities are natural numbers |
| parser | every buffer, element table, length, presence word, TLV and element | lengths are natural numbers and presence words have 32 bits |
| arm | all budgets, limits and sizes | the reserve holds the closing message and one repair message (`ArmAssumption`) |
| evaluation | every finite set of bundles, every set of groups and settings, any number of edits | bundles and groups are natural numbers, held-out bundles are bundles |

The bounds of the runs are constants of these theorems, so what TLC shows on a small
instance they show for all. An invariant that is proved is seldom inductive; what
follows says which one is, and why it is needed.

The window:

* `TypeCorrect`: one case per action.
* `NothingVisibleAfterCutoff`. `VisibleBeforeCutoff` is not inductive: it says
  nothing of the marks from which views are made. `WindowInv` adds that the
  records of a source are a prefix of its lines with at most one line in flight;
  that the monotonic mark of each record, and of the line in flight once taken,
  is not earlier than the line; that no line is later than `now`; and that a
  sealed view holds recorded lines marked by the cutoff. One line is then not
  later than its mark, which is not later than the cutoff.
* `AcceptedRunsAreComplete`. `DrainInv` adds that a reader ends only at the end of
  a closed pipe, with all lines recorded, and that a source joined without an
  error has such a reader.
* `WindowImplementsSealedEvidence`. `RefinementInv` adds to `WindowInv` that views
  are unsealed before closing and that trimming comes when all are sealed; each
  step then maps to a step of `SealedEvidence` or to a stutter.
* `ViewsAreScrubbedPrefixes`, `CaptureEndsAtCutoff` and `WindowsLoad` have the hypothesis
  `OnlyForward`: `Steps` sets the wall clock to later values only. It is what the run
  `WindowForward` assumes, and without it all three are false (see Runs).
  `ForwardInv` ties the two clocks together. From the moment when both halves of the
  cutoff are read, `end.unix - end.mono <= skew` (`CutoffOnClocks`), so what the wall
  clock puts before the cutoff came before it. Marks of a source are in order on both
  clocks and later than the stamps of their lines (`MarksInOrder`), so that the
  eligible records are the first so many (`InitialPlaces`), and whether a record is in
  an echo block is decided by the lines before it (`EchoBlocks`, by induction along
  the lines): each view is what the scrub leaves of a prefix (`ViewsArePrefixes`).

The lab runner:

* `BundleTypeCorrect` rests on two lemmas about data: every plan is a sequence of
  plan steps (`PlanType`), and the cleanup tasks are one kill per listed daemon
  followed by the four of the host (`TaskList`).
* `OwnedReleased` and `DaemonsDieFirst`. `OwnedIsReleased` speaks of the end only.
  `OwnedInv` adds how far cleanup has come: no task is done before the observation
  is over, all are when metadata are written, and while no error is kept, each task
  done so far has released its daemon, namespace or module. Nothing brings these
  back, for only the plan starts things. `NextTask` says which task is next; a
  delete or the unload is next only when all kills are done, which is the order
  that `DaemonsDieFirst` states.
* `FailuresCarryErrors`. `ErrorIsKept`: from the first step of closing on, a bundle
  whose status is not ok has an error; closing and cleanup only clear the one when
  they set the other.
* `AliveWhenCutOff`. Nothing polls the daemons at the cutoff. `AliveInv`: until
  verification is over, every daemon that runs ran at the cutoff, so the injection
  that `verify_injection` finds in place was in place then.
* `AcceptedRunsAreClean`. `CleanInv`: while the status is ok, the executor knows of
  everything that runs or exists on the host (`AllIsKnown`), which a command that
  times out after its effect breaks, and clears the status. With `OwnedInv`, what it
  knows of is released.

Statistics, by `StatsInv`:

* `StatsTypeCorrect`, `CountsAreExact`: the counters of subtypes add up to the parsed
  frames, and one more frame adds to one of them.
* `BssidTableIsTrue`. `BssidTable` adds to the property that each listed address is told of
  by some frame, and that while nothing overflowed every address is listed. A new
  entry therefore summarises one frame, and an overflow means more addresses than
  places. What one more frame does to the last named, the last with a channel and
  the signals of an address is `SummaryStays` and `NewSummary`.
* `HandshakeTableIsTrue`. `HandshakeTable` is the same for pairs. `ClientIsOtherEnd` says that
  both directions of an exchange come to one pair.
* `SuccessTellsAll` is their conclusion: status 0 excludes errors and overflows.

The parser:

* `ReadsAreBounded`. `BoundsInv` adds to `ReadsInBounds` that lengths and offsets are
  naturals, that the word being scanned exists (`Scanning`), and where each phase
  finds its region (`Regions`: radiotap at the start of the record, nothing read
  between records). `AlignForward` and `FieldTables` are what it needs of the
  arithmetic and of the two tables; `EnterMacKeepsBounds` is the step from the
  radiotap header into the rest of the record.
* `RecordsStayInStep`. `StepInv`: a reader that is open stands at a record boundary, and
  so does one that has handed out the record being parsed.
* `ParserTypeCorrect` and `FirstElementIsKept`. `TypesInv` adds to both the types of the
  frame and, for each kind of element the frame keeps, that the one kept is the first
  in the list (`FirstKept`), which `ElementKeepsFirst` shows of one more element.
* `ElementsFillTheBody`. `TileInv`: while the list is read, its elements tile the body up
  to the offset; before, the frame has none, and the region that is being decoded
  ends where the record does, less a check sequence.
* `FieldsArePlaced`. The property speaks of all presence words at once, the code of
  one bit at a time. `Scanned` says that the bits left of a word are its upper end, that
  `base` is the index of its bit 0 counted from the last reset, and that `std` says what the
  last namespace bit says; `CountedIn` that the field of each announced bit is
  found at its rank among them, and `PlacedIn` that the fields lie one behind the
  other. `AnnounceOne` and `PlaceOne` add one field, `NextWord` goes on to the next word.
* `EveryTurnAdvances` states the action property `TurnsAdvance`: no phase comes back, and a
  turn of a loop moves the offset on within its region, goes to a later presence word
  or takes a bit from the current one. It is the safety half of `FramesEnd`, which the
  run checks; what is left is that a step is possible as long as there is a frame.

The evaluation:

* `EvaluationTypeCorrect`, `HeldOutEvaluationsAreFrozen` and `RowsRestOnHashes`.
  Versions only grow. What is read is therefore not older than what was hashed
  before, and not newer than what will be hashed later; when the two hashes agree,
  so does everything between them. `ListsAreOld`, `HashesAreOld` and `ReadsAreOld` say
  that nothing listed, hashed or read is newer than the files; `ReadsAreNew` and
  `RowsAreNew` that nothing read is older than what was frozen, and nothing behind a
  row older than what was recorded; `BundlesAreHashed`, `EachIsHashed`, `InputsAreHashed`
  and `RowsAreHashed` that nothing read before a later hash is newer than it; and
  `FrozenIsRead` is the conclusion, from the last comparison on. `Phases` and
  `ListsComplete` place the steps of the two processes.
* `EvaluationsAreNotLost`. `due` begins true when nothing stands in the way of an evaluation
  and an edit ends it. `DueInv`: while it lasts, the dataset and the prompts are as the
  start found them (`StillFit`), each hash of the running pass is that of the file
  (`HashesAreCurrent`), and so are the recorded ones (`RecordIsCurrent`). No comparison can
  then fail.
* `PublishedCountsAddUp`. Each row is what the fate of its bundle allows (`RowsFit`), rows appear
  in order (`RowsInOrder`), and rows of a model rest on prompts that `preflight` planned
  (`PromptsPlanned`). The rest is counting: `FivePartsCount` adds up the numbers of
  disjoint parts of a finite set.

The arm:

* `ArmTypeCorrect`, `CallsAreBounded`, `PlanAlwaysHolds`, `RequestsAreSpaced`,
  `NoWorkerIsLeft`. `Stages` says that a tool round runs only where one was offered,
  before the last round and the repair. `CallsCounted`: every completion ended a round, asked for the repair or is
  being judged. `Spaced`: the time since the last request and the wait for the next
  make up the gap. `Planned`: the messages take no more than the plan, what one
  omission added, the closing message and one repair message; an omission is the
  last round, so there is one at most.
* `TraceIsComplete`. `Traced`: the trace numbers its records from 0 and has all completions
  but the one being judged, and `tokens` are the sum of its counts, with that one's.
  The sum is a recursive function over a sequence; `TokensAreSums` states it by
  `AddsUp`, which `TokensGrow` extends by one record.

Induction. The induction theorems of the library take a predicate as a parameter,
which the provers at hand cannot instantiate. `NatSets` states what is needed of them
for sets: a nonempty set of naturals has a least element (`LeastNat`, from
`WFMin`), and a set with 0 and all successors has all naturals (`NatInSet`). From these
come `InitialPlaces` and the three facts about sums, which is all the induction that
the modules need.

Left to TLC: `Terminates`, `Ends`, `DaemonsDie`, `FramesEnd` and `ArmEnds`, since the prover
handles neither fairness over actions nor `ENABLED`; and that no part comes to a
stop before its end, which TLC's deadlock check shows of the instances (a diagnosis
really stops at its end, and `ArmEnds` says that it comes there unless a response
never ends).

## Not modelled, and the plan

Next:

1. Progress of the other loops as action properties with theorems, as `TurnsAdvance` is for
   the parser: what each step of closing, of cleanup and of a diagnosis uses up.
2. `ModelArm` as the refinement of one `Score` step of `Evaluation`.
3. Pure operators against references: the cut of `raw_logs`, the scrub for longer
   inputs, channel numbers.

Left out for good: text processing (redaction, citations, rules, rendering), random
draws, floating-point statistics, generated configuration files, the benchmark,
fuzz drivers and vendored tests.
