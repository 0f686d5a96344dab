----------------------------- MODULE Evaluation -----------------------------
(***************************************************************************)
(* From the campaign to the published comparison: the loop of              *)
(* lab/run_lab.py, the manifest of lab/manifest.py, triage/freeze.py,      *)
(* evaluate of triage/eval.py and the exclusions of triage/metrics.py.     *)
(*                                                                         *)
(* Everything that is hashed stands for the number of its version.  A file *)
(* may be edited at any time, between any two of the reads here, and an    *)
(* edit never gives it contents that it had before.                        *)
(***************************************************************************)
EXTENDS Integers, FiniteSets

CONSTANTS
    Bundles,      \* numbers of the bundles, in the order of their ids
    Test,         \* the bundles of the split "test"; the others are "dev"
    Groups,       \* numbers of the groups, in the order of `groups'
    LlmGroups,    \* those of a language model
    Outcomes,     \* outcomes of run_arm other than ERROR
    TooLong,      \* versions of the prompts that preflight rejects
    SettingsOf(_),\* the settings in a version of models.json
    MaxEdits      \* bound on the edits of the environment

\* What is hashed besides bundles, numbered next to them.
Models == -1
Source == -2
Settings == -3

Inputs == Bundles \cup {Models, Source}

ASSUME EvaluationAssumption ==
    /\ Bundles \subseteq Nat /\ IsFiniteSet(Bundles) /\ Test \subseteq Bundles
    /\ Groups \subseteq Nat /\ LlmGroups \subseteq Groups
    /\ TooLong \subseteq Nat /\ MaxEdits \in Nat

VARIABLES
    bundle,     \* the directory of each bundle
    now,        \* version of the files of a bundle, models.json, the source
    manifest,   \* manifest.json: the version of each bundle it lists
    edits,      \* edits so far
    stage,      \* what the freeze and the evaluation are doing
    step,       \* where verified_manifest or current_hashes stands in it
    seen,       \* what it has hashed so far, and the settings it has read
    listed,     \* the manifest it has read
    frozen,     \* FROZEN.json
    split,      \* --split
    entries,    \* bundles of the split in the manifest first verified
    recorded,   \* hashes in `provenance'
    fate,       \* what preparing has made of a bundle
    out,        \* the output directory exists
    rows,       \* rows of per_bundle.jsonl
    metrics,    \* metrics.json
    used,       \* what the evaluation has read, in which version (history)
    scored,     \* the part of it read for the rows (history)
    frozenFirst,\* FROZEN.json was complete when it began (history)
    contacted,  \* a provider has been asked (history)
    due         \* nothing stands against publishing (history)

Processes == {"freeze", "eval"}
Never == -1                     \* not read yet, not listed, not recorded

files   == <<bundle, now, manifest, edits>>
passes  == <<stage, step, seen, listed>>
plan    == <<split, entries, recorded>>
product == <<fate, out, rows, metrics>>
history == <<used, scored, frozenFirst, contacted, due>>
vars    == <<files, passes, frozen, plan, product, history>>

Row(outcome, excluded) == [outcome |-> outcome, excluded |-> excluded]
NotExcluded == "none"
NoRow == Row("none", NotExcluded)

Nothing   == [b \in Bundles |-> Never]
Unseen    == [i \in Inputs \cup {Settings} |-> Never]
NotFrozen == [state |-> "none", settings |-> Never, hashes |-> Unseen]

Listed(m) == {b \in Bundles : m[b] # Never}
FrozenInputs == Test \cup {Models, Source}

Init ==
    /\ bundle = [b \in Bundles |-> "none"]
    /\ now = [i \in Inputs |-> 0]
    /\ manifest = Nothing /\ edits = 0
    /\ stage = [freeze |-> "idle", eval |-> "campaign"]
    /\ step = [p \in Processes |-> "none"]
    /\ seen = [p \in Processes |-> Unseen]
    /\ listed = [p \in Processes |-> Nothing]
    /\ frozen = NotFrozen
    /\ split = "dev" /\ entries = {}
    /\ recorded = [source |-> Never, models |-> Never, manifest |-> Nothing]
    /\ fate = [b \in Bundles |-> "pending"]
    /\ out \in BOOLEAN /\ metrics = {}
    /\ rows = [b \in Bundles |-> [g \in Groups |-> NoRow]]
    /\ used = {} /\ scored = {}
    /\ frozenFirst = FALSE /\ contacted = FALSE /\ due = FALSE

---------------------------------------------------------------------------
(* The campaign and its manifest.                                          *)

\* The first that is not done yet, in the order of the loop.
IsNext(x, S, done) == x \in S \ done /\ \A y \in S \ done : x <= y

(* Variant: the manifest lists every directory. *)
CompleteAll == {b \in Bundles : bundle[b] # "none"}
\* The directories with a meta.json.
Complete == {b \in Bundles : bundle[b] \in {"ok", "quarantined"}}

ManifestNow == [b \in Bundles |-> IF b \in Complete THEN now[b] ELSE Never]

RunBundle(b) ==
    /\ stage.eval = "campaign"
    /\ IsNext(b, Bundles, {c \in Bundles : bundle[c] # "none"})
    /\ \E s \in {"ok", "quarantined"} : bundle' = [bundle EXCEPT ![b] = s]
    /\ UNCHANGED <<now, manifest, edits, passes, frozen, plan, product, history>>

\* run_bundle raises: it has made a directory, with files, and no meta.json.
AbortCampaign(b) ==
    /\ stage.eval = "campaign"
    /\ IsNext(b, Bundles, {c \in Bundles : bundle[c] # "none"})
    /\ bundle' = [bundle EXCEPT ![b] = "stray"]
    /\ stage' = [stage EXCEPT !.eval = "manifest"]
    /\ UNCHANGED <<now, manifest, edits, step, seen, listed, frozen, plan, product, history>>

\* write_manifest, after the last bundle or in the finally clause.
WriteManifest ==
    /\ \/ stage.eval = "manifest"
       \/ stage.eval = "campaign" /\ \A b \in Bundles : bundle[b] # "none"
    /\ manifest' = ManifestNow
    /\ stage' = [stage EXCEPT !.eval = "idle"]
    /\ UNCHANGED <<bundle, now, edits, step, seen, listed, frozen, plan, product, history>>

---------------------------------------------------------------------------
(* What goes on around the evaluation.                                     *)

Working == stage.eval \notin {"campaign", "manifest"}

Edit(i) ==
    /\ Working /\ edits < MaxEdits
    /\ i \in Bundles => bundle[i] # "none"
    /\ now' = [now EXCEPT ![i] = @ + 1] /\ edits' = edits + 1
    /\ due' = FALSE
    /\ UNCHANGED <<bundle, manifest, passes, frozen, plan, product, used, scored,
                   frozenFirst, contacted>>

\* python -m lab.manifest
RewriteManifest ==
    /\ Working /\ manifest # ManifestNow
    /\ manifest' = ManifestNow /\ due' = FALSE
    /\ UNCHANGED <<bundle, now, edits, passes, frozen, plan, product, used, scored,
                   frozenFirst, contacted>>

---------------------------------------------------------------------------
(* verified_manifest and current_hashes, for either process.               *)

Go(p, s) == stage' = [stage EXCEPT ![p] = s]
Refuse(p) == Go(p, "refused") /\ step' = [step EXCEPT ![p] = "none"]
Call(p, s, first) == Go(p, s) /\ step' = [step EXCEPT ![p] = first]

\* The evaluation has read input i.
Reads(i) == used' = used \cup {<<i, now[i]>>}

See(p, i) ==
    /\ seen' = [seen EXCEPT ![p][i] = now[i]]
    /\ IF p = "eval" THEN Reads(i) ELSE UNCHANGED used

ReadSettings(p) ==
    /\ step[p] = "settings"
    /\ seen' = [seen EXCEPT ![p][Settings] = now[Models]]
    /\ IF p = "eval" THEN Reads(Models) ELSE UNCHANGED used
    /\ step' = [step EXCEPT ![p] = "manifest"]
    /\ UNCHANGED <<files, stage, listed, frozen, plan, product, scored, frozenFirst,
                   contacted, due>>

\* A manifest that lists nothing is refused.
ReadManifest(p) ==
    /\ step[p] = "manifest"
    /\ IF Listed(manifest) = {} THEN Refuse(p) /\ UNCHANGED <<seen, listed>>
       ELSE /\ step' = [step EXCEPT ![p] = "bundles"]
            /\ listed' = [listed EXCEPT ![p] = manifest]
            /\ seen' = [seen EXCEPT ![p] =
                          [i \in DOMAIN Unseen |-> IF i \in Bundles THEN Never ELSE @[i]]]
            /\ UNCHANGED stage
    /\ UNCHANGED <<files, frozen, plan, product, history>>

\* The files of one bundle after the other.
VerifyBundle(p, b) ==
    /\ step[p] = "bundles"
    /\ IsNext(b, Listed(listed[p]), {c \in Bundles : seen[p][c] # Never})
    /\ IF listed[p][b] = now[b]
       THEN See(p, b) /\ UNCHANGED <<stage, step>>
       ELSE Refuse(p) /\ UNCHANGED <<seen, used>>
    /\ UNCHANGED <<files, listed, frozen, plan, product, scored, frozenFirst,
                   contacted, due>>

\* The bundles of a split are those that the schedule of seeds gives it.
OfSplit(b, s) == b \in Test <=> s = "test"

\* Files that no entry lists are refused, a split without bundles is, and
\* hashes are taken of a test split only.
AllListed(p) == \A b \in Bundles : bundle[b] # "none" => b \in Listed(listed[p])

BundlesVerified(p) ==
    /\ step[p] = "bundles" /\ \A b \in Listed(listed[p]) : seen[p][b] # Never
    /\ IF ~AllListed(p) THEN Refuse(p) /\ UNCHANGED entries
       ELSE CASE stage[p] = "first" ->
                   /\ entries' = {b \in Listed(listed[p]) : OfSplit(b, split)}
                   /\ IF entries' = {} THEN Refuse(p)
                      ELSE IF split = "test" THEN Call(p, "frozen1", "frozen")
                      ELSE Call(p, "load", "none")
              [] stage[p] = "last" -> Call(p, "comparing", "manifest hash") /\ UNCHANGED entries
              [] OTHER ->
                   /\ UNCHANGED entries
                   /\ IF Listed(listed[p]) \cap Test = {} THEN Refuse(p)
                      ELSE step' = [step EXCEPT ![p] = "models"] /\ UNCHANGED stage
    /\ UNCHANGED <<files, seen, listed, frozen, split, recorded, product, history>>

HashModels(p) ==
    /\ step[p] = "models" /\ See(p, Models)
    /\ step' = [step EXCEPT ![p] = "source"]
    /\ UNCHANGED <<files, stage, listed, frozen, plan, product, scored, frozenFirst,
                   contacted, due>>

(* Variant: FROZEN.json is part of the source it freezes. *)
SourceHashWithFrozen(p) == now[Source] + (IF frozen.state = "none" THEN 0 ELSE 1)
SourceHash(p) == now[Source]

HashSource(p) ==
    /\ step[p] = "source"
    /\ seen' = [seen EXCEPT ![p][Source] = SourceHash(p)]
    /\ IF p = "eval" THEN Reads(Source) ELSE UNCHANGED used
    /\ step' = [step EXCEPT ![p] = "hashed"]
    /\ UNCHANGED <<files, stage, listed, frozen, plan, product, scored, frozenFirst,
                   contacted, due>>

---------------------------------------------------------------------------
(* freeze.                                                                 *)

\* The settings are read for the record, and once more for the hashes.
StartFreeze ==
    /\ Working /\ stage.freeze \in {"idle", "refused"}
    /\ Call("freeze", "freezing", "settings")
    /\ frozen' = [frozen EXCEPT !.settings = now[Models]]
    /\ UNCHANGED <<files, seen, listed, plan, product, history>>

\* open(..., "x"), then the record.
CreateFrozen ==
    /\ stage.freeze = "freezing" /\ step.freeze = "hashed"
    /\ Call("freeze", "writing", "none")
    /\ frozen' = [frozen EXCEPT !.state = "part"]
    /\ UNCHANGED <<files, seen, listed, plan, product, history>>

WriteFrozen ==
    /\ stage.freeze = "writing"
    /\ Go("freeze", "done")
    /\ frozen' = [frozen EXCEPT !.state = "whole", !.hashes = seen.freeze]
    /\ UNCHANGED <<files, step, seen, listed, plan, product, history>>

---------------------------------------------------------------------------
(* evaluate, up to its first model call.                                   *)

\* FROZEN.json and the inputs it freezes agree.
FrozenAgrees ==
    /\ frozen.state = "whole"
    /\ \A i \in FrozenInputs : frozen.hashes[i] = IF i \in Bundles THEN manifest[i] ELSE now[i]
    /\ \A v \in {frozen.settings, frozen.hashes[Settings]} :
         SettingsOf(v) = SettingsOf(now[Models])

\* The process starts: it imports its source.  `due' says whether it should
\* succeed if nothing is changed from here on.
StartEvaluation ==
    /\ stage.eval = "idle" /\ Call("eval", "first", "settings")
    /\ split' \in {"dev", "test"}
    /\ Reads(Source) /\ frozenFirst' = (frozen.state = "whole")
    /\ due' = /\ manifest = ManifestNow /\ \A b \in Bundles : bundle[b] # "stray"
              /\ \E b \in Listed(manifest) : OfSplit(b, split')
              /\ split' = "test" => FrozenAgrees
              /\ now[Source] \notin TooLong /\ ~out
    /\ UNCHANGED <<files, seen, listed, frozen, entries, recorded, product, scored,
                   contacted>>

\* verify_frozen reads FROZEN.json, then calls current_hashes.
ReadFrozen ==
    /\ stage.eval \in {"frozen1", "frozen2"} /\ step.eval = "frozen"
    /\ IF frozen.state = "whole" THEN step' = [step EXCEPT !.eval = "settings"] /\ UNCHANGED stage
       ELSE Refuse("eval")
    /\ UNCHANGED <<files, seen, listed, frozen, plan, product, history>>

SameAsFrozen ==
    /\ \A i \in FrozenInputs : seen.eval[i] = frozen.hashes[i]
    /\ \A v \in {frozen.settings, frozen.hashes[Settings]} :
         SettingsOf(v) = SettingsOf(seen.eval[Settings])

CompareFrozen ==
    /\ stage.eval \in {"frozen1", "frozen2"} /\ step.eval = "hashed"
    /\ IF ~SameAsFrozen THEN Refuse("eval")
       ELSE Call("eval", IF stage.eval = "frozen1" THEN "load" ELSE "publish", "none")
    /\ UNCHANGED <<files, seen, listed, frozen, plan, product, history>>

LoadModels ==
    /\ stage.eval = "load"
    /\ IF LlmGroups = {} THEN UNCHANGED used ELSE Reads(Models)
    /\ Call("eval", "recording", "source hash")
    /\ UNCHANGED <<files, seen, listed, frozen, plan, product, scored, frozenFirst,
                   contacted, due>>

RecordSource ==
    /\ stage.eval = "recording" /\ step.eval = "source hash"
    /\ recorded' = [recorded EXCEPT !.source = now[Source]] /\ Reads(Source)
    /\ step' = [step EXCEPT !.eval = "manifest hash"]
    /\ UNCHANGED <<files, stage, seen, listed, frozen, split, entries, product,
                   scored, frozenFirst, contacted, due>>

RecordManifest ==
    /\ stage.eval = "recording" /\ step.eval = "manifest hash"
    /\ recorded' = [recorded EXCEPT !.manifest = manifest]
    /\ step' = [step EXCEPT !.eval = "models hash"]
    /\ UNCHANGED <<files, stage, seen, listed, frozen, split, entries, product, history>>

RecordModels ==
    /\ stage.eval = "recording" /\ step.eval = "models hash"
    /\ recorded' = [recorded EXCEPT !.models = now[Models]] /\ Reads(Models)
    /\ Call("eval", "preparing", "none")
    /\ UNCHANGED <<files, seen, listed, frozen, split, entries, product, scored,
                   frozenFirst, contacted, due>>

Prepared == {b \in Bundles : fate[b] # "pending"}

\* What is read for the rows.
Scores(R) == used' = used \cup R /\ scored' = scored \cup R

\* Only a bundle that is not quarantined is loaded, and fits the models; the
\* metadata are read in any case.
Prepare(b) ==
    /\ stage.eval = "preparing" /\ IsNext(b, entries, Prepared)
    /\ LET fates == IF bundle[b] = "quarantined" THEN {"quarantined"}
                    ELSE {"observed", "load_error"}
       IN  \E f \in fates :
             LET asks == f = "observed" /\ LlmGroups # {}
             IN  /\ Scores({<<b, now[b]>>} \cup
                           (IF asks THEN {<<Source, now[Source]>>} ELSE {}))
                 /\ IF asks /\ now[Source] \in TooLong
                    THEN Refuse("eval") /\ UNCHANGED fate
                    ELSE fate' = [fate EXCEPT ![b] = f] /\ UNCHANGED <<stage, step>>
    /\ UNCHANGED <<files, seen, listed, frozen, plan, out, rows, metrics, frozenFirst,
                   contacted, due>>

\* The metadata of a bundle that was edited need not be readable any more.
MetadataLost(b) ==
    /\ stage.eval = "preparing" /\ IsNext(b, entries, Prepared)
    /\ now[b] # seen.eval[b]
    /\ Refuse("eval")
    /\ UNCHANGED <<files, seen, listed, frozen, plan, product, history>>

MakeOutput ==
    /\ stage.eval = "preparing" /\ entries \subseteq Prepared
    /\ IF out THEN Refuse("eval") ELSE Call("eval", "scoring", "none")
    /\ out' = TRUE
    /\ UNCHANGED <<files, seen, listed, frozen, plan, fate, rows, metrics, history>>

---------------------------------------------------------------------------
(* One row per bundle and group.                                           *)

Unscored(b) == {g \in Groups : rows[b][g] = NoRow}
Scored == {b \in Bundles : Unscored(b) = {}}

ArmExclusions == {"TRUNCATED", "CONTEXT_REJECTED"}

\* run_arm reads the prompts again, and what it raises makes an ERROR.
RowsOf(b, g) ==
    IF fate[b] # "observed" THEN {Row("EXCLUDED", fate[b])}
    ELSE {Row("ERROR", NotExcluded)}
         \cup (IF g \in LlmGroups /\ now[Source] \in TooLong THEN {}
               ELSE {Row(o, IF o \in ArmExclusions THEN o ELSE NotExcluded) :
                       o \in IF g \in LlmGroups THEN Outcomes ELSE {"DIAGNOSED"}})

Score(b, g) ==
    /\ stage.eval = "scoring"
    /\ IsNext(b, entries, Scored) /\ IsNext(g, Groups, Groups \ Unscored(b))
    /\ \E row \in RowsOf(b, g) : rows' = [rows EXCEPT ![b][g] = row]
    /\ IF fate[b] = "observed" /\ g \in LlmGroups
       THEN /\ Scores({<<Source, now[Source]>>})
            /\ contacted' = (contacted \/ now[Source] \notin TooLong)
       ELSE UNCHANGED <<used, scored, contacted>>
    /\ UNCHANGED <<files, passes, frozen, plan, fate, out, metrics, frozenFirst, due>>

---------------------------------------------------------------------------
(* The checks after the last row, and the publication.                     *)

VerifyAgain ==
    /\ stage.eval = "scoring" /\ entries \subseteq Scored
    /\ Call("eval", "last", "manifest")
    /\ UNCHANGED <<files, seen, listed, frozen, plan, product, history>>

(* Variant: the manifest is verified, but not compared. *)
SameManifestAny == TRUE
SameManifest == manifest = recorded.manifest

CompareManifest ==
    /\ stage.eval = "comparing" /\ step.eval = "manifest hash"
    /\ IF SameManifest THEN step' = [step EXCEPT !.eval = "source hash"] /\ UNCHANGED stage
       ELSE Refuse("eval")
    /\ UNCHANGED <<files, seen, listed, frozen, plan, product, history>>

CompareSource ==
    /\ stage.eval = "comparing" /\ step.eval = "source hash"
    /\ IF now[Source] = recorded.source
       THEN step' = [step EXCEPT !.eval = "models hash"] /\ UNCHANGED stage
       ELSE Refuse("eval")
    /\ UNCHANGED <<files, seen, listed, frozen, plan, product, history>>

(* Variant: the hashes of the evaluation's own start are enough. *)
FrozenAgainNever == FALSE
FrozenAgain == split = "test"

CompareModels ==
    /\ stage.eval = "comparing" /\ step.eval = "models hash"
    /\ IF now[Models] # recorded.models THEN Refuse("eval")
       ELSE IF FrozenAgain THEN Call("eval", "frozen2", "frozen")
       ELSE Call("eval", "publish", "none")
    /\ UNCHANGED <<files, seen, listed, frozen, plan, product, history>>

(* Variant: only what the arms excluded themselves is. *)
ExclusionReasonOfArm(row) ==
    IF row.outcome \in ArmExclusions THEN row.outcome ELSE NotExcluded
\* exclusion_reason
ExclusionReason(row) ==
    IF row.excluded # NotExcluded THEN row.excluded
    ELSE IF row.outcome \in ArmExclusions THEN row.outcome ELSE NotExcluded

Evaluated(g) == {b \in entries : ExclusionReason(rows[b][g]) = NotExcluded}

\* group_metrics, without the statistics of the rows that it evaluates.
GroupMetrics(g) ==
    [bundles |-> Cardinality(entries), evaluated |-> Cardinality(Evaluated(g)),
     reasons |-> [r \in {"quarantined", "load_error"} \cup ArmExclusions |->
                    Cardinality({b \in entries : ExclusionReason(rows[b][g]) = r})]]

\* The bundles of a paired comparison.
Paired(g, h) == Cardinality(Evaluated(g) \cap Evaluated(h))

Publish ==
    /\ stage.eval = "publish" /\ Go("eval", "published")
    /\ metrics' = {[groups |-> [g \in Groups |-> GroupMetrics(g)],
                    pairs |-> [p \in Groups \X Groups |-> Paired(p[1], p[2])]]}
    /\ UNCHANGED <<files, step, seen, listed, frozen, plan, fate, out, rows, history>>

---------------------------------------------------------------------------
Ended == stage.eval \in {"published", "refused"}

Hashing(p) ==
    \/ ReadSettings(p) \/ ReadManifest(p) \/ (\E b \in Bundles : VerifyBundle(p, b))
    \/ BundlesVerified(p) \/ HashModels(p) \/ HashSource(p)

Campaign == WriteManifest \/ \E b \in Bundles : RunBundle(b) \/ AbortCampaign(b)
Freeze == StartFreeze \/ Hashing("freeze") \/ CreateFrozen \/ WriteFrozen
Evaluate ==
    \/ StartEvaluation \/ Hashing("eval") \/ ReadFrozen \/ CompareFrozen \/ LoadModels
    \/ RecordSource \/ RecordManifest \/ RecordModels
    \/ (\E b \in Bundles : Prepare(b) \/ MetadataLost(b))
    \/ MakeOutput \/ (\E b \in Bundles, g \in Groups : Score(b, g))
    \/ VerifyAgain \/ CompareManifest \/ CompareSource \/ CompareModels \/ Publish
Surroundings == RewriteManifest \/ \E i \in Inputs : Edit(i)
Done == Ended /\ UNCHANGED vars

Next == Campaign \/ Freeze \/ Evaluate \/ Surroundings \/ Done

Spec == Init /\ [][Next]_vars

---------------------------------------------------------------------------
(* Properties.                                                             *)

Versions == [Inputs \cup {Settings} -> Nat \cup {Never}]

Flags == {out, frozenFirst, contacted, due} \subseteq BOOLEAN

FileTypes ==
    /\ bundle \in [Bundles -> {"none", "ok", "quarantined", "stray"}]
    /\ now \in [Inputs -> Nat] /\ edits \in 0..MaxEdits
    /\ manifest \in [Bundles -> Nat \cup {Never}]
    /\ Listed(manifest) \subseteq {b \in Bundles : bundle[b] \in {"ok", "quarantined"}}

\* Each process has a stage and a step.
StageTypes ==
    /\ stage = [p \in Processes |-> stage[p]]
    /\ step = [p \in Processes |-> step[p]]

PassTypes ==
    /\ seen \in [Processes -> Versions]
    /\ listed \in [Processes -> [Bundles -> Nat \cup {Never}]]

RecordTypes ==
    /\ frozen \in [state : {"none", "part", "whole"}, settings : Nat \cup {Never},
                   hashes : Versions]
    /\ recorded \in [source : Nat \cup {Never}, models : Nat \cup {Never},
                     manifest : [Bundles -> Nat \cup {Never}]]
    /\ split \in {"dev", "test"} /\ entries \subseteq Bundles
    /\ fate \in [Bundles -> {"pending", "observed", "quarantined", "load_error"}]

ReadTypes == used \subseteq Inputs \X Nat /\ scored \subseteq used

Of(R, I) == {r \in R : r[1] \in I}

\* Type correctness; the manifest lists complete bundles only.
TypeOK == FileTypes /\ StageTypes /\ PassTypes /\ RecordTypes /\ ReadTypes /\ Flags

\* What a published test evaluation has read -- the imported source, settings,
\* manifest, models, bundles and prompts -- is what was frozen, whatever is
\* edited while it runs, provided that it began after the freeze.
HeldOutIsFrozen ==
    stage.eval = "published" /\ split = "test" /\ frozenFirst =>
      \A r \in Of(used, FrozenInputs) : r[2] = frozen.hashes[r[1]]

\* The bundles and prompts behind the rows of any published evaluation are
\* those of the hashes published with it.
RowsMatchHashes ==
    stage.eval = "published" =>
      \A r \in scored :
        r[2] = IF r[1] = Source THEN recorded.source ELSE recorded.manifest[r[1]]

\* An evaluation refuses only if it must: on a complete dataset, an unchanged
\* freeze, a new directory and prompts that fit it goes through, unless
\* something is changed meanwhile.  It asks no provider before every bundle is
\* prepared.
RefusalsAreDue ==
    /\ stage.eval = "refused" => ~due
    /\ contacted => entries \subseteq Prepared

\* The bundles of the split that an arm may see, and those that it may not.
LoadedBundles == {b \in entries : fate[b] = "observed"}
BarredBundles == {b \in entries : fate[b] # "observed"}

\* Every bundle of the split is counted once in every group, as evaluated or
\* with its reason; what was quarantined or could not be loaded is scored in no
\* group, and no row fails for a prompt that had not been planned.
ScoresAddUp ==
    \A m \in metrics :
      /\ \A g \in Groups :
           LET k == m.groups[g]
           IN  /\ k.bundles = k.evaluated + k.reasons["quarantined"] + k.reasons["load_error"]
                              + k.reasons["TRUNCATED"] + k.reasons["CONTEXT_REJECTED"]
               /\ k.evaluated <= k.bundles - Cardinality(BarredBundles)
      /\ \A g, h \in Groups :
           /\ m.pairs[<<g, h>>] <= m.groups[g].evaluated
           /\ m.pairs[<<g, h>>] >= m.groups[g].evaluated + m.groups[h].evaluated
                                   - Cardinality(LoadedBundles)
      /\ \A r \in scored : r[1] = Source => r[2] \notin TooLong

=============================================================================
