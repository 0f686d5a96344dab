-------------------------- MODULE EvaluationProofs --------------------------
(***************************************************************************)
(* What a published evaluation rests on, for any bundles, groups, edits    *)
(* and interleaving with the freeze.                                       *)
(*                                                                         *)
(* Versions only grow.  So whatever was read lies between what was hashed  *)
(* before it and what is hashed after it, and when these two agree it is   *)
(* that version.  The invariant says so at each point of the program: what *)
(* has been read is not newer than the files (ListsAreOld, HashesAreOld,   *)
(* ReadsAreOld), not older than what was hashed before (ReadsAreNew,       *)
(* RowsAreNew), and not newer than what the running pass has hashed since  *)
(* (BundlesAreHashed, InputsAreHashed, RowsAreHashed).                     *)
(***************************************************************************)
EXTENDS Evaluation, FiniteSetTheorems, TLAPS

Hashed  == {"bundles", "models", "source", "hashed"}
Passing == {"settings", "manifest"} \cup Hashed
Early   == {"campaign", "manifest", "idle"}
Late    == {"comparing", "frozen2", "publish", "published"}

\* Where the steps of a pass can be, and what has not happened yet.
Phases ==
    /\ step["eval"] \in Passing => stage["eval"] \in {"first", "frozen1", "last", "frozen2"}
    /\ step["freeze"] # "none" => stage["freeze"] = "freezing"
    /\ stage["freeze"] \in {"idle", "freezing", "writing", "done", "refused"}
    /\ frozen.state = "whole" <=> stage["freeze"] = "done"
    /\ frozenFirst => frozen.state = "whole"
    /\ stage["eval"] \in Early =>
         used = {} /\ ~frozenFirst /\ entries = {} /\ step["eval"] = "none"
    /\ stage["eval"] \in Early \cup {"first", "frozen1", "load", "recording"} => scored = {}
    /\ stage["eval"] \in {"campaign", "manifest"} => step["freeze"] = "none"
    /\ stage["eval"] \in {"first", "last"} => step["eval"] \in {"settings", "manifest", "bundles"}

\* The manifest, and what was read of it, lists the complete bundles.
ListsComplete ==
    stage["eval"] \notin {"campaign", "manifest"} =>
      /\ Listed(manifest) = Complete /\ entries \subseteq Complete
      /\ \A p \in Processes : step[p] \in Hashed => Listed(listed[p]) = Complete
      /\ \A r \in used : r[1] \in Bundles => r[1] \in Complete

\* Nothing that was listed, hashed or read is newer than the file.
ListsAreOld ==
    /\ \A b \in Bundles : manifest[b] <= now[b]
    /\ \A p \in Processes, b \in Bundles : listed[p][b] <= manifest[b]

HashesAreOld ==
    /\ \A p \in Processes, i \in Inputs : seen[p][i] <= now[i]
    /\ \A i \in Inputs : frozen.hashes[i] <= now[i]
    /\ recorded.source <= now[Source]
    /\ \A b \in Bundles : recorded.manifest[b] <= now[b]

ReadsAreOld == \A r \in used : r[2] <= now[r[1]]

\* Nothing that was read is older than what was frozen before the start, and
\* nothing read for the rows is older than what was recorded.
ReadsAreNew == frozenFirst => \A r \in used : frozen.hashes[r[1]] <= r[2]

RowsAreNew ==
    \A r \in scored :
      /\ r[1] \in Bundles \cup {Source}
      /\ r[1] = Source => recorded.source <= r[2]
      /\ r[1] # Source => recorded.manifest[r[1]] <= r[2]

\* Nothing that was read is newer than what the running pass has hashed.
BundlesAreHashed ==
    step["eval"] \in Hashed =>
      \A b \in Bundles : seen["eval"][b] # Never =>
        /\ seen["eval"][b] = listed["eval"][b]
        /\ \A r \in used : r[1] = b => r[2] <= seen["eval"][b]

EachIsHashed ==
    step["eval"] \in {"models", "source", "hashed"} =>
      \A b \in Complete : seen["eval"][b] # Never

InputsAreHashed ==
    /\ step["eval"] \in {"source", "hashed"} =>
         \A r \in used : r[1] = Models => r[2] <= seen["eval"][Models]
    /\ step["eval"] = "hashed" =>
         \A r \in used : r[1] = Source => r[2] <= seen["eval"][Source]

\* What the rows rest on is what was recorded, check by check.
RowBundlesMatch ==
    \A r \in scored : r[1] # Source => r[2] = recorded.manifest[r[1]]
RowSourceMatches ==
    \A r \in scored : r[1] = Source => r[2] = recorded.source

RowsAreHashed ==
    /\ stage["eval"] = "comparing" /\ step["eval"] = "manifest hash" =>
         \A r \in scored : r[1] # Source => r[2] <= listed["eval"][r[1]]
    /\ stage["eval"] = "comparing" /\ step["eval"] # "manifest hash" => RowBundlesMatch
    /\ stage["eval"] = "comparing" /\ step["eval"] = "models hash" => RowSourceMatches
    /\ stage["eval"] \in Late \ {"comparing"} => RowBundlesMatch /\ RowSourceMatches

\* What was read is what was frozen, from the last comparison on.
FrozenIsRead ==
    stage["eval"] \in {"publish", "published"} /\ split = "test" /\ frozenFirst =>
      \A r \in Of(used, FrozenInputs) : r[2] = frozen.hashes[r[1]]

IInv ==
    /\ TypeOK /\ Phases /\ ListsComplete
    /\ ListsAreOld /\ HashesAreOld /\ ReadsAreOld /\ ReadsAreNew /\ RowsAreNew
    /\ BundlesAreHashed /\ EachIsHashed /\ InputsAreHashed
    /\ RowsAreHashed /\ FrozenIsRead

\* Bundles, models.json, the source and the settings are told apart.
LEMMA InputsDiffer ==
    /\ Bundles \subseteq Inputs /\ Models \in Inputs /\ Source \in Inputs
    /\ Settings \notin Inputs /\ Models # Source
    /\ Models \notin Bundles /\ Source \notin Bundles
    /\ \A i \in Inputs : i \in Bundles \/ i = Models \/ i = Source
BY EvaluationAssumption DEF Inputs, Models, Source, Settings

\* The files and the manifest keep their types.
LEMMA FileTypesStep ==
    ASSUME FileTypes, [Next]_vars PROVE FileTypes'
<1> USE EvaluationAssumption DEF FileTypes, Listed, Never, Inputs, Models, Source,
    Settings, vars, files, passes, plan,
    product, history
<1>1. ASSUME NEW b \in Bundles, RunBundle(b) PROVE FileTypes'
    BY <1>1 DEF RunBundle
<1>2. ASSUME NEW b \in Bundles, AbortCampaign(b) PROVE FileTypes'
    BY <1>2 DEF AbortCampaign, IsNext
<1>3. CASE WriteManifest BY <1>3 DEF WriteManifest, ManifestNow, Complete
<1>4. ASSUME NEW i \in Inputs, Edit(i) PROVE FileTypes' BY <1>4 DEF Edit
<1>5. CASE RewriteManifest BY <1>5 DEF RewriteManifest, ManifestNow, Complete
<1>6. ASSUME NEW p \in Processes, ReadSettings(p) PROVE FileTypes'
    BY <1>6 DEF ReadSettings
<1>7. ASSUME NEW p \in Processes, ReadManifest(p) PROVE FileTypes'
    BY <1>7 DEF ReadManifest
<1>8. ASSUME NEW p \in Processes, NEW b \in Bundles, VerifyBundle(p, b) PROVE FileTypes'
    BY <1>8 DEF VerifyBundle
<1>9. ASSUME NEW p \in Processes, BundlesVerified(p) PROVE FileTypes'
    BY <1>9 DEF BundlesVerified
<1>10. ASSUME NEW p \in Processes, HashModels(p) PROVE FileTypes'
    BY <1>10 DEF HashModels
<1>11. ASSUME NEW p \in Processes, HashSource(p) PROVE FileTypes'
    BY <1>11 DEF HashSource
<1>12. CASE StartFreeze BY <1>12 DEF StartFreeze
<1>13. CASE CreateFrozen BY <1>13 DEF CreateFrozen
<1>14. CASE WriteFrozen BY <1>14 DEF WriteFrozen
<1>15. CASE StartEvaluation BY <1>15 DEF StartEvaluation
<1>16. CASE ReadFrozen BY <1>16 DEF ReadFrozen
<1>17. CASE CompareFrozen BY <1>17 DEF CompareFrozen
<1>18. CASE LoadModels BY <1>18 DEF LoadModels
<1>19. CASE RecordSource BY <1>19 DEF RecordSource
<1>20. CASE RecordManifest BY <1>20 DEF RecordManifest
<1>21. CASE RecordModels BY <1>21 DEF RecordModels
<1>22. ASSUME NEW b \in Bundles, Prepare(b) PROVE FileTypes' BY <1>22 DEF Prepare
<1>23. ASSUME NEW b \in Bundles, MetadataLost(b) PROVE FileTypes'
    BY <1>23 DEF MetadataLost
<1>24. CASE MakeOutput BY <1>24 DEF MakeOutput
<1>25. ASSUME NEW b \in Bundles, NEW g \in Groups, Score(b, g) PROVE FileTypes'
    BY <1>25 DEF Score
<1>26. CASE VerifyAgain BY <1>26 DEF VerifyAgain
<1>27. CASE CompareManifest BY <1>27 DEF CompareManifest
<1>28. CASE CompareSource BY <1>28 DEF CompareSource
<1>29. CASE CompareModels BY <1>29 DEF CompareModels
<1>30. CASE Publish BY <1>30 DEF Publish
<1>31. CASE UNCHANGED vars BY <1>31
<1>32. QED
    BY <1>1, <1>2, <1>3, <1>4, <1>5, <1>6, <1>7, <1>8, <1>9, <1>10, <1>11, <1>12, <1>13,
        <1>14, <1>15, <1>16, <1>17, <1>18, <1>19, <1>20, <1>21, <1>22, <1>23, <1>24,
            <1>25, <1>26, <1>27, <1>28, <1>29, <1>30, <1>31
    DEF Next, Campaign, Freeze, Evaluate, Surroundings, Hashing, Done, Processes

\* Each process keeps its stage and step.
LEMMA StageTypesStep ==
    ASSUME StageTypes, [Next]_vars PROVE StageTypes'
<1> USE DEF StageTypes, Processes, Go, Refuse,
    Call, vars, files, passes, plan,
    product, history
<1>1. ASSUME NEW b \in Bundles, RunBundle(b) PROVE StageTypes'
    BY <1>1 DEF RunBundle
<1>2. ASSUME NEW b \in Bundles, AbortCampaign(b) PROVE StageTypes'
    BY <1>2 DEF AbortCampaign
<1>3. CASE WriteManifest BY <1>3 DEF WriteManifest
<1>4. ASSUME NEW i \in Inputs, Edit(i) PROVE StageTypes' BY <1>4 DEF Edit
<1>5. CASE RewriteManifest BY <1>5 DEF RewriteManifest
<1>6. ASSUME NEW p \in Processes, ReadSettings(p) PROVE StageTypes'
    BY <1>6 DEF ReadSettings
<1>7. ASSUME NEW p \in Processes, ReadManifest(p) PROVE StageTypes'
    BY <1>7 DEF ReadManifest
<1>8. ASSUME NEW p \in Processes, NEW b \in Bundles, VerifyBundle(p, b) PROVE StageTypes'
    BY <1>8 DEF VerifyBundle, See
<1>9. ASSUME NEW p \in Processes, BundlesVerified(p) PROVE StageTypes'
    BY <1>9 DEF BundlesVerified
<1>10. ASSUME NEW p \in Processes, HashModels(p) PROVE StageTypes'
    BY <1>10 DEF HashModels, See
<1>11. ASSUME NEW p \in Processes, HashSource(p) PROVE StageTypes'
    BY <1>11 DEF HashSource
<1>12. CASE StartFreeze BY <1>12 DEF StartFreeze
<1>13. CASE CreateFrozen BY <1>13 DEF CreateFrozen
<1>14. CASE WriteFrozen BY <1>14 DEF WriteFrozen
<1>15. CASE StartEvaluation BY <1>15 DEF StartEvaluation
<1>16. CASE ReadFrozen BY <1>16 DEF ReadFrozen
<1>17. CASE CompareFrozen BY <1>17 DEF CompareFrozen
<1>18. CASE LoadModels BY <1>18 DEF LoadModels
<1>19. CASE RecordSource BY <1>19 DEF RecordSource
<1>20. CASE RecordManifest BY <1>20 DEF RecordManifest
<1>21. CASE RecordModels BY <1>21 DEF RecordModels
<1>22. ASSUME NEW b \in Bundles, Prepare(b) PROVE StageTypes' BY <1>22 DEF Prepare
<1>23. ASSUME NEW b \in Bundles, MetadataLost(b) PROVE StageTypes'
    BY <1>23 DEF MetadataLost
<1>24. CASE MakeOutput BY <1>24 DEF MakeOutput
<1>25. ASSUME NEW b \in Bundles, NEW g \in Groups, Score(b, g) PROVE StageTypes'
    BY <1>25 DEF Score
<1>26. CASE VerifyAgain BY <1>26 DEF VerifyAgain
<1>27. CASE CompareManifest BY <1>27 DEF CompareManifest
<1>28. CASE CompareSource BY <1>28 DEF CompareSource
<1>29. CASE CompareModels BY <1>29 DEF CompareModels
<1>30. CASE Publish BY <1>30 DEF Publish
<1>31. CASE UNCHANGED vars BY <1>31
<1>32. QED
    BY <1>1, <1>2, <1>3, <1>4, <1>5, <1>6, <1>7, <1>8, <1>9, <1>10, <1>11, <1>12, <1>13,
        <1>14, <1>15, <1>16, <1>17, <1>18, <1>19, <1>20, <1>21, <1>22, <1>23, <1>24,
            <1>25, <1>26, <1>27, <1>28, <1>29, <1>30, <1>31
    DEF Next, Campaign, Freeze, Evaluate, Surroundings, Hashing, Done, Processes

\* Passes keep their types.
LEMMA PassTypesStep ==
    ASSUME FileTypes, PassTypes, [Next]_vars PROVE PassTypes'
<1> USE DEF PassTypes, Versions, Processes, Never, Inputs, Models, Source, Settings,
    vars, files, passes, plan,
    product, history
<1>1. ASSUME NEW b \in Bundles, RunBundle(b) PROVE PassTypes'
    BY <1>1 DEF RunBundle
<1>2. ASSUME NEW b \in Bundles, AbortCampaign(b) PROVE PassTypes'
    BY <1>2 DEF AbortCampaign
<1>3. CASE WriteManifest BY <1>3 DEF WriteManifest
<1>4. ASSUME NEW i \in Inputs, Edit(i) PROVE PassTypes' BY <1>4 DEF Edit
<1>5. CASE RewriteManifest BY <1>5 DEF RewriteManifest
<1>6. ASSUME NEW p \in Processes, ReadSettings(p) PROVE PassTypes'
    BY <1>6 DEF ReadSettings, FileTypes
<1>7. ASSUME NEW p \in Processes, ReadManifest(p) PROVE PassTypes'
    BY <1>7 DEF ReadManifest, Unseen, FileTypes
<1>8. ASSUME NEW p \in Processes, NEW b \in Bundles, VerifyBundle(p, b) PROVE PassTypes'
    BY <1>8 DEF VerifyBundle, See, FileTypes
<1>9. ASSUME NEW p \in Processes, BundlesVerified(p) PROVE PassTypes'
    BY <1>9 DEF BundlesVerified
<1>10. ASSUME NEW p \in Processes, HashModels(p) PROVE PassTypes'
    BY <1>10 DEF HashModels, See, FileTypes
<1>11. ASSUME NEW p \in Processes, HashSource(p) PROVE PassTypes'
    BY <1>11 DEF HashSource, SourceHash, FileTypes
<1>12. CASE StartFreeze BY <1>12 DEF StartFreeze
<1>13. CASE CreateFrozen BY <1>13 DEF CreateFrozen
<1>14. CASE WriteFrozen BY <1>14 DEF WriteFrozen
<1>15. CASE StartEvaluation BY <1>15 DEF StartEvaluation
<1>16. CASE ReadFrozen BY <1>16 DEF ReadFrozen
<1>17. CASE CompareFrozen BY <1>17 DEF CompareFrozen
<1>18. CASE LoadModels BY <1>18 DEF LoadModels
<1>19. CASE RecordSource BY <1>19 DEF RecordSource
<1>20. CASE RecordManifest BY <1>20 DEF RecordManifest
<1>21. CASE RecordModels BY <1>21 DEF RecordModels
<1>22. ASSUME NEW b \in Bundles, Prepare(b) PROVE PassTypes' BY <1>22 DEF Prepare
<1>23. ASSUME NEW b \in Bundles, MetadataLost(b) PROVE PassTypes'
    BY <1>23 DEF MetadataLost
<1>24. CASE MakeOutput BY <1>24 DEF MakeOutput
<1>25. ASSUME NEW b \in Bundles, NEW g \in Groups, Score(b, g) PROVE PassTypes'
    BY <1>25 DEF Score
<1>26. CASE VerifyAgain BY <1>26 DEF VerifyAgain
<1>27. CASE CompareManifest BY <1>27 DEF CompareManifest
<1>28. CASE CompareSource BY <1>28 DEF CompareSource
<1>29. CASE CompareModels BY <1>29 DEF CompareModels
<1>30. CASE Publish BY <1>30 DEF Publish
<1>31. CASE UNCHANGED vars BY <1>31
<1>32. QED
    BY <1>1, <1>2, <1>3, <1>4, <1>5, <1>6, <1>7, <1>8, <1>9, <1>10, <1>11, <1>12, <1>13,
        <1>14, <1>15, <1>16, <1>17, <1>18, <1>19, <1>20, <1>21, <1>22, <1>23, <1>24,
            <1>25, <1>26, <1>27, <1>28, <1>29, <1>30, <1>31
    DEF Next, Campaign, Freeze, Evaluate, Surroundings, Hashing, Done, Processes

\* What is frozen, recorded and prepared keeps its types.
LEMMA RecordTypesStep ==
    ASSUME FileTypes, PassTypes, RecordTypes, [Next]_vars PROVE RecordTypes'
<1> USE DEF RecordTypes, vars, files, passes, plan,
    product, history
<1>1. ASSUME NEW b \in Bundles, RunBundle(b) PROVE RecordTypes'
    BY <1>1 DEF RunBundle
<1>2. ASSUME NEW b \in Bundles, AbortCampaign(b) PROVE RecordTypes'
    BY <1>2 DEF AbortCampaign
<1>3. CASE WriteManifest BY <1>3 DEF WriteManifest
<1>4. ASSUME NEW i \in Inputs, Edit(i) PROVE RecordTypes' BY <1>4 DEF Edit
<1>5. CASE RewriteManifest BY <1>5 DEF RewriteManifest
<1>6. ASSUME NEW p \in Processes, ReadSettings(p) PROVE RecordTypes'
    BY <1>6 DEF ReadSettings
<1>7. ASSUME NEW p \in Processes, ReadManifest(p) PROVE RecordTypes'
    BY <1>7 DEF ReadManifest
<1>8. ASSUME NEW p \in Processes, NEW b \in Bundles, VerifyBundle(p, b) PROVE RecordTypes'
    BY <1>8 DEF VerifyBundle
<1>9. ASSUME NEW p \in Processes, BundlesVerified(p) PROVE RecordTypes'
    BY <1>9 DEF BundlesVerified, Listed
<1>10. ASSUME NEW p \in Processes, HashModels(p) PROVE RecordTypes'
    BY <1>10 DEF HashModels
<1>11. ASSUME NEW p \in Processes, HashSource(p) PROVE RecordTypes'
    BY <1>11 DEF HashSource
<1>12. CASE StartFreeze BY <1>12 DEF StartFreeze, FileTypes, Inputs
<1>13. CASE CreateFrozen BY <1>13 DEF CreateFrozen
<1>14. CASE WriteFrozen BY <1>14 DEF WriteFrozen, PassTypes, Processes
<1>15. CASE StartEvaluation BY <1>15 DEF StartEvaluation
<1>16. CASE ReadFrozen BY <1>16 DEF ReadFrozen
<1>17. CASE CompareFrozen BY <1>17 DEF CompareFrozen
<1>18. CASE LoadModels BY <1>18 DEF LoadModels
<1>19. CASE RecordSource BY <1>19 DEF RecordSource, FileTypes, Inputs
<1>20. CASE RecordManifest BY <1>20 DEF RecordManifest, FileTypes
<1>21. CASE RecordModels BY <1>21 DEF RecordModels, FileTypes, Inputs
<1>22. ASSUME NEW b \in Bundles, Prepare(b) PROVE RecordTypes'
    BY <1>22 DEF Prepare
<1>23. ASSUME NEW b \in Bundles, MetadataLost(b) PROVE RecordTypes'
    BY <1>23 DEF MetadataLost
<1>24. CASE MakeOutput BY <1>24 DEF MakeOutput
<1>25. ASSUME NEW b \in Bundles, NEW g \in Groups, Score(b, g) PROVE RecordTypes'
    BY <1>25 DEF Score
<1>26. CASE VerifyAgain BY <1>26 DEF VerifyAgain
<1>27. CASE CompareManifest BY <1>27 DEF CompareManifest
<1>28. CASE CompareSource BY <1>28 DEF CompareSource
<1>29. CASE CompareModels BY <1>29 DEF CompareModels
<1>30. CASE Publish BY <1>30 DEF Publish
<1>31. CASE UNCHANGED vars BY <1>31
<1>32. QED
    BY <1>1, <1>2, <1>3, <1>4, <1>5, <1>6, <1>7, <1>8, <1>9, <1>10, <1>11, <1>12, <1>13,
        <1>14, <1>15, <1>16, <1>17, <1>18, <1>19, <1>20, <1>21, <1>22, <1>23, <1>24,
            <1>25, <1>26, <1>27, <1>28, <1>29, <1>30, <1>31
    DEF Next, Campaign, Freeze, Evaluate, Surroundings, Hashing, Done, Processes

\* What is read are versions of inputs.
LEMMA ReadTypesStep ==
    ASSUME FileTypes, ReadTypes, [Next]_vars PROVE ReadTypes'
<1> USE DEF FileTypes, ReadTypes, Inputs, Models, Source, vars, files, passes, plan,
    product, history
<1>1. ASSUME NEW b \in Bundles, RunBundle(b) PROVE ReadTypes'
    BY <1>1 DEF RunBundle
<1>2. ASSUME NEW b \in Bundles, AbortCampaign(b) PROVE ReadTypes'
    BY <1>2 DEF AbortCampaign
<1>3. CASE WriteManifest BY <1>3 DEF WriteManifest
<1>4. ASSUME NEW i \in Inputs, Edit(i) PROVE ReadTypes' BY <1>4 DEF Edit
<1>5. CASE RewriteManifest BY <1>5 DEF RewriteManifest
<1>6. ASSUME NEW p \in Processes, ReadSettings(p) PROVE ReadTypes'
    BY <1>6 DEF ReadSettings, Reads
<1>7. ASSUME NEW p \in Processes, ReadManifest(p) PROVE ReadTypes'
    BY <1>7 DEF ReadManifest
<1>8. ASSUME NEW p \in Processes, NEW b \in Bundles, VerifyBundle(p, b) PROVE ReadTypes'
    BY <1>8 DEF VerifyBundle, See, Reads
<1>9. ASSUME NEW p \in Processes, BundlesVerified(p) PROVE ReadTypes'
    BY <1>9 DEF BundlesVerified
<1>10. ASSUME NEW p \in Processes, HashModels(p) PROVE ReadTypes'
    BY <1>10 DEF HashModels, See, Reads
<1>11. ASSUME NEW p \in Processes, HashSource(p) PROVE ReadTypes'
    BY <1>11 DEF HashSource, Reads
<1>12. CASE StartFreeze BY <1>12 DEF StartFreeze
<1>13. CASE CreateFrozen BY <1>13 DEF CreateFrozen
<1>14. CASE WriteFrozen BY <1>14 DEF WriteFrozen
<1>15. CASE StartEvaluation BY <1>15 DEF StartEvaluation, Reads
<1>16. CASE ReadFrozen BY <1>16 DEF ReadFrozen
<1>17. CASE CompareFrozen BY <1>17 DEF CompareFrozen
<1>18. CASE LoadModels
  <2>1. <<Models, now[Models]>> \in Inputs \X Nat OBVIOUS
  <2>2. used' = used \/ used' = used \cup {<<Models, now[Models]>>}
    BY <1>18 DEF LoadModels, Reads
  <2>3. scored' = scored BY <1>18 DEF LoadModels
  <2>4. QED BY <2>1, <2>2, <2>3
<1>19. CASE RecordSource
  <2>1. <<Source, now[Source]>> \in Inputs \X Nat OBVIOUS
  <2>2. used' = used \/ used' = used \cup {<<Source, now[Source]>>}
    BY <1>19 DEF RecordSource, Reads
  <2>3. scored' = scored BY <1>19 DEF RecordSource
  <2>4. QED BY <2>1, <2>2, <2>3
<1>20. CASE RecordManifest BY <1>20 DEF RecordManifest
<1>21. CASE RecordModels
  <2>1. <<Models, now[Models]>> \in Inputs \X Nat OBVIOUS
  <2>2. used' = used \/ used' = used \cup {<<Models, now[Models]>>}
    BY <1>21 DEF RecordModels, Reads
  <2>3. scored' = scored BY <1>21 DEF RecordModels
  <2>4. QED BY <2>1, <2>2, <2>3
<1>22. ASSUME NEW b \in Bundles, Prepare(b) PROVE ReadTypes'
    BY <1>22 DEF Prepare, Scores
<1>23. ASSUME NEW b \in Bundles, MetadataLost(b) PROVE ReadTypes'
    BY <1>23 DEF MetadataLost
<1>24. CASE MakeOutput BY <1>24 DEF MakeOutput
<1>25. ASSUME NEW b \in Bundles, NEW g \in Groups, Score(b, g) PROVE ReadTypes'
    BY <1>25 DEF Score, Scores
<1>26. CASE VerifyAgain BY <1>26 DEF VerifyAgain
<1>27. CASE CompareManifest BY <1>27 DEF CompareManifest
<1>28. CASE CompareSource BY <1>28 DEF CompareSource
<1>29. CASE CompareModels BY <1>29 DEF CompareModels
<1>30. CASE Publish BY <1>30 DEF Publish
<1>31. CASE UNCHANGED vars BY <1>31
<1>32. QED
    BY <1>1, <1>2, <1>3, <1>4, <1>5, <1>6, <1>7, <1>8, <1>9, <1>10, <1>11, <1>12, <1>13,
        <1>14, <1>15, <1>16, <1>17, <1>18, <1>19, <1>20, <1>21, <1>22, <1>23, <1>24,
            <1>25, <1>26, <1>27, <1>28, <1>29, <1>30, <1>31
    DEF Next, Campaign, Freeze, Evaluate, Surroundings, Hashing, Done, Processes

\* The flags stay Boolean.
LEMMA FlagsStep ==
    ASSUME Flags, [Next]_vars PROVE Flags'
<1> USE DEF Flags, vars, files, passes, plan,
    product, history
<1>1. ASSUME NEW b \in Bundles, RunBundle(b) PROVE Flags' BY <1>1 DEF RunBundle
<1>2. ASSUME NEW b \in Bundles, AbortCampaign(b) PROVE Flags'
    BY <1>2 DEF AbortCampaign
<1>3. CASE WriteManifest BY <1>3 DEF WriteManifest
<1>4. ASSUME NEW i \in Inputs, Edit(i) PROVE Flags' BY <1>4 DEF Edit
<1>5. CASE RewriteManifest BY <1>5 DEF RewriteManifest
<1>6. ASSUME NEW p \in Processes, ReadSettings(p) PROVE Flags'
    BY <1>6 DEF ReadSettings
<1>7. ASSUME NEW p \in Processes, ReadManifest(p) PROVE Flags'
    BY <1>7 DEF ReadManifest
<1>8. ASSUME NEW p \in Processes, NEW b \in Bundles, VerifyBundle(p, b) PROVE Flags'
    BY <1>8 DEF VerifyBundle
<1>9. ASSUME NEW p \in Processes, BundlesVerified(p) PROVE Flags'
    BY <1>9 DEF BundlesVerified
<1>10. ASSUME NEW p \in Processes, HashModels(p) PROVE Flags'
    BY <1>10 DEF HashModels
<1>11. ASSUME NEW p \in Processes, HashSource(p) PROVE Flags'
    BY <1>11 DEF HashSource
<1>12. CASE StartFreeze BY <1>12 DEF StartFreeze
<1>13. CASE CreateFrozen BY <1>13 DEF CreateFrozen
<1>14. CASE WriteFrozen BY <1>14 DEF WriteFrozen
<1>15. CASE StartEvaluation BY <1>15, Zenon DEF StartEvaluation
<1>16. CASE ReadFrozen BY <1>16 DEF ReadFrozen
<1>17. CASE CompareFrozen BY <1>17 DEF CompareFrozen
<1>18. CASE LoadModels BY <1>18 DEF LoadModels
<1>19. CASE RecordSource BY <1>19 DEF RecordSource
<1>20. CASE RecordManifest BY <1>20 DEF RecordManifest
<1>21. CASE RecordModels BY <1>21 DEF RecordModels
<1>22. ASSUME NEW b \in Bundles, Prepare(b) PROVE Flags' BY <1>22 DEF Prepare
<1>23. ASSUME NEW b \in Bundles, MetadataLost(b) PROVE Flags'
    BY <1>23 DEF MetadataLost
<1>24. CASE MakeOutput BY <1>24 DEF MakeOutput
<1>25. ASSUME NEW b \in Bundles, NEW g \in Groups, Score(b, g) PROVE Flags'
    BY <1>25 DEF Score
<1>26. CASE VerifyAgain BY <1>26 DEF VerifyAgain
<1>27. CASE CompareManifest BY <1>27 DEF CompareManifest
<1>28. CASE CompareSource BY <1>28 DEF CompareSource
<1>29. CASE CompareModels BY <1>29 DEF CompareModels
<1>30. CASE Publish BY <1>30 DEF Publish
<1>31. CASE UNCHANGED vars BY <1>31
<1>32. QED
    BY <1>1, <1>2, <1>3, <1>4, <1>5, <1>6, <1>7, <1>8, <1>9, <1>10, <1>11, <1>12, <1>13,
        <1>14, <1>15, <1>16, <1>17, <1>18, <1>19, <1>20, <1>21, <1>22, <1>23, <1>24,
            <1>25, <1>26, <1>27, <1>28, <1>29, <1>30, <1>31
    DEF Next, Campaign, Freeze, Evaluate, Surroundings, Hashing, Done, Processes

\* A step stays within its phase.
LEMMA PhasesStep ==
    ASSUME StageTypes, RecordTypes, Phases, [Next]_vars PROVE Phases'
<1> USE DEF Phases, Passing, Hashed, Early, StageTypes, Processes, Go, Refuse,
    Call, vars, files, passes, plan,
    product, history
<1>1. ASSUME NEW b \in Bundles, RunBundle(b) PROVE Phases' BY <1>1 DEF RunBundle
<1>2. ASSUME NEW b \in Bundles, AbortCampaign(b) PROVE Phases'
    BY <1>2 DEF AbortCampaign
<1>3. CASE WriteManifest BY <1>3 DEF WriteManifest
<1>4. ASSUME NEW i \in Inputs, Edit(i) PROVE Phases' BY <1>4 DEF Edit, Working
<1>5. CASE RewriteManifest BY <1>5 DEF RewriteManifest, Working
<1>6. ASSUME NEW p \in Processes, ReadSettings(p) PROVE Phases'
    BY <1>6 DEF ReadSettings, Reads
<1>7. ASSUME NEW p \in Processes, ReadManifest(p) PROVE Phases'
    BY <1>7 DEF ReadManifest
<1>8. ASSUME NEW p \in Processes, NEW b \in Bundles, VerifyBundle(p, b) PROVE Phases'
    BY <1>8 DEF VerifyBundle, See, Reads
<1>9. ASSUME NEW p \in Processes, BundlesVerified(p) PROVE Phases'
    BY <1>9, ZenonT(30) DEF BundlesVerified
<1>10. ASSUME NEW p \in Processes, HashModels(p) PROVE Phases'
    BY <1>10 DEF HashModels, See, Reads
<1>11. ASSUME NEW p \in Processes, HashSource(p) PROVE Phases'
    BY <1>11 DEF HashSource, Reads
<1>12. CASE StartFreeze BY <1>12 DEF StartFreeze, Working, RecordTypes
<1>13. CASE CreateFrozen BY <1>13 DEF CreateFrozen, RecordTypes
<1>14. CASE WriteFrozen BY <1>14 DEF WriteFrozen, RecordTypes
<1>15. CASE StartEvaluation BY <1>15 DEF StartEvaluation, Reads
<1>16. CASE ReadFrozen BY <1>16 DEF ReadFrozen
<1>17. CASE CompareFrozen BY <1>17 DEF CompareFrozen
<1>18. CASE LoadModels BY <1>18 DEF LoadModels, Reads
<1>19. CASE RecordSource BY <1>19 DEF RecordSource, Reads
<1>20. CASE RecordManifest BY <1>20 DEF RecordManifest
<1>21. CASE RecordModels BY <1>21 DEF RecordModels, Reads
<1>22. ASSUME NEW b \in Bundles, Prepare(b) PROVE Phases'
    BY <1>22 DEF Prepare, Scores
<1>23. ASSUME NEW b \in Bundles, MetadataLost(b) PROVE Phases'
    BY <1>23 DEF MetadataLost
<1>24. CASE MakeOutput BY <1>24 DEF MakeOutput
<1>25. ASSUME NEW b \in Bundles, NEW g \in Groups, Score(b, g) PROVE Phases'
    BY <1>25 DEF Score, Scores
<1>26. CASE VerifyAgain BY <1>26 DEF VerifyAgain
<1>27. CASE CompareManifest BY <1>27 DEF CompareManifest
<1>28. CASE CompareSource BY <1>28 DEF CompareSource
<1>29. CASE CompareModels BY <1>29, ZenonT(30) DEF CompareModels
<1>30. CASE Publish BY <1>30 DEF Publish
<1>31. CASE UNCHANGED vars BY <1>31
<1>32. QED
    BY <1>1, <1>2, <1>3, <1>4, <1>5, <1>6, <1>7, <1>8, <1>9, <1>10, <1>11, <1>12, <1>13,
        <1>14, <1>15, <1>16, <1>17, <1>18, <1>19, <1>20, <1>21, <1>22, <1>23, <1>24,
            <1>25, <1>26, <1>27, <1>28, <1>29, <1>30, <1>31
    DEF Next, Campaign, Freeze, Evaluate, Surroundings, Hashing, Done, Processes

\* What was read of the manifest stays complete while neither is read again.
LEMMA ListsKept ==
    ASSUME ListsComplete, stage["eval"] \notin {"campaign", "manifest"},
           UNCHANGED <<bundle, manifest, listed, entries>>,
           \A r \in used' : r[1] \in Bundles => r \in used,
           \A p \in Processes : step'[p] \in Hashed => step[p] \in Hashed
    PROVE ListsComplete'
BY DEF ListsComplete, Complete, Listed

\* The manifest that was read stays complete.
LEMMA ListsCompleteStep ==
    ASSUME FileTypes, StageTypes, PassTypes, Phases, ListsComplete, [Next]_vars
    PROVE ListsComplete'
<1> USE EvaluationAssumption DEF ListsComplete, Complete, Listed, Hashed, StageTypes,
    Processes, Go, Refuse,
    Call, Never, Inputs, Models, Source, Settings,
    vars, files, passes, plan,
    product, history
<1>1. ASSUME NEW b \in Bundles, RunBundle(b) PROVE ListsComplete'
    BY <1>1 DEF RunBundle, FileTypes, Early, Phases
<1>2. ASSUME NEW b \in Bundles, AbortCampaign(b) PROVE ListsComplete'
    BY <1>2 DEF AbortCampaign, FileTypes, Early, Phases
<1>3. CASE WriteManifest
    BY <1>3 DEF WriteManifest, ManifestNow, Complete, FileTypes, Early, Phases
<1>4. ASSUME NEW i \in Inputs, Edit(i) PROVE ListsComplete' BY <1>4 DEF Edit
<1>5. CASE RewriteManifest
    BY <1>5 DEF RewriteManifest, ManifestNow, Complete, Working, FileTypes
<1>6. ASSUME NEW p \in Processes, ReadSettings(p) PROVE ListsComplete'
    BY <1>6 DEF ReadSettings, Reads, Passing, Phases, FileTypes
<1>7. ASSUME NEW p \in Processes, ReadManifest(p) PROVE ListsComplete'
    BY <1>7 DEF ReadManifest, Passing, Phases, FileTypes, PassTypes
<1>8. ASSUME NEW p \in Processes, NEW b \in Bundles, VerifyBundle(p, b) PROVE ListsComplete'
    BY <1>8 DEF VerifyBundle, See, Reads, IsNext, Passing, Phases, FileTypes, PassTypes
<1>9. ASSUME NEW p \in Processes, BundlesVerified(p) PROVE ListsComplete'
  <2>1. step[p] = "bundles" /\ UNCHANGED <<bundle, manifest, listed, used>>
    BY <1>9 DEF BundlesVerified
  <2>2. stage["eval"] \notin {"campaign", "manifest"}
    BY <2>1 DEF Phases, Passing
  <2>3. Listed(listed[p]) = Complete
    BY <2>1, <2>2 DEF ListsComplete
  <2>4. entries' = entries \/ entries' \subseteq Listed(listed[p])
    BY <1>9 DEF BundlesVerified
  <2>5. \A q \in Processes : step'[q] \in Hashed => step[q] \in Hashed
    BY <1>9 DEF BundlesVerified
  <2>6. QED BY <2>1, <2>2, <2>3, <2>4, <2>5
<1>10. ASSUME NEW p \in Processes, HashModels(p) PROVE ListsComplete'
    BY <1>10 DEF HashModels, See, Reads, Passing, Phases, FileTypes
<1>11. ASSUME NEW p \in Processes, HashSource(p) PROVE ListsComplete'
    BY <1>11 DEF HashSource, Reads, Passing, Phases, FileTypes
<1>12. CASE StartFreeze BY <1>12 DEF StartFreeze
<1>13. CASE CreateFrozen BY <1>13 DEF CreateFrozen
<1>14. CASE WriteFrozen BY <1>14 DEF WriteFrozen
<1>15. CASE StartEvaluation BY <1>15 DEF StartEvaluation, Reads
<1>16. CASE ReadFrozen BY <1>16 DEF ReadFrozen
<1>17. CASE CompareFrozen BY <1>17 DEF CompareFrozen
<1>18. CASE LoadModels
  <2>1. stage["eval"] \notin {"campaign", "manifest"} BY <1>18 DEF LoadModels
  <2>2. UNCHANGED <<bundle, manifest, listed, entries>> BY <1>18 DEF LoadModels
  <2>3. used' = used \/ used' = used \cup {<<Models, now[Models]>>}
      BY <1>18 DEF LoadModels, Reads
  <2>4. Models \notin Bundles OBVIOUS
  <2>5. \A p \in Processes : step'[p] \in Hashed => step[p] \in Hashed
      BY <1>18 DEF LoadModels
  <2>6. QED BY <2>1, <2>2, <2>3, <2>4, <2>5, ListsKept
<1>19. CASE RecordSource
  <2>1. stage["eval"] \notin {"campaign", "manifest"} BY <1>19 DEF RecordSource
  <2>2. UNCHANGED <<bundle, manifest, listed, entries>> BY <1>19 DEF RecordSource
  <2>3. used' = used \/ used' = used \cup {<<Source, now[Source]>>}
      BY <1>19 DEF RecordSource, Reads
  <2>4. Source \notin Bundles OBVIOUS
  <2>5. \A p \in Processes : step'[p] \in Hashed => step[p] \in Hashed
      BY <1>19 DEF RecordSource
  <2>6. QED BY <2>1, <2>2, <2>3, <2>4, <2>5, ListsKept
<1>20. CASE RecordManifest BY <1>20 DEF RecordManifest
<1>21. CASE RecordModels
  <2>1. stage["eval"] \notin {"campaign", "manifest"} BY <1>21 DEF RecordModels
  <2>2. UNCHANGED <<bundle, manifest, listed, entries>> BY <1>21 DEF RecordModels
  <2>3. used' = used \/ used' = used \cup {<<Models, now[Models]>>}
      BY <1>21 DEF RecordModels, Reads
  <2>4. Models \notin Bundles OBVIOUS
  <2>5. \A p \in Processes : step'[p] \in Hashed => step[p] \in Hashed
      BY <1>21 DEF RecordModels
  <2>6. QED BY <2>1, <2>2, <2>3, <2>4, <2>5, ListsKept
<1>22. ASSUME NEW b \in Bundles, Prepare(b) PROVE ListsComplete'
    BY <1>22 DEF Prepare, Scores, IsNext
<1>23. ASSUME NEW b \in Bundles, MetadataLost(b) PROVE ListsComplete'
    BY <1>23 DEF MetadataLost
<1>24. CASE MakeOutput BY <1>24 DEF MakeOutput
<1>25. ASSUME NEW b \in Bundles, NEW g \in Groups, Score(b, g) PROVE ListsComplete'
    BY <1>25 DEF Score, Scores
<1>26. CASE VerifyAgain BY <1>26 DEF VerifyAgain
<1>27. CASE CompareManifest BY <1>27, ZenonT(30) DEF CompareManifest
<1>28. CASE CompareSource BY <1>28, ZenonT(30) DEF CompareSource
<1>29. CASE CompareModels BY <1>29, ZenonT(30) DEF CompareModels
<1>30. CASE Publish BY <1>30 DEF Publish
<1>31. CASE UNCHANGED vars BY <1>31
<1>32. QED
    BY <1>1, <1>2, <1>3, <1>4, <1>5, <1>6, <1>7, <1>8, <1>9, <1>10, <1>11, <1>12, <1>13,
        <1>14, <1>15, <1>16, <1>17, <1>18, <1>19, <1>20, <1>21, <1>22, <1>23, <1>24,
            <1>25, <1>26, <1>27, <1>28, <1>29, <1>30, <1>31
    DEF Next, Campaign, Freeze, Evaluate, Surroundings, Hashing, Done, Processes

\* The manifest is not newer than the files, and what was read of it not newer than it.
LEMMA ListsAreOldStep ==
    ASSUME FileTypes, PassTypes, ListsAreOld, [Next]_vars PROVE ListsAreOld'
<1> USE InputsDiffer DEF ListsAreOld, FileTypes, Listed, Never,
    vars, files, passes, plan,
    product, history
<1>1. ASSUME NEW b \in Bundles, RunBundle(b) PROVE ListsAreOld'
    BY <1>1 DEF RunBundle
<1>2. ASSUME NEW b \in Bundles, AbortCampaign(b) PROVE ListsAreOld'
    BY <1>2 DEF AbortCampaign
<1>3. CASE WriteManifest
    BY <1>3 DEF WriteManifest, ManifestNow, Complete, PassTypes
<1>4. ASSUME NEW i \in Inputs, Edit(i) PROVE ListsAreOld' BY <1>4 DEF Edit
<1>5. CASE RewriteManifest
    BY <1>5 DEF RewriteManifest, ManifestNow, Complete, PassTypes
<1>6. ASSUME NEW p \in Processes, ReadSettings(p) PROVE ListsAreOld'
    BY <1>6 DEF ReadSettings
<1>7. ASSUME NEW p \in Processes, ReadManifest(p) PROVE ListsAreOld'
    BY <1>7 DEF ReadManifest, PassTypes, Processes
<1>8. ASSUME NEW p \in Processes, NEW b \in Bundles, VerifyBundle(p, b) PROVE ListsAreOld'
    BY <1>8 DEF VerifyBundle
<1>9. ASSUME NEW p \in Processes, BundlesVerified(p) PROVE ListsAreOld'
    BY <1>9 DEF BundlesVerified
<1>10. ASSUME NEW p \in Processes, HashModels(p) PROVE ListsAreOld'
    BY <1>10 DEF HashModels
<1>11. ASSUME NEW p \in Processes, HashSource(p) PROVE ListsAreOld'
    BY <1>11 DEF HashSource
<1>12. CASE StartFreeze BY <1>12 DEF StartFreeze
<1>13. CASE CreateFrozen BY <1>13 DEF CreateFrozen
<1>14. CASE WriteFrozen BY <1>14 DEF WriteFrozen
<1>15. CASE StartEvaluation BY <1>15 DEF StartEvaluation
<1>16. CASE ReadFrozen BY <1>16 DEF ReadFrozen
<1>17. CASE CompareFrozen BY <1>17 DEF CompareFrozen
<1>18. CASE LoadModels BY <1>18 DEF LoadModels
<1>19. CASE RecordSource BY <1>19 DEF RecordSource
<1>20. CASE RecordManifest BY <1>20 DEF RecordManifest
<1>21. CASE RecordModels BY <1>21 DEF RecordModels
<1>22. ASSUME NEW b \in Bundles, Prepare(b) PROVE ListsAreOld'
    BY <1>22 DEF Prepare
<1>23. ASSUME NEW b \in Bundles, MetadataLost(b) PROVE ListsAreOld'
    BY <1>23 DEF MetadataLost
<1>24. CASE MakeOutput BY <1>24 DEF MakeOutput
<1>25. ASSUME NEW b \in Bundles, NEW g \in Groups, Score(b, g) PROVE ListsAreOld'
    BY <1>25 DEF Score
<1>26. CASE VerifyAgain BY <1>26 DEF VerifyAgain
<1>27. CASE CompareManifest BY <1>27 DEF CompareManifest
<1>28. CASE CompareSource BY <1>28 DEF CompareSource
<1>29. CASE CompareModels BY <1>29 DEF CompareModels
<1>30. CASE Publish BY <1>30 DEF Publish
<1>31. CASE UNCHANGED vars BY <1>31
<1>32. QED
    BY <1>1, <1>2, <1>3, <1>4, <1>5, <1>6, <1>7, <1>8, <1>9, <1>10, <1>11, <1>12, <1>13,
        <1>14, <1>15, <1>16, <1>17, <1>18, <1>19, <1>20, <1>21, <1>22, <1>23, <1>24,
            <1>25, <1>26, <1>27, <1>28, <1>29, <1>30, <1>31
    DEF Next, Campaign, Freeze, Evaluate, Surroundings, Hashing, Done, Processes

\* Hashes are not newer than the files.
LEMMA HashesAreOldStep ==
    ASSUME FileTypes, PassTypes, RecordTypes, ListsAreOld, HashesAreOld, [Next]_vars
    PROVE HashesAreOld'
<1> USE InputsDiffer DEF HashesAreOld, FileTypes, Never,
    vars, files, passes, plan,
    product, history
<1>1. ASSUME NEW b \in Bundles, RunBundle(b) PROVE HashesAreOld'
    BY <1>1 DEF RunBundle
<1>2. ASSUME NEW b \in Bundles, AbortCampaign(b) PROVE HashesAreOld'
    BY <1>2 DEF AbortCampaign
<1>3. CASE WriteManifest BY <1>3 DEF WriteManifest
<1>4. ASSUME NEW i \in Inputs, Edit(i) PROVE HashesAreOld'
  <2>1. \A j \in Inputs : now[j] <= now'[j] BY <1>4 DEF Edit
  <2>2. UNCHANGED <<seen, frozen, recorded>> BY <1>4 DEF Edit
  <2>3. now' \in [Inputs -> Nat] BY <1>4 DEF Edit
  <2>4. \A j \in Inputs : frozen.hashes[j] \in Int BY DEF RecordTypes, Versions
  <2>5. \A b \in Bundles : recorded.manifest[b] \in Int BY DEF RecordTypes
  <2>6. \A p \in Processes, j \in Inputs : seen[p][j] \in Int BY DEF PassTypes, Versions
  <2>7. recorded.source \in Int BY DEF RecordTypes
  <2>8. \A j \in Inputs : now[j] \in Int /\ now'[j] \in Int BY <2>3
  <2>9. QED BY <2>1, <2>2, <2>4, <2>5, <2>6, <2>7, <2>8
<1>5. CASE RewriteManifest BY <1>5 DEF RewriteManifest
<1>6. ASSUME NEW p \in Processes, ReadSettings(p) PROVE HashesAreOld'
    BY <1>6 DEF ReadSettings, PassTypes, Versions, Processes
<1>7. ASSUME NEW p \in Processes, ReadManifest(p) PROVE HashesAreOld'
    BY <1>7 DEF ReadManifest, PassTypes, Versions, Processes, Unseen
<1>8. ASSUME NEW p \in Processes, NEW b \in Bundles, VerifyBundle(p, b) PROVE HashesAreOld'
    BY <1>8 DEF VerifyBundle, PassTypes, Versions, Processes, See
<1>9. ASSUME NEW p \in Processes, BundlesVerified(p) PROVE HashesAreOld'
    BY <1>9 DEF BundlesVerified
<1>10. ASSUME NEW p \in Processes, HashModels(p) PROVE HashesAreOld'
    BY <1>10 DEF HashModels, PassTypes, Versions, Processes, See
<1>11. ASSUME NEW p \in Processes, HashSource(p) PROVE HashesAreOld'
    BY <1>11 DEF HashSource, PassTypes, Versions, Processes, SourceHash
<1>12. CASE StartFreeze BY <1>12 DEF StartFreeze, RecordTypes
<1>13. CASE CreateFrozen BY <1>13 DEF CreateFrozen, RecordTypes
<1>14. CASE WriteFrozen
    BY <1>14 DEF WriteFrozen, PassTypes, Versions, Processes, RecordTypes
<1>15. CASE StartEvaluation BY <1>15 DEF StartEvaluation
<1>16. CASE ReadFrozen BY <1>16 DEF ReadFrozen
<1>17. CASE CompareFrozen BY <1>17 DEF CompareFrozen
<1>18. CASE LoadModels BY <1>18 DEF LoadModels
<1>19. CASE RecordSource
  <2>1. recorded'.source = now[Source] /\ recorded'.manifest = recorded.manifest
    BY <1>19 DEF RecordSource, RecordTypes
  <2>2. UNCHANGED <<now, seen, frozen>> BY <1>19 DEF RecordSource
  <2>3. now[Source] <= now[Source] OBVIOUS
  <2>4. QED BY <2>1, <2>2, <2>3
<1>20. CASE RecordManifest BY <1>20 DEF RecordManifest, RecordTypes, ListsAreOld
<1>21. CASE RecordModels BY <1>21 DEF RecordModels, RecordTypes
<1>22. ASSUME NEW b \in Bundles, Prepare(b) PROVE HashesAreOld'
    BY <1>22 DEF Prepare
<1>23. ASSUME NEW b \in Bundles, MetadataLost(b) PROVE HashesAreOld'
    BY <1>23 DEF MetadataLost
<1>24. CASE MakeOutput BY <1>24 DEF MakeOutput
<1>25. ASSUME NEW b \in Bundles, NEW g \in Groups, Score(b, g) PROVE HashesAreOld'
    BY <1>25 DEF Score
<1>26. CASE VerifyAgain BY <1>26 DEF VerifyAgain
<1>27. CASE CompareManifest BY <1>27 DEF CompareManifest
<1>28. CASE CompareSource BY <1>28 DEF CompareSource
<1>29. CASE CompareModels BY <1>29 DEF CompareModels
<1>30. CASE Publish BY <1>30 DEF Publish
<1>31. CASE UNCHANGED vars BY <1>31
<1>32. QED
    BY <1>1, <1>2, <1>3, <1>4, <1>5, <1>6, <1>7, <1>8, <1>9, <1>10, <1>11, <1>12, <1>13,
        <1>14, <1>15, <1>16, <1>17, <1>18, <1>19, <1>20, <1>21, <1>22, <1>23, <1>24,
            <1>25, <1>26, <1>27, <1>28, <1>29, <1>30, <1>31
    DEF Next, Campaign, Freeze, Evaluate, Surroundings, Hashing, Done, Processes

\* What was read is not newer than the files.
LEMMA ReadsAreOldStep ==
    ASSUME FileTypes, ReadTypes, ReadsAreOld, [Next]_vars PROVE ReadsAreOld'
<1> USE InputsDiffer DEF ReadsAreOld, FileTypes, ReadTypes,
    vars, files, passes, plan,
    product, history
<1>1. ASSUME NEW b \in Bundles, RunBundle(b) PROVE ReadsAreOld'
    BY <1>1 DEF RunBundle
<1>2. ASSUME NEW b \in Bundles, AbortCampaign(b) PROVE ReadsAreOld'
    BY <1>2 DEF AbortCampaign
<1>3. CASE WriteManifest BY <1>3 DEF WriteManifest
<1>4. ASSUME NEW i \in Inputs, Edit(i) PROVE ReadsAreOld' BY <1>4 DEF Edit
<1>5. CASE RewriteManifest BY <1>5 DEF RewriteManifest
<1>6. ASSUME NEW p \in Processes, ReadSettings(p) PROVE ReadsAreOld'
    BY <1>6 DEF ReadSettings, Reads
<1>7. ASSUME NEW p \in Processes, ReadManifest(p) PROVE ReadsAreOld'
    BY <1>7 DEF ReadManifest
<1>8. ASSUME NEW p \in Processes, NEW b \in Bundles, VerifyBundle(p, b) PROVE ReadsAreOld'
    BY <1>8 DEF VerifyBundle, See, Reads
<1>9. ASSUME NEW p \in Processes, BundlesVerified(p) PROVE ReadsAreOld'
    BY <1>9 DEF BundlesVerified
<1>10. ASSUME NEW p \in Processes, HashModels(p) PROVE ReadsAreOld'
    BY <1>10 DEF HashModels, See, Reads
<1>11. ASSUME NEW p \in Processes, HashSource(p) PROVE ReadsAreOld'
    BY <1>11 DEF HashSource, Reads
<1>12. CASE StartFreeze BY <1>12 DEF StartFreeze
<1>13. CASE CreateFrozen BY <1>13 DEF CreateFrozen
<1>14. CASE WriteFrozen BY <1>14 DEF WriteFrozen
<1>15. CASE StartEvaluation BY <1>15 DEF StartEvaluation, Reads
<1>16. CASE ReadFrozen BY <1>16 DEF ReadFrozen
<1>17. CASE CompareFrozen BY <1>17 DEF CompareFrozen
<1>18. CASE LoadModels
  <2>1. used' = used \/ used' = used \cup {<<Models, now[Models]>>}
      BY <1>18 DEF LoadModels, Reads
  <2>2. now' = now BY <1>18 DEF LoadModels
  <2>3. now[Models] <= now[Models] OBVIOUS
  <2>4. QED BY <2>1, <2>2, <2>3
<1>19. CASE RecordSource
  <2>1. used' = used \/ used' = used \cup {<<Source, now[Source]>>}
      BY <1>19 DEF RecordSource, Reads
  <2>2. now' = now BY <1>19 DEF RecordSource
  <2>3. now[Source] <= now[Source] OBVIOUS
  <2>4. QED BY <2>1, <2>2, <2>3
<1>20. CASE RecordManifest BY <1>20 DEF RecordManifest
<1>21. CASE RecordModels
  <2>1. used' = used \/ used' = used \cup {<<Models, now[Models]>>}
      BY <1>21 DEF RecordModels, Reads
  <2>2. now' = now BY <1>21 DEF RecordModels
  <2>3. now[Models] <= now[Models] OBVIOUS
  <2>4. QED BY <2>1, <2>2, <2>3
<1>22. ASSUME NEW b \in Bundles, Prepare(b) PROVE ReadsAreOld'
    BY <1>22 DEF Prepare, Scores
<1>23. ASSUME NEW b \in Bundles, MetadataLost(b) PROVE ReadsAreOld'
    BY <1>23 DEF MetadataLost
<1>24. CASE MakeOutput BY <1>24 DEF MakeOutput
<1>25. ASSUME NEW b \in Bundles, NEW g \in Groups, Score(b, g) PROVE ReadsAreOld'
    BY <1>25 DEF Score, Scores
<1>26. CASE VerifyAgain BY <1>26 DEF VerifyAgain
<1>27. CASE CompareManifest BY <1>27 DEF CompareManifest
<1>28. CASE CompareSource BY <1>28 DEF CompareSource
<1>29. CASE CompareModels BY <1>29 DEF CompareModels
<1>30. CASE Publish BY <1>30 DEF Publish
<1>31. CASE UNCHANGED vars BY <1>31
<1>32. QED
    BY <1>1, <1>2, <1>3, <1>4, <1>5, <1>6, <1>7, <1>8, <1>9, <1>10, <1>11, <1>12, <1>13,
        <1>14, <1>15, <1>16, <1>17, <1>18, <1>19, <1>20, <1>21, <1>22, <1>23, <1>24,
            <1>25, <1>26, <1>27, <1>28, <1>29, <1>30, <1>31
    DEF Next, Campaign, Freeze, Evaluate, Surroundings, Hashing, Done, Processes

\* What is read is not older than what was frozen before the start.
LEMMA ReadsAreNewStep ==
    ASSUME RecordTypes, ReadTypes, Phases, HashesAreOld, ReadsAreNew, [Next]_vars
    PROVE ReadsAreNew'
<1> USE InputsDiffer DEF ReadsAreNew, ReadTypes,
    vars, files, passes, plan,
    product, history
<1>1. ASSUME NEW b \in Bundles, RunBundle(b) PROVE ReadsAreNew'
    BY <1>1 DEF RunBundle
<1>2. ASSUME NEW b \in Bundles, AbortCampaign(b) PROVE ReadsAreNew'
    BY <1>2 DEF AbortCampaign
<1>3. CASE WriteManifest BY <1>3 DEF WriteManifest
<1>4. ASSUME NEW i \in Inputs, Edit(i) PROVE ReadsAreNew' BY <1>4 DEF Edit
<1>5. CASE RewriteManifest BY <1>5 DEF RewriteManifest
<1>6. ASSUME NEW p \in Processes, ReadSettings(p) PROVE ReadsAreNew'
    BY <1>6 DEF ReadSettings, Reads, HashesAreOld
<1>7. ASSUME NEW p \in Processes, ReadManifest(p) PROVE ReadsAreNew'
    BY <1>7 DEF ReadManifest
<1>8. ASSUME NEW p \in Processes, NEW b \in Bundles, VerifyBundle(p, b) PROVE ReadsAreNew'
    BY <1>8 DEF VerifyBundle, See, Reads, HashesAreOld
<1>9. ASSUME NEW p \in Processes, BundlesVerified(p) PROVE ReadsAreNew'
    BY <1>9 DEF BundlesVerified
<1>10. ASSUME NEW p \in Processes, HashModels(p) PROVE ReadsAreNew'
    BY <1>10 DEF HashModels, See, Reads, HashesAreOld
<1>11. ASSUME NEW p \in Processes, HashSource(p) PROVE ReadsAreNew'
    BY <1>11 DEF HashSource, Reads, HashesAreOld
<1>12. CASE StartFreeze BY <1>12 DEF StartFreeze, Phases, RecordTypes
<1>13. CASE CreateFrozen BY <1>13 DEF CreateFrozen, Phases, RecordTypes
<1>14. CASE WriteFrozen BY <1>14 DEF WriteFrozen, Phases, RecordTypes
<1>15. CASE StartEvaluation
    BY <1>15 DEF StartEvaluation, Reads, Phases, Early, HashesAreOld
<1>16. CASE ReadFrozen BY <1>16 DEF ReadFrozen
<1>17. CASE CompareFrozen BY <1>17 DEF CompareFrozen
<1>18. CASE LoadModels
  <2>1. used' = used \/ used' = used \cup {<<Models, now[Models]>>}
      BY <1>18 DEF LoadModels, Reads
  <2>2. UNCHANGED <<frozen, frozenFirst>> BY <1>18 DEF LoadModels
  <2>3. frozen.hashes[Models] <= now[Models] BY DEF HashesAreOld
  <2>4. QED BY <2>1, <2>2, <2>3
<1>19. CASE RecordSource
  <2>1. used' = used \/ used' = used \cup {<<Source, now[Source]>>}
      BY <1>19 DEF RecordSource, Reads
  <2>2. UNCHANGED <<frozen, frozenFirst>> BY <1>19 DEF RecordSource
  <2>3. frozen.hashes[Source] <= now[Source] BY DEF HashesAreOld
  <2>4. QED BY <2>1, <2>2, <2>3
<1>20. CASE RecordManifest BY <1>20 DEF RecordManifest
<1>21. CASE RecordModels
  <2>1. used' = used \/ used' = used \cup {<<Models, now[Models]>>}
      BY <1>21 DEF RecordModels, Reads
  <2>2. UNCHANGED <<frozen, frozenFirst>> BY <1>21 DEF RecordModels
  <2>3. frozen.hashes[Models] <= now[Models] BY DEF HashesAreOld
  <2>4. QED BY <2>1, <2>2, <2>3
<1>22. ASSUME NEW b \in Bundles, Prepare(b) PROVE ReadsAreNew'
    BY <1>22 DEF Prepare, Scores, HashesAreOld
<1>23. ASSUME NEW b \in Bundles, MetadataLost(b) PROVE ReadsAreNew'
    BY <1>23 DEF MetadataLost
<1>24. CASE MakeOutput BY <1>24 DEF MakeOutput
<1>25. ASSUME NEW b \in Bundles, NEW g \in Groups, Score(b, g) PROVE ReadsAreNew'
    BY <1>25 DEF Score, Scores, HashesAreOld
<1>26. CASE VerifyAgain BY <1>26 DEF VerifyAgain
<1>27. CASE CompareManifest BY <1>27 DEF CompareManifest
<1>28. CASE CompareSource BY <1>28 DEF CompareSource
<1>29. CASE CompareModels BY <1>29 DEF CompareModels
<1>30. CASE Publish BY <1>30 DEF Publish
<1>31. CASE UNCHANGED vars BY <1>31
<1>32. QED
    BY <1>1, <1>2, <1>3, <1>4, <1>5, <1>6, <1>7, <1>8, <1>9, <1>10, <1>11, <1>12, <1>13,
        <1>14, <1>15, <1>16, <1>17, <1>18, <1>19, <1>20, <1>21, <1>22, <1>23, <1>24,
            <1>25, <1>26, <1>27, <1>28, <1>29, <1>30, <1>31
    DEF Next, Campaign, Freeze, Evaluate, Surroundings, Hashing, Done, Processes

\* What is read for the rows is not older than what was recorded.
LEMMA RowsAreNewStep ==
    ASSUME Phases, HashesAreOld, RowsAreNew, [Next]_vars PROVE RowsAreNew'
<1> USE InputsDiffer DEF RowsAreNew,
    vars, files, passes, plan,
    product, history
<1>1. ASSUME NEW b \in Bundles, RunBundle(b) PROVE RowsAreNew'
    BY <1>1 DEF RunBundle
<1>2. ASSUME NEW b \in Bundles, AbortCampaign(b) PROVE RowsAreNew'
    BY <1>2 DEF AbortCampaign
<1>3. CASE WriteManifest BY <1>3 DEF WriteManifest
<1>4. ASSUME NEW i \in Inputs, Edit(i) PROVE RowsAreNew' BY <1>4 DEF Edit
<1>5. CASE RewriteManifest BY <1>5 DEF RewriteManifest
<1>6. ASSUME NEW p \in Processes, ReadSettings(p) PROVE RowsAreNew'
    BY <1>6 DEF ReadSettings, Reads
<1>7. ASSUME NEW p \in Processes, ReadManifest(p) PROVE RowsAreNew'
    BY <1>7 DEF ReadManifest
<1>8. ASSUME NEW p \in Processes, NEW b \in Bundles, VerifyBundle(p, b) PROVE RowsAreNew'
    BY <1>8 DEF VerifyBundle, See, Reads
<1>9. ASSUME NEW p \in Processes, BundlesVerified(p) PROVE RowsAreNew'
    BY <1>9 DEF BundlesVerified
<1>10. ASSUME NEW p \in Processes, HashModels(p) PROVE RowsAreNew'
    BY <1>10 DEF HashModels, See, Reads
<1>11. ASSUME NEW p \in Processes, HashSource(p) PROVE RowsAreNew'
    BY <1>11 DEF HashSource, Reads
<1>12. CASE StartFreeze BY <1>12 DEF StartFreeze
<1>13. CASE CreateFrozen BY <1>13 DEF CreateFrozen
<1>14. CASE WriteFrozen BY <1>14 DEF WriteFrozen
<1>15. CASE StartEvaluation BY <1>15 DEF StartEvaluation, Reads
<1>16. CASE ReadFrozen BY <1>16 DEF ReadFrozen
<1>17. CASE CompareFrozen BY <1>17 DEF CompareFrozen
<1>18. CASE LoadModels BY <1>18 DEF LoadModels, Reads
<1>19. CASE RecordSource BY <1>19 DEF RecordSource, Reads, Phases, Early
<1>20. CASE RecordManifest BY <1>20 DEF RecordManifest, Phases, Early
<1>21. CASE RecordModels BY <1>21 DEF RecordModels, Reads, Phases, Early
<1>22. ASSUME NEW b \in Bundles, Prepare(b) PROVE RowsAreNew'
    BY <1>22 DEF Prepare, Scores, HashesAreOld
<1>23. ASSUME NEW b \in Bundles, MetadataLost(b) PROVE RowsAreNew'
    BY <1>23 DEF MetadataLost
<1>24. CASE MakeOutput BY <1>24 DEF MakeOutput
<1>25. ASSUME NEW b \in Bundles, NEW g \in Groups, Score(b, g) PROVE RowsAreNew'
    BY <1>25 DEF Score, Scores, HashesAreOld
<1>26. CASE VerifyAgain BY <1>26 DEF VerifyAgain
<1>27. CASE CompareManifest BY <1>27 DEF CompareManifest
<1>28. CASE CompareSource BY <1>28 DEF CompareSource
<1>29. CASE CompareModels BY <1>29 DEF CompareModels
<1>30. CASE Publish BY <1>30 DEF Publish
<1>31. CASE UNCHANGED vars BY <1>31
<1>32. QED
    BY <1>1, <1>2, <1>3, <1>4, <1>5, <1>6, <1>7, <1>8, <1>9, <1>10, <1>11, <1>12, <1>13,
        <1>14, <1>15, <1>16, <1>17, <1>18, <1>19, <1>20, <1>21, <1>22, <1>23, <1>24,
            <1>25, <1>26, <1>27, <1>28, <1>29, <1>30, <1>31
    DEF Next, Campaign, Freeze, Evaluate, Surroundings, Hashing, Done, Processes

\* A bundle that was read is hashed as it was read, or later.
LEMMA BundlesAreHashedStep ==
    ASSUME FileTypes, StageTypes, PassTypes, ReadTypes, Phases, ReadsAreOld,
           BundlesAreHashed, [Next]_vars
    PROVE BundlesAreHashed'
<1> USE InputsDiffer DEF BundlesAreHashed, Hashed, StageTypes, Processes, Go, Refuse,
    Call, Never,
    vars, files, passes, plan,
    product, history
<1>1. ASSUME NEW b \in Bundles, RunBundle(b) PROVE BundlesAreHashed'
    BY <1>1 DEF RunBundle
<1>2. ASSUME NEW b \in Bundles, AbortCampaign(b) PROVE BundlesAreHashed'
    BY <1>2 DEF AbortCampaign
<1>3. CASE WriteManifest BY <1>3 DEF WriteManifest
<1>4. ASSUME NEW i \in Inputs, Edit(i) PROVE BundlesAreHashed' BY <1>4 DEF Edit
<1>5. CASE RewriteManifest BY <1>5 DEF RewriteManifest
<1>6. ASSUME NEW p \in Processes, ReadSettings(p) PROVE BundlesAreHashed'
    BY <1>6 DEF ReadSettings, Reads, PassTypes, Versions, FileTypes
<1>7. ASSUME NEW p \in Processes, ReadManifest(p) PROVE BundlesAreHashed'
    BY <1>7 DEF ReadManifest, PassTypes, Versions, FileTypes, Unseen
<1>8. ASSUME NEW p \in Processes, NEW b \in Bundles, VerifyBundle(p,
    b) PROVE BundlesAreHashed'
    BY <1>8 DEF VerifyBundle, Reads, See, PassTypes, Versions, FileTypes, ReadsAreOld,
        ReadTypes
<1>9. ASSUME NEW p \in Processes, BundlesVerified(p) PROVE BundlesAreHashed'
    BY <1>9 DEF BundlesVerified
<1>10. ASSUME NEW p \in Processes, HashModels(p) PROVE BundlesAreHashed'
    BY <1>10 DEF HashModels, Reads, See, PassTypes, Versions, FileTypes, ReadsAreOld,
        ReadTypes
<1>11. ASSUME NEW p \in Processes, HashSource(p) PROVE BundlesAreHashed'
    BY <1>11 DEF HashSource, Reads, PassTypes, Versions, FileTypes, ReadsAreOld,
        ReadTypes, SourceHash
<1>12. CASE StartFreeze BY <1>12 DEF StartFreeze
<1>13. CASE CreateFrozen BY <1>13 DEF CreateFrozen
<1>14. CASE WriteFrozen BY <1>14 DEF WriteFrozen
<1>15. CASE StartEvaluation BY <1>15 DEF StartEvaluation, Reads
<1>16. CASE ReadFrozen BY <1>16 DEF ReadFrozen
<1>17. CASE CompareFrozen BY <1>17 DEF CompareFrozen
<1>18. CASE LoadModels BY <1>18 DEF LoadModels, Reads, Phases, Passing
<1>19. CASE RecordSource BY <1>19 DEF RecordSource, Reads, Phases, Passing
<1>20. CASE RecordManifest BY <1>20 DEF RecordManifest
<1>21. CASE RecordModels BY <1>21 DEF RecordModels, Reads, Phases, Passing
<1>22. ASSUME NEW b \in Bundles, Prepare(b) PROVE BundlesAreHashed'
    BY <1>22 DEF Prepare, Scores, Phases, Passing
<1>23. ASSUME NEW b \in Bundles, MetadataLost(b) PROVE BundlesAreHashed'
    BY <1>23 DEF MetadataLost
<1>24. CASE MakeOutput BY <1>24 DEF MakeOutput
<1>25. ASSUME NEW b \in Bundles, NEW g \in Groups, Score(b, g) PROVE BundlesAreHashed'
    BY <1>25 DEF Score, Scores, Phases, Passing
<1>26. CASE VerifyAgain BY <1>26 DEF VerifyAgain
<1>27. CASE CompareManifest BY <1>27 DEF CompareManifest
<1>28. CASE CompareSource BY <1>28 DEF CompareSource
<1>29. CASE CompareModels BY <1>29 DEF CompareModels
<1>30. CASE Publish BY <1>30 DEF Publish
<1>31. CASE UNCHANGED vars BY <1>31
<1>32. QED
    BY <1>1, <1>2, <1>3, <1>4, <1>5, <1>6, <1>7, <1>8, <1>9, <1>10, <1>11, <1>12, <1>13,
        <1>14, <1>15, <1>16, <1>17, <1>18, <1>19, <1>20, <1>21, <1>22, <1>23, <1>24,
            <1>25, <1>26, <1>27, <1>28, <1>29, <1>30, <1>31
    DEF Next, Campaign, Freeze, Evaluate, Surroundings, Hashing, Done, Processes

\* A pass has hashed every complete bundle before it goes on.
LEMMA EachIsHashedStep ==
    ASSUME FileTypes, StageTypes, PassTypes, Phases, ListsComplete, EachIsHashed,
           [Next]_vars
    PROVE EachIsHashed'
<1> USE InputsDiffer DEF EachIsHashed, Hashed, StageTypes, Processes, Go, Refuse, Call,
    Never,
    Complete, Listed,
    vars, files, passes, plan,
    product, history
<1>1. ASSUME NEW b \in Bundles, RunBundle(b) PROVE EachIsHashed'
    BY <1>1 DEF RunBundle, Phases, Early
<1>2. ASSUME NEW b \in Bundles, AbortCampaign(b) PROVE EachIsHashed'
    BY <1>2 DEF AbortCampaign, Phases, Early
<1>3. CASE WriteManifest BY <1>3 DEF WriteManifest
<1>4. ASSUME NEW i \in Inputs, Edit(i) PROVE EachIsHashed' BY <1>4 DEF Edit
<1>5. CASE RewriteManifest BY <1>5 DEF RewriteManifest
<1>6. ASSUME NEW p \in Processes, ReadSettings(p) PROVE EachIsHashed'
    BY <1>6 DEF ReadSettings, PassTypes, Versions, FileTypes
<1>7. ASSUME NEW p \in Processes, ReadManifest(p) PROVE EachIsHashed'
    BY <1>7 DEF ReadManifest, PassTypes, Versions, FileTypes, Unseen
<1>8. ASSUME NEW p \in Processes, NEW b \in Bundles, VerifyBundle(p, b) PROVE EachIsHashed'
    BY <1>8 DEF VerifyBundle, See, PassTypes, Versions, FileTypes
<1>9. ASSUME NEW p \in Processes, BundlesVerified(p) PROVE EachIsHashed'
    BY <1>9, ZenonT(30) DEF BundlesVerified, ListsComplete, Phases, Passing
<1>10. ASSUME NEW p \in Processes, HashModels(p) PROVE EachIsHashed'
    BY <1>10 DEF HashModels, See, PassTypes, Versions, FileTypes
<1>11. ASSUME NEW p \in Processes, HashSource(p) PROVE EachIsHashed'
    BY <1>11 DEF HashSource, PassTypes, Versions, FileTypes, SourceHash
<1>12. CASE StartFreeze BY <1>12 DEF StartFreeze
<1>13. CASE CreateFrozen BY <1>13 DEF CreateFrozen
<1>14. CASE WriteFrozen BY <1>14 DEF WriteFrozen
<1>15. CASE StartEvaluation BY <1>15 DEF StartEvaluation
<1>16. CASE ReadFrozen BY <1>16 DEF ReadFrozen
<1>17. CASE CompareFrozen BY <1>17 DEF CompareFrozen
<1>18. CASE LoadModels BY <1>18 DEF LoadModels, Phases, Passing
<1>19. CASE RecordSource BY <1>19 DEF RecordSource, Phases, Passing
<1>20. CASE RecordManifest BY <1>20 DEF RecordManifest
<1>21. CASE RecordModels BY <1>21 DEF RecordModels, Phases, Passing
<1>22. ASSUME NEW b \in Bundles, Prepare(b) PROVE EachIsHashed'
    BY <1>22 DEF Prepare, Phases, Passing
<1>23. ASSUME NEW b \in Bundles, MetadataLost(b) PROVE EachIsHashed'
    BY <1>23 DEF MetadataLost
<1>24. CASE MakeOutput BY <1>24 DEF MakeOutput
<1>25. ASSUME NEW b \in Bundles, NEW g \in Groups, Score(b, g) PROVE EachIsHashed'
    BY <1>25 DEF Score, Phases, Passing
<1>26. CASE VerifyAgain BY <1>26 DEF VerifyAgain
<1>27. CASE CompareManifest BY <1>27 DEF CompareManifest
<1>28. CASE CompareSource BY <1>28 DEF CompareSource
<1>29. CASE CompareModels BY <1>29 DEF CompareModels
<1>30. CASE Publish BY <1>30 DEF Publish
<1>31. CASE UNCHANGED vars BY <1>31
<1>32. QED
    BY <1>1, <1>2, <1>3, <1>4, <1>5, <1>6, <1>7, <1>8, <1>9, <1>10, <1>11, <1>12, <1>13,
        <1>14, <1>15, <1>16, <1>17, <1>18, <1>19, <1>20, <1>21, <1>22, <1>23, <1>24,
            <1>25, <1>26, <1>27, <1>28, <1>29, <1>30, <1>31
    DEF Next, Campaign, Freeze, Evaluate, Surroundings, Hashing, Done, Processes

\* models.json and the source are hashed as they were read, or later.
LEMMA InputsAreHashedStep ==
    ASSUME FileTypes, StageTypes, PassTypes, ReadTypes, Phases, ReadsAreOld,
           InputsAreHashed, [Next]_vars
    PROVE InputsAreHashed'
<1> USE InputsDiffer DEF InputsAreHashed, Hashed, StageTypes, Processes, Go, Refuse,
    Call, Never,
    vars, files, passes, plan,
    product, history
<1>1. ASSUME NEW b \in Bundles, RunBundle(b) PROVE InputsAreHashed'
    BY <1>1 DEF RunBundle
<1>2. ASSUME NEW b \in Bundles, AbortCampaign(b) PROVE InputsAreHashed'
    BY <1>2 DEF AbortCampaign
<1>3. CASE WriteManifest BY <1>3 DEF WriteManifest
<1>4. ASSUME NEW i \in Inputs, Edit(i) PROVE InputsAreHashed' BY <1>4 DEF Edit
<1>5. CASE RewriteManifest BY <1>5 DEF RewriteManifest
<1>6. ASSUME NEW p \in Processes, ReadSettings(p) PROVE InputsAreHashed'
    BY <1>6 DEF ReadSettings, Reads, PassTypes, Versions, FileTypes
<1>7. ASSUME NEW p \in Processes, ReadManifest(p) PROVE InputsAreHashed'
    BY <1>7 DEF ReadManifest, PassTypes, Versions, FileTypes, Unseen
<1>8. ASSUME NEW p \in Processes, NEW b \in Bundles, VerifyBundle(p,
    b) PROVE InputsAreHashed'
    BY <1>8 DEF VerifyBundle, Reads, See, PassTypes, Versions, FileTypes, ReadsAreOld,
        ReadTypes
<1>9. ASSUME NEW p \in Processes, BundlesVerified(p) PROVE InputsAreHashed'
    BY <1>9 DEF BundlesVerified
<1>10. ASSUME NEW p \in Processes, HashModels(p) PROVE InputsAreHashed'
    BY <1>10 DEF HashModels, Reads, See, PassTypes, Versions, FileTypes, ReadsAreOld,
        ReadTypes
<1>11. ASSUME NEW p \in Processes, HashSource(p) PROVE InputsAreHashed'
    BY <1>11 DEF HashSource, Reads, PassTypes, Versions, FileTypes, ReadsAreOld,
        ReadTypes, SourceHash
<1>12. CASE StartFreeze BY <1>12 DEF StartFreeze
<1>13. CASE CreateFrozen BY <1>13 DEF CreateFrozen
<1>14. CASE WriteFrozen BY <1>14 DEF WriteFrozen
<1>15. CASE StartEvaluation BY <1>15 DEF StartEvaluation, Reads
<1>16. CASE ReadFrozen BY <1>16 DEF ReadFrozen
<1>17. CASE CompareFrozen BY <1>17 DEF CompareFrozen
<1>18. CASE LoadModels BY <1>18 DEF LoadModels, Reads, Phases, Passing
<1>19. CASE RecordSource BY <1>19 DEF RecordSource, Reads, Phases, Passing
<1>20. CASE RecordManifest BY <1>20 DEF RecordManifest
<1>21. CASE RecordModels BY <1>21 DEF RecordModels, Reads, Phases, Passing
<1>22. ASSUME NEW b \in Bundles, Prepare(b) PROVE InputsAreHashed'
    BY <1>22 DEF Prepare, Scores, Phases, Passing
<1>23. ASSUME NEW b \in Bundles, MetadataLost(b) PROVE InputsAreHashed'
    BY <1>23 DEF MetadataLost
<1>24. CASE MakeOutput BY <1>24 DEF MakeOutput
<1>25. ASSUME NEW b \in Bundles, NEW g \in Groups, Score(b, g) PROVE InputsAreHashed'
    BY <1>25 DEF Score, Scores, Phases, Passing
<1>26. CASE VerifyAgain BY <1>26 DEF VerifyAgain
<1>27. CASE CompareManifest BY <1>27 DEF CompareManifest
<1>28. CASE CompareSource BY <1>28 DEF CompareSource
<1>29. CASE CompareModels BY <1>29 DEF CompareModels
<1>30. CASE Publish BY <1>30 DEF Publish
<1>31. CASE UNCHANGED vars BY <1>31
<1>32. QED
    BY <1>1, <1>2, <1>3, <1>4, <1>5, <1>6, <1>7, <1>8, <1>9, <1>10, <1>11, <1>12, <1>13,
        <1>14, <1>15, <1>16, <1>17, <1>18, <1>19, <1>20, <1>21, <1>22, <1>23, <1>24,
            <1>25, <1>26, <1>27, <1>28, <1>29, <1>30, <1>31
    DEF Next, Campaign, Freeze, Evaluate, Surroundings, Hashing, Done, Processes

\* A manifest that is the recorded one leaves no version but those recorded.
LEMMA ComparedManifest ==
    ASSUME PassTypes, RecordTypes, ReadTypes, ListsAreOld, RowsAreNew,
           manifest = recorded.manifest,
           \A r \in scored : r[1] # Source => r[2] <= listed["eval"][r[1]]
    PROVE RowBundlesMatch
<1> SUFFICES ASSUME NEW r \in scored, r[1] # Source PROVE r[2] = recorded.manifest[r[1]]
    BY DEF RowBundlesMatch
<1>1. r[1] \in Bundles /\ recorded.manifest[r[1]] <= r[2] BY DEF RowsAreNew
<1>2. r[2] \in Int BY DEF ReadTypes
<1>3. listed["eval"][r[1]] \in Int BY <1>1 DEF PassTypes, Processes, Never
<1>4. recorded.manifest[r[1]] \in Int BY <1>1 DEF RecordTypes, Never
<1>5. listed["eval"][r[1]] <= recorded.manifest[r[1]]
    BY <1>1 DEF ListsAreOld, Processes
<1>6. QED BY <1>1, <1>2, <1>3, <1>4, <1>5

\* A source that is the recorded one leaves no version but that recorded.
LEMMA ComparedSource ==
    ASSUME FileTypes, ReadTypes, ReadsAreOld, RowsAreNew, now[Source] = recorded.source
    PROVE RowSourceMatches
<1> SUFFICES ASSUME NEW r \in scored, r[1] = Source PROVE r[2] = recorded.source
    BY DEF RowSourceMatches
<1>1. recorded.source <= r[2] BY DEF RowsAreNew
<1>2. r \in used /\ r[2] \in Int BY DEF ReadTypes
<1>3. now[Source] \in Int BY InputsDiffer DEF FileTypes
<1>4. r[2] <= now[Source] BY <1>2 DEF ReadsAreOld
<1>5. QED BY <1>1, <1>2, <1>3, <1>4

\* The comparisons after the last row leave what was recorded.
LEMMA RowsAreHashedStep ==
    ASSUME FileTypes, StageTypes, PassTypes, RecordTypes, ReadTypes, Phases,
           ListsComplete, ListsAreOld, ReadsAreOld, RowsAreNew, BundlesAreHashed,
           RowsAreHashed, [Next]_vars PROVE RowsAreHashed'
<1> USE InputsDiffer DEF RowsAreHashed, RowBundlesMatch, RowSourceMatches, Late, Hashed,
    StageTypes, Processes, Go, Refuse, Call,
    vars, files, passes, plan,
    product, history
<1>1. ASSUME NEW b \in Bundles, RunBundle(b) PROVE RowsAreHashed'
    BY <1>1 DEF RunBundle
<1>2. ASSUME NEW b \in Bundles, AbortCampaign(b) PROVE RowsAreHashed'
    BY <1>2 DEF AbortCampaign
<1>3. CASE WriteManifest BY <1>3 DEF WriteManifest
<1>4. ASSUME NEW i \in Inputs, Edit(i) PROVE RowsAreHashed' BY <1>4 DEF Edit
<1>5. CASE RewriteManifest BY <1>5 DEF RewriteManifest
<1>6. ASSUME NEW p \in Processes, ReadSettings(p) PROVE RowsAreHashed'
    BY <1>6 DEF ReadSettings, Phases, Passing
<1>7. ASSUME NEW p \in Processes, ReadManifest(p) PROVE RowsAreHashed'
    BY <1>7, ZenonT(30) DEF ReadManifest, Phases, Passing, PassTypes
<1>8. ASSUME NEW p \in Processes, NEW b \in Bundles, VerifyBundle(p, b) PROVE RowsAreHashed'
    BY <1>8, ZenonT(30) DEF VerifyBundle, Phases, Passing, See
<1>9. ASSUME NEW p \in Processes, BundlesVerified(p) PROVE RowsAreHashed'
  <2>1. step[p] = "bundles" /\ UNCHANGED <<scored, listed, recorded>>
      BY <1>9 DEF BundlesVerified
  <2>2. CASE p = "eval" /\ stage["eval"] = "last"
    <3>1. \A b \in Listed(listed["eval"]) : seen["eval"][b] # Never
      BY <1>9, <2>2 DEF BundlesVerified
    <3>2. Listed(listed["eval"]) = Complete /\ \A r \in used : r[1] \in Bundles => r[1] \in Complete
      BY <2>1, <2>2 DEF ListsComplete
    <3>3. \A r \in scored : r[1] # Source =>
            seen["eval"][r[1]] # Never /\ r[1] \in Bundles /\ r \in used
      BY <3>1, <3>2 DEF ReadTypes, RowsAreNew
    <3>4. \A r \in scored : r[1] # Source => r[2] <= listed["eval"][r[1]]
      BY <2>1, <2>2, <3>3 DEF BundlesAreHashed
    <3>5. stage'["eval"] # "comparing" \/ step'["eval"] = "manifest hash"
      BY <1>9, <2>2 DEF BundlesVerified
    <3>6. stage'["eval"] \notin Late \ {"comparing"}
      BY <1>9, <2>2 DEF BundlesVerified
    <3>7. QED BY <2>1, <3>4, <3>5, <3>6
  <2>3. CASE p = "eval" /\ stage["eval"] # "last"
    BY <1>9, <2>1, <2>3, ZenonT(30) DEF BundlesVerified, Phases, Passing
  <2>4. CASE p = "freeze"
    BY <1>9, <2>1, <2>4, ZenonT(30) DEF BundlesVerified, Phases, Passing
  <2>5. QED BY <2>2, <2>3, <2>4
<1>10. ASSUME NEW p \in Processes, HashModels(p) PROVE RowsAreHashed'
    BY <1>10 DEF HashModels, Phases, Passing, See
<1>11. ASSUME NEW p \in Processes, HashSource(p) PROVE RowsAreHashed'
    BY <1>11 DEF HashSource, Phases, Passing
<1>12. CASE StartFreeze BY <1>12 DEF StartFreeze
<1>13. CASE CreateFrozen BY <1>13 DEF CreateFrozen
<1>14. CASE WriteFrozen BY <1>14 DEF WriteFrozen
<1>15. CASE StartEvaluation BY <1>15 DEF StartEvaluation
<1>16. CASE ReadFrozen BY <1>16 DEF ReadFrozen
<1>17. CASE CompareFrozen BY <1>17 DEF CompareFrozen
<1>18. CASE LoadModels BY <1>18 DEF LoadModels
<1>19. CASE RecordSource BY <1>19 DEF RecordSource
<1>20. CASE RecordManifest BY <1>20 DEF RecordManifest
<1>21. CASE RecordModels BY <1>21 DEF RecordModels
<1>22. ASSUME NEW b \in Bundles, Prepare(b) PROVE RowsAreHashed'
    BY <1>22 DEF Prepare, Scores
<1>23. ASSUME NEW b \in Bundles, MetadataLost(b) PROVE RowsAreHashed'
    BY <1>23 DEF MetadataLost
<1>24. CASE MakeOutput BY <1>24 DEF MakeOutput
<1>25. ASSUME NEW b \in Bundles, NEW g \in Groups, Score(b, g) PROVE RowsAreHashed'
    BY <1>25 DEF Score, Scores
<1>26. CASE VerifyAgain BY <1>26 DEF VerifyAgain
<1>27. CASE CompareManifest
  <2>1. stage["eval"] = "comparing" /\ step["eval"] = "manifest hash"
        /\ UNCHANGED <<scored, recorded>>
    BY <1>27 DEF CompareManifest
  <2>2. CASE SameManifest
    <3>1. RowBundlesMatch BY <2>1, <2>2, ComparedManifest DEF SameManifest
    <3>2. stage'["eval"] = "comparing" /\ step'["eval"] = "source hash"
      BY <1>27, <2>2 DEF CompareManifest
    <3>3. QED BY <2>1, <3>1, <3>2
  <2>3. CASE ~SameManifest BY <1>27, <2>3 DEF CompareManifest
  <2>4. QED BY <2>2, <2>3
<1>28. CASE CompareSource
  <2>1. stage["eval"] = "comparing" /\ step["eval"] = "source hash"
        /\ UNCHANGED <<scored, recorded>>
    BY <1>28 DEF CompareSource
  <2>2. CASE now[Source] = recorded.source
    <3>1. RowSourceMatches BY <2>2, ComparedSource
    <3>2. stage'["eval"] = "comparing" /\ step'["eval"] = "models hash"
      BY <1>28, <2>2 DEF CompareSource
    <3>3. QED BY <2>1, <3>1, <3>2
  <2>3. CASE now[Source] # recorded.source BY <1>28, <2>3 DEF CompareSource
  <2>4. QED BY <2>2, <2>3
<1>29. CASE CompareModels BY <1>29 DEF CompareModels
<1>30. CASE Publish BY <1>30 DEF Publish
<1>31. CASE UNCHANGED vars BY <1>31
<1>32. QED
    BY <1>1, <1>2, <1>3, <1>4, <1>5, <1>6, <1>7, <1>8, <1>9, <1>10, <1>11, <1>12, <1>13,
        <1>14, <1>15, <1>16, <1>17, <1>18, <1>19, <1>20, <1>21, <1>22, <1>23, <1>24,
            <1>25, <1>26, <1>27, <1>28, <1>29, <1>30, <1>31
    DEF Next, Campaign, Freeze, Evaluate, Surroundings, Hashing, Done, Processes

\* The last comparison leaves what was frozen.
LEMMA FrozenIsReadStep ==
    ASSUME StageTypes, RecordTypes, ReadTypes, Phases, ListsComplete, ReadsAreNew,
           BundlesAreHashed, EachIsHashed, InputsAreHashed, FrozenIsRead, [Next]_vars
    PROVE FrozenIsRead'
<1> USE InputsDiffer DEF FrozenIsRead, StageTypes, Processes, Go, Refuse, Call, Of,
    vars, files, passes, plan,
    product, history
<1>1. ASSUME NEW b \in Bundles, RunBundle(b) PROVE FrozenIsRead'
    BY <1>1 DEF RunBundle
<1>2. ASSUME NEW b \in Bundles, AbortCampaign(b) PROVE FrozenIsRead'
    BY <1>2 DEF AbortCampaign
<1>3. CASE WriteManifest BY <1>3 DEF WriteManifest
<1>4. ASSUME NEW i \in Inputs, Edit(i) PROVE FrozenIsRead' BY <1>4 DEF Edit
<1>5. CASE RewriteManifest BY <1>5 DEF RewriteManifest
<1>6. ASSUME NEW p \in Processes, ReadSettings(p) PROVE FrozenIsRead'
    BY <1>6 DEF ReadSettings, Phases, Passing, Hashed
<1>7. ASSUME NEW p \in Processes, ReadManifest(p) PROVE FrozenIsRead'
    BY <1>7 DEF ReadManifest, Phases, Passing, Hashed
<1>8. ASSUME NEW p \in Processes, NEW b \in Bundles, VerifyBundle(p, b) PROVE FrozenIsRead'
    BY <1>8 DEF VerifyBundle, Phases, Passing, Hashed, See
<1>9. ASSUME NEW p \in Processes, BundlesVerified(p) PROVE FrozenIsRead'
    BY <1>9 DEF BundlesVerified, Phases, Passing, Hashed
<1>10. ASSUME NEW p \in Processes, HashModels(p) PROVE FrozenIsRead'
    BY <1>10 DEF HashModels, Phases, Passing, Hashed, See
<1>11. ASSUME NEW p \in Processes, HashSource(p) PROVE FrozenIsRead'
    BY <1>11 DEF HashSource, Phases, Passing, Hashed
<1>12. CASE StartFreeze BY <1>12 DEF StartFreeze, Phases, RecordTypes
<1>13. CASE CreateFrozen BY <1>13 DEF CreateFrozen, Phases, RecordTypes
<1>14. CASE WriteFrozen BY <1>14 DEF WriteFrozen, Phases, RecordTypes
<1>15. CASE StartEvaluation BY <1>15 DEF StartEvaluation
<1>16. CASE ReadFrozen BY <1>16 DEF ReadFrozen
<1>17. CASE CompareFrozen
  <2>1. step["eval"] = "hashed" /\ UNCHANGED <<used, frozen>> BY <1>17 DEF CompareFrozen
  <2>2. CASE SameAsFrozen /\ frozenFirst
    <3>1. \A i \in FrozenInputs : seen["eval"][i] = frozen.hashes[i]
      BY <2>2 DEF SameAsFrozen
    <3>2. \A r \in used : r[1] \in Inputs /\ r[2] \in Int /\ frozen.hashes[r[1]] \in Int
      BY DEF ReadTypes, RecordTypes, Versions, Never
    <3>3. \A r \in used : frozen.hashes[r[1]] <= r[2]
      BY <2>2 DEF ReadsAreNew
    <3>4. \A r \in used : r[1] \in Bundles => r[2] <= seen["eval"][r[1]]
      <4>1. \A r \in used : r[1] \in Bundles => r[1] \in Complete
        BY <2>1 DEF ListsComplete, Phases, Passing, Hashed
      <4>2. \A r \in used : r[1] \in Bundles => seen["eval"][r[1]] # Never
        BY <2>1, <4>1 DEF EachIsHashed
      <4>3. QED BY <2>1, <4>2 DEF BundlesAreHashed, Hashed
    <3>5. \A r \in used : r[2] <= seen["eval"][r[1]]
      BY <2>1, <3>2, <3>4 DEF InputsAreHashed
    <3>6. \A r \in Of(used, FrozenInputs) : r[2] = frozen.hashes[r[1]]
      BY <3>1, <3>2, <3>3, <3>5 DEF Of
    <3>7. QED BY <2>1, <3>6 DEF Of
  <2>3. CASE ~SameAsFrozen BY <1>17, <2>3 DEF CompareFrozen
  <2>4. CASE ~frozenFirst BY <1>17, <2>4 DEF CompareFrozen
  <2>5. QED BY <2>2, <2>3, <2>4
<1>18. CASE LoadModels BY <1>18 DEF LoadModels
<1>19. CASE RecordSource BY <1>19 DEF RecordSource
<1>20. CASE RecordManifest BY <1>20 DEF RecordManifest
<1>21. CASE RecordModels BY <1>21 DEF RecordModels
<1>22. ASSUME NEW b \in Bundles, Prepare(b) PROVE FrozenIsRead'
    BY <1>22 DEF Prepare, Scores
<1>23. ASSUME NEW b \in Bundles, MetadataLost(b) PROVE FrozenIsRead'
    BY <1>23 DEF MetadataLost
<1>24. CASE MakeOutput BY <1>24 DEF MakeOutput
<1>25. ASSUME NEW b \in Bundles, NEW g \in Groups, Score(b, g) PROVE FrozenIsRead'
    BY <1>25 DEF Score, Scores
<1>26. CASE VerifyAgain BY <1>26 DEF VerifyAgain
<1>27. CASE CompareManifest BY <1>27 DEF CompareManifest
<1>28. CASE CompareSource BY <1>28 DEF CompareSource
<1>29. CASE CompareModels BY <1>29 DEF CompareModels, FrozenAgain
<1>30. CASE Publish BY <1>30 DEF Publish
<1>31. CASE UNCHANGED vars BY <1>31
<1>32. QED
    BY <1>1, <1>2, <1>3, <1>4, <1>5, <1>6, <1>7, <1>8, <1>9, <1>10, <1>11, <1>12, <1>13,
        <1>14, <1>15, <1>16, <1>17, <1>18, <1>19, <1>20, <1>21, <1>22, <1>23, <1>24,
            <1>25, <1>26, <1>27, <1>28, <1>29, <1>30, <1>31
    DEF Next, Campaign, Freeze, Evaluate, Surroundings, Hashing, Done, Processes

\* The invariant holds at the start.
LEMMA InitIInv == Init => IInv
<1> SUFFICES ASSUME Init PROVE IInv
    OBVIOUS
<1>1. FileTypes
    BY InputsDiffer, EvaluationAssumption DEF Init, FileTypes, Nothing, Never, Listed
<1>2. StageTypes BY DEF Init, StageTypes, Processes
<1>3. PassTypes BY DEF Init, PassTypes, Unseen, Nothing, Never, Versions
<1>4. RecordTypes BY DEF Init, RecordTypes, NotFrozen, Unseen, Nothing, Never, Versions
<1>5. ReadTypes /\ Flags BY DEF Init, ReadTypes, Flags
<1>6. Phases BY DEF Init, Phases, Passing, Hashed, Early, Processes, NotFrozen
<1>7. ListsComplete BY DEF Init, ListsComplete
<1>8. ListsAreOld BY InputsDiffer DEF Init, ListsAreOld, Nothing, Never
<1>9. HashesAreOld
    BY InputsDiffer DEF Init, HashesAreOld, Unseen, Nothing, NotFrozen, Never
<1>10. ReadsAreOld /\ ReadsAreNew /\ RowsAreNew
    BY DEF Init, ReadsAreOld, ReadsAreNew, RowsAreNew
<1>11. BundlesAreHashed /\ EachIsHashed /\ InputsAreHashed
    BY DEF Init, BundlesAreHashed, EachIsHashed, InputsAreHashed, Hashed, Processes
<1>12. RowsAreHashed /\ FrozenIsRead
    BY DEF Init, RowsAreHashed, FrozenIsRead, Late, Processes
<1>13. QED
    BY <1>1, <1>2, <1>3, <1>4, <1>5, <1>6, <1>7, <1>8, <1>9, <1>10, <1>11, <1>12
    DEF IInv, TypeOK

\* Every step keeps it.
LEMMA StepIInv == IInv /\ [Next]_vars => IInv'
<1> SUFFICES ASSUME IInv, [Next]_vars PROVE IInv'
    OBVIOUS
<1> USE DEF IInv, TypeOK
<1>1. FileTypes' BY FileTypesStep
<1>2. StageTypes' BY StageTypesStep
<1>3. PassTypes' BY PassTypesStep
<1>4. RecordTypes' BY RecordTypesStep
<1>5. ReadTypes' BY ReadTypesStep
<1>6. Flags' BY FlagsStep
<1>7. Phases' BY PhasesStep
<1>8. ListsComplete' BY ListsCompleteStep
<1>9. ListsAreOld' BY ListsAreOldStep
<1>10. HashesAreOld' BY HashesAreOldStep
<1>11. ReadsAreOld' BY ReadsAreOldStep
<1>12. ReadsAreNew' BY ReadsAreNewStep
<1>13. RowsAreNew' BY RowsAreNewStep
<1>14. BundlesAreHashed' BY BundlesAreHashedStep
<1>15. EachIsHashed' BY EachIsHashedStep
<1>16. InputsAreHashed' BY InputsAreHashedStep
<1>17. RowsAreHashed' BY RowsAreHashedStep
<1>18. FrozenIsRead' BY FrozenIsReadStep
<1>19. QED
    BY <1>1, <1>2, <1>3, <1>4, <1>5, <1>6, <1>7, <1>8, <1>9, <1>10, <1>11, <1>12,
       <1>13, <1>14, <1>15, <1>16, <1>17, <1>18

\* The invariant holds in every reachable state.
LEMMA Inductive == Spec => []IInv
BY InitIInv, StepIInv, PTL DEF Spec

\* The state of campaign, freeze and evaluation stays within its types; the
\* manifest lists only bundles that have a meta.json.
THEOREM EvaluationTypeCorrect == Spec => []TypeOK
<1>1. IInv => TypeOK BY DEF IInv
<1>2. QED BY Inductive, <1>1, PTL

\* Whatever is edited while an evaluation of the test split runs: once it is
\* published, and began after the freeze, it has read only what was frozen.
THEOREM HeldOutEvaluationsAreFrozen == Spec => []HeldOutIsFrozen
<1>1. IInv => HeldOutIsFrozen BY DEF IInv, FrozenIsRead, HeldOutIsFrozen
<1>2. QED BY Inductive, <1>1, PTL

\* The bundles and prompts behind the rows of a published evaluation, of either
\* split, are those of the hashes in its provenance.
THEOREM RowsRestOnHashes == Spec => []RowsMatchHashes
<1>1. IInv => RowsMatchHashes
  <2> SUFFICES ASSUME IInv, stage["eval"] = "published" PROVE
        \A r \in scored :
          r[2] = IF r[1] = Source THEN recorded.source ELSE recorded.manifest[r[1]]
      BY DEF RowsMatchHashes
  <2>1. RowBundlesMatch /\ RowSourceMatches BY DEF IInv, RowsAreHashed, Late
  <2>2. QED BY <2>1 DEF RowBundlesMatch, RowSourceMatches
<1>2. QED BY Inductive, <1>1, PTL

---------------------------------------------------------------------------
(* Why the counts of a published evaluation add up: every bundle of the    *)
(* split was prepared before the first row and has a row in every group    *)
(* before the checks, and a row says of its bundle what preparing made of  *)
(* it, or what its arm did.                                                *)

Scoring == {"scoring", "last", "comparing", "frozen2", "publish", "published"}
Unloaded == {"quarantined", "load_error"}

\* No row before the first bundle is scored, and none is missing afterwards.
RowsInOrder ==
    /\ rows = [b \in Bundles |-> [g \in Groups |-> rows[b][g]]]
    /\ stage["eval"] \in Scoring => entries \subseteq Prepared
    /\ stage["eval"] \in Scoring \ {"scoring"} => entries \subseteq Scored
    /\ stage["eval"] \notin Scoring \cup {"refused"} =>
         \A b \in Bundles, g \in Groups : rows[b][g] = NoRow
    /\ contacted => stage["eval"] \in Scoring \cup {"refused"} /\ entries \subseteq Prepared

RowFits(row, f) ==
    \/ row = NoRow
    \/ f \in Unloaded /\ row = Row("EXCLUDED", f)
    \/ f = "observed" /\ \E o \in Outcomes \cup {"ERROR", "DIAGNOSED"} :
         row = Row(o, IF o \in ArmExclusions THEN o ELSE NotExcluded)

RowsFit == \A b \in Bundles, g \in Groups : RowFits(rows[b][g], fate[b])

\* The rows rest on a version of the prompts that preflight has planned, the
\* one that the bundles were prepared with.
PlannedRead == \E r \in scored : r[1] = Source /\ r[2] \notin TooLong

PromptsPlanned ==
    stage["eval"] # "refused" =>
      /\ \A b \in Bundles : fate[b] = "observed" /\ LlmGroups # {} => PlannedRead
      /\ \A r \in scored : r[1] = Source => PlannedRead

MetricsAreLast == metrics # {} => stage["eval"] = "published"

---------------------------------------------------------------------------
(* Why a refusal is due: as long as nothing is changed, everything that    *)
(* was read, hashed or recorded is what is there.                          *)

Started == {"first", "frozen1", "load", "recording", "preparing"} \cup Scoring

\* The dataset, the freeze and the prompts are as the start found them.
StillFit ==
    /\ manifest = ManifestNow /\ \A b \in Bundles : bundle[b] # "stray"
    /\ \E b \in Listed(manifest) : OfSplit(b, split)
    /\ split = "test" => FrozenAgrees
    /\ now[Source] \notin TooLong
    /\ stage["eval"] \notin Scoring => ~out

\* Each hash that the running pass has taken is that of the file.
HashesAreCurrent ==
    /\ step["eval"] \in Hashed => listed["eval"] = manifest
    /\ step["eval"] = "bundles" =>
         \A b \in Bundles : seen["eval"][b] \in {Never, now[b]}
    /\ step["eval"] \in {"models", "source", "hashed"} =>
         \A b \in Listed(manifest) : seen["eval"][b] = now[b]
    /\ step["eval"] \in {"source", "hashed"} => seen["eval"][Models] = now[Models]
    /\ step["eval"] = "hashed" => seen["eval"][Source] = now[Source]
    /\ stage["eval"] \in {"frozen1", "frozen2"} /\ step["eval"] \in {"manifest"} \cup Hashed =>
         seen["eval"][Settings] = now[Models]

\* So are the recorded ones, and the bundles of the split are still listed.
RecordIsCurrent ==
    /\ stage["eval"] \in Started \ {"first"} =>
         entries = {b \in Listed(manifest) : OfSplit(b, split)}
    /\ stage["eval"] \in {"load", "recording", "preparing"} =>
         \A b \in Listed(manifest) : seen["eval"][b] = now[b]
    /\ \/ stage["eval"] = "recording" /\ step["eval"] \in {"manifest hash", "models hash"}
       \/ stage["eval"] \in {"preparing", "scoring", "last", "comparing"}
       => recorded.source = now[Source]
    /\ \/ stage["eval"] = "recording" /\ step["eval"] = "models hash"
       \/ stage["eval"] \in {"preparing", "scoring", "last", "comparing"}
       => recorded.manifest = manifest
    /\ stage["eval"] \in {"preparing", "scoring", "last", "comparing"} =>
         recorded.models = now[Models]

FrozenForTest == stage["eval"] \in {"frozen1", "frozen2"} => split = "test"

DueInv ==
    /\ FrozenForTest
    /\ due => stage["eval"] \in Started /\ StillFit /\ HashesAreCurrent /\ RecordIsCurrent

\* The counts of what is published, bundle by bundle.
ScoresInv ==
    /\ RowsInOrder /\ RowsFit /\ PromptsPlanned /\ MetricsAreLast /\ ScoresAddUp

\* What the freeze leaves alone, and a step that changes nothing.
Untouched ==
    /\ UNCHANGED <<files, plan, product, history>>
    /\ stage'["eval"] = stage["eval"] /\ step'["eval"] = step["eval"]
    /\ seen'["eval"] = seen["eval"] /\ listed'["eval"] = listed["eval"]

\* A step is one of the campaign, of the evaluation or around it, or leaves
\* all of these alone.
LEMMA StepKinds ==
    ASSUME StageTypes, PassTypes, Phases, [Next]_vars
    PROVE  Campaign \/ Evaluate \/ Surroundings \/ Untouched
<1> USE DEF StageTypes, PassTypes, Processes, Untouched, Go, Refuse, Call,
    vars, files, passes, plan, product, history
<1>1. CASE StartFreeze BY <1>1 DEF StartFreeze
<1>2. CASE CreateFrozen BY <1>2 DEF CreateFrozen
<1>3. CASE WriteFrozen BY <1>3 DEF WriteFrozen
<1>4. CASE ReadSettings("freeze") BY <1>4 DEF ReadSettings
<1>5. CASE ReadManifest("freeze") BY <1>5 DEF ReadManifest
<1>6. ASSUME NEW b \in Bundles, VerifyBundle("freeze", b) PROVE Untouched
    BY <1>6 DEF VerifyBundle, See
<1>7. CASE BundlesVerified("freeze") BY <1>7 DEF BundlesVerified, Phases
<1>8. CASE HashModels("freeze") BY <1>8 DEF HashModels, See
<1>9. CASE HashSource("freeze") BY <1>9 DEF HashSource
<1>10. CASE UNCHANGED vars BY <1>10
<1>11. QED
    BY <1>1, <1>2, <1>3, <1>4, <1>5, <1>6, <1>7, <1>8, <1>9, <1>10
    DEF Next, Freeze, Hashing, Done

\* Nothing follows the publication.
LEMMA MetricsAreLastStep ==
    ASSUME StageTypes, PassTypes, Phases, MetricsAreLast, [Next]_vars
    PROVE  MetricsAreLast'
<1> USE DEF MetricsAreLast, StageTypes, Processes, Go, Refuse, Call, vars,
    files, passes, plan, product, history
<1>1. CASE WriteManifest BY <1>1 DEF WriteManifest
<1>2. ASSUME NEW b \in Bundles, RunBundle(b) PROVE MetricsAreLast'
    BY <1>2 DEF RunBundle
<1>3. ASSUME NEW b \in Bundles, AbortCampaign(b) PROVE MetricsAreLast'
    BY <1>3 DEF AbortCampaign
<1>4. CASE RewriteManifest BY <1>4 DEF RewriteManifest
<1>5. ASSUME NEW i \in Inputs, Edit(i) PROVE MetricsAreLast' BY <1>5 DEF Edit
<1>6. CASE StartEvaluation BY <1>6 DEF StartEvaluation
<1>7. CASE ReadSettings("eval") BY <1>7 DEF ReadSettings, Phases, Passing, Hashed
<1>8. CASE ReadManifest("eval") BY <1>8 DEF ReadManifest, Phases, Passing, Hashed
<1>9. ASSUME NEW b \in Bundles, VerifyBundle("eval", b) PROVE MetricsAreLast'
    BY <1>9 DEF VerifyBundle, Phases, Passing, Hashed, See
<1>10. CASE BundlesVerified("eval")
    BY <1>10 DEF BundlesVerified, Phases, Passing, Hashed
<1>11. CASE HashModels("eval") BY <1>11 DEF HashModels, Phases, Passing, Hashed, See
<1>12. CASE HashSource("eval") BY <1>12 DEF HashSource, Phases, Passing, Hashed
<1>13. CASE ReadFrozen BY <1>13 DEF ReadFrozen
<1>14. CASE CompareFrozen BY <1>14 DEF CompareFrozen
<1>15. CASE LoadModels BY <1>15 DEF LoadModels
<1>16. CASE RecordSource BY <1>16 DEF RecordSource
<1>17. CASE RecordManifest BY <1>17 DEF RecordManifest
<1>18. CASE RecordModels BY <1>18 DEF RecordModels
<1>19. ASSUME NEW b \in Bundles, Prepare(b) PROVE MetricsAreLast'
    BY <1>19 DEF Prepare
<1>20. ASSUME NEW b \in Bundles, MetadataLost(b) PROVE MetricsAreLast'
    BY <1>20 DEF MetadataLost
<1>21. CASE MakeOutput BY <1>21 DEF MakeOutput
<1>22. ASSUME NEW b \in Bundles, NEW g \in Groups, Score(b, g) PROVE MetricsAreLast'
    BY <1>22 DEF Score
<1>23. CASE VerifyAgain BY <1>23 DEF VerifyAgain
<1>24. CASE CompareManifest BY <1>24 DEF CompareManifest
<1>25. CASE CompareSource BY <1>25 DEF CompareSource
<1>26. CASE CompareModels BY <1>26 DEF CompareModels
<1>27. CASE Publish BY <1>27 DEF Publish
<1>28. CASE Untouched BY <1>28 DEF Untouched
<1>29. QED
    BY StepKinds, <1>1, <1>2, <1>3, <1>4, <1>5, <1>6, <1>7, <1>8, <1>9, <1>10,
       <1>11, <1>12, <1>13, <1>14, <1>15, <1>16, <1>17, <1>18, <1>19, <1>20,
       <1>21, <1>22, <1>23, <1>24, <1>25, <1>26, <1>27, <1>28
    DEF Campaign, Evaluate, Surroundings, Hashing

\* Bundles are prepared, then scored, then verified again.
LEMMA RowsInOrderStep ==
    ASSUME StageTypes, PassTypes, RecordTypes, Phases, RowsInOrder, [Next]_vars
    PROVE  RowsInOrder'
<1> USE DEF RowsInOrder, Prepared, Scored, Unscored, Scoring, StageTypes,
    Processes, Go, Refuse, Call, vars, files, passes, plan, product, history
<1>1. CASE WriteManifest BY <1>1 DEF WriteManifest
<1>2. ASSUME NEW b \in Bundles, RunBundle(b) PROVE RowsInOrder'
    BY <1>2 DEF RunBundle
<1>3. ASSUME NEW b \in Bundles, AbortCampaign(b) PROVE RowsInOrder'
    BY <1>3 DEF AbortCampaign
<1>4. CASE RewriteManifest BY <1>4 DEF RewriteManifest
<1>5. ASSUME NEW i \in Inputs, Edit(i) PROVE RowsInOrder' BY <1>5 DEF Edit
<1>6. CASE StartEvaluation BY <1>6 DEF StartEvaluation
<1>7. CASE ReadSettings("eval") BY <1>7, ZenonT(30) DEF ReadSettings, Phases, Passing, Hashed
<1>8. CASE ReadManifest("eval") BY <1>8, ZenonT(30) DEF ReadManifest, Phases, Passing, Hashed
<1>9. ASSUME NEW b \in Bundles, VerifyBundle("eval", b) PROVE RowsInOrder'
    BY <1>9, ZenonT(30) DEF VerifyBundle, Phases, Passing, Hashed, See
<1>10. CASE BundlesVerified("eval")
  <2>1. UNCHANGED <<rows, fate, contacted>> BY <1>10 DEF BundlesVerified
  <2>2. CASE stage["eval"] = "first"
    <3>1. stage'["eval"] \in {"frozen1", "load", "refused"} BY <1>10, <2>2 DEF BundlesVerified
    <3>2. QED BY <2>1, <2>2, <3>1
  <2>3. CASE stage["eval"] # "first"
    <3>1. UNCHANGED entries BY <1>10, <2>3 DEF BundlesVerified
    <3>2. \/ stage'["eval"] = stage["eval"] \/ stage'["eval"] = "refused"
          \/ stage["eval"] = "last" /\ stage'["eval"] = "comparing"
      BY <1>10, <2>3 DEF BundlesVerified
    <3>3. QED BY <2>1, <2>3, <3>1, <3>2
  <2>4. QED BY <2>2, <2>3
<1>11. CASE HashModels("eval") BY <1>11 DEF HashModels, Phases, Passing, Hashed, See
<1>12. CASE HashSource("eval") BY <1>12 DEF HashSource, Phases, Passing, Hashed
<1>13. CASE ReadFrozen BY <1>13, ZenonT(30) DEF ReadFrozen
<1>14. CASE CompareFrozen BY <1>14, ZenonT(30) DEF CompareFrozen
<1>15. CASE LoadModels BY <1>15 DEF LoadModels
<1>16. CASE RecordSource BY <1>16 DEF RecordSource
<1>17. CASE RecordManifest BY <1>17 DEF RecordManifest
<1>18. CASE RecordModels BY <1>18 DEF RecordModels
<1>19. ASSUME NEW b \in Bundles, Prepare(b) PROVE RowsInOrder'
  <2>1. stage["eval"] = "preparing" /\ stage'["eval"] \in {"preparing", "refused"}
        /\ UNCHANGED <<rows, contacted>>
    BY <1>19 DEF Prepare
  <2>2. QED BY <2>1
<1>20. ASSUME NEW b \in Bundles, MetadataLost(b) PROVE RowsInOrder'
    BY <1>20 DEF MetadataLost
<1>21. CASE MakeOutput BY <1>21 DEF MakeOutput
<1>22. ASSUME NEW b \in Bundles, NEW g \in Groups, Score(b, g) PROVE RowsInOrder'
  <2>1. entries \subseteq Prepared /\ stage'["eval"] = "scoring"
        /\ UNCHANGED <<entries, fate>>
    BY <1>22 DEF Score
  <2>2. rows' = [c \in Bundles |-> [h \in Groups |-> rows'[c][h]]] BY <1>22 DEF Score
  <2>3. QED BY <2>1, <2>2
<1>23. CASE VerifyAgain BY <1>23, ZenonT(30) DEF VerifyAgain
<1>24. CASE CompareManifest BY <1>24, ZenonT(30) DEF CompareManifest
<1>25. CASE CompareSource BY <1>25, ZenonT(30) DEF CompareSource
<1>26. CASE CompareModels BY <1>26, ZenonT(30) DEF CompareModels
<1>27. CASE Publish BY <1>27, ZenonT(30) DEF Publish
<1>28. CASE Untouched BY <1>28 DEF Untouched
<1>29. QED
    BY StepKinds, <1>1, <1>2, <1>3, <1>4, <1>5, <1>6, <1>7, <1>8, <1>9, <1>10,
       <1>11, <1>12, <1>13, <1>14, <1>15, <1>16, <1>17, <1>18, <1>19, <1>20,
       <1>21, <1>22, <1>23, <1>24, <1>25, <1>26, <1>27, <1>28
    DEF Campaign, Evaluate, Surroundings, Hashing

\* A row that Score appends says of its bundle what preparing made of it, or
\* what its arm did.
LEMMA NewRowFits ==
    ASSUME RecordTypes, NEW b \in Bundles, NEW g \in Groups, fate[b] # "pending",
           NEW row \in RowsOf(b, g)
    PROVE  RowFits(row, fate[b])
<1>1. CASE fate[b] # "observed"
  <2>1. row = Row("EXCLUDED", fate[b]) BY <1>1 DEF RowsOf
  <2>2. fate[b] \in Unloaded BY <1>1 DEF RecordTypes, Unloaded
  <2>3. QED BY <2>1, <2>2 DEF RowFits
<1>2. CASE fate[b] = "observed"
  <2>1. PICK o \in Outcomes \cup {"ERROR", "DIAGNOSED"} :
          row = Row(o, IF o \in ArmExclusions THEN o ELSE NotExcluded)
    BY <1>2 DEF RowsOf, ArmExclusions
  <2>2. QED BY <1>2, <2>1 DEF RowFits
<1>3. QED BY <1>1, <1>2

\* No bundle is prepared once it has a row.
LEMMA RowsFitStep ==
    ASSUME StageTypes, PassTypes, RecordTypes, Phases, RowsInOrder, RowsFit, [Next]_vars
    PROVE  RowsFit'
<1> USE DEF RowsFit, vars, files, passes, plan, product, history
<1>1. CASE WriteManifest BY <1>1 DEF WriteManifest
<1>2. ASSUME NEW b \in Bundles, RunBundle(b) PROVE RowsFit' BY <1>2 DEF RunBundle
<1>3. ASSUME NEW b \in Bundles, AbortCampaign(b) PROVE RowsFit'
    BY <1>3 DEF AbortCampaign
<1>4. CASE RewriteManifest BY <1>4 DEF RewriteManifest
<1>5. ASSUME NEW i \in Inputs, Edit(i) PROVE RowsFit' BY <1>5 DEF Edit
<1>6. CASE StartEvaluation BY <1>6 DEF StartEvaluation
<1>7. CASE ReadSettings("eval") BY <1>7 DEF ReadSettings
<1>8. CASE ReadManifest("eval") BY <1>8 DEF ReadManifest
<1>9. ASSUME NEW b \in Bundles, VerifyBundle("eval", b) PROVE RowsFit'
    BY <1>9 DEF VerifyBundle
<1>10. CASE BundlesVerified("eval") BY <1>10 DEF BundlesVerified
<1>11. CASE HashModels("eval") BY <1>11 DEF HashModels
<1>12. CASE HashSource("eval") BY <1>12 DEF HashSource
<1>13. CASE ReadFrozen BY <1>13 DEF ReadFrozen
<1>14. CASE CompareFrozen BY <1>14 DEF CompareFrozen
<1>15. CASE LoadModels BY <1>15 DEF LoadModels
<1>16. CASE RecordSource BY <1>16 DEF RecordSource
<1>17. CASE RecordManifest BY <1>17 DEF RecordManifest
<1>18. CASE RecordModels BY <1>18 DEF RecordModels
<1>19. ASSUME NEW b \in Bundles, Prepare(b) PROVE RowsFit'
  <2>1. stage["eval"] = "preparing" /\ UNCHANGED rows BY <1>19 DEF Prepare
  <2>2. \A c \in Bundles, g \in Groups : rows'[c][g] = NoRow
    BY <2>1 DEF RowsInOrder, Scoring
  <2>3. QED BY <2>2 DEF RowFits
<1>20. ASSUME NEW b \in Bundles, MetadataLost(b) PROVE RowsFit'
    BY <1>20 DEF MetadataLost
<1>21. CASE MakeOutput BY <1>21 DEF MakeOutput
<1>22. ASSUME NEW b \in Bundles, NEW g \in Groups, Score(b, g) PROVE RowsFit'
  <2>1. b \in entries /\ stage["eval"] = "scoring" /\ UNCHANGED fate
    BY <1>22 DEF Score, IsNext
  <2>2. fate[b] # "pending" BY <2>1 DEF RowsInOrder, Scoring, Prepared
  <2>3. PICK row \in RowsOf(b, g) : rows' = [rows EXCEPT ![b][g] = row] BY <1>22 DEF Score
  <2>4. RowFits(row, fate[b]) BY <2>2, <2>3, NewRowFits
  <2>5. SUFFICES ASSUME NEW c \in Bundles, NEW h \in Groups PROVE RowFits(rows'[c][h], fate[c])
    BY <2>1
  <2>6. rows'[c][h] = IF c = b /\ h = g THEN row ELSE rows[c][h]
    BY <2>3 DEF RowsInOrder
  <2>7. QED BY <2>4, <2>6
<1>23. CASE VerifyAgain BY <1>23 DEF VerifyAgain
<1>24. CASE CompareManifest BY <1>24 DEF CompareManifest
<1>25. CASE CompareSource BY <1>25 DEF CompareSource
<1>26. CASE CompareModels BY <1>26 DEF CompareModels
<1>27. CASE Publish BY <1>27 DEF Publish
<1>28. CASE Untouched BY <1>28 DEF Untouched
<1>29. QED
    BY StepKinds, <1>1, <1>2, <1>3, <1>4, <1>5, <1>6, <1>7, <1>8, <1>9, <1>10,
       <1>11, <1>12, <1>13, <1>14, <1>15, <1>16, <1>17, <1>18, <1>19, <1>20,
       <1>21, <1>22, <1>23, <1>24, <1>25, <1>26, <1>27, <1>28
    DEF Campaign, Evaluate, Surroundings, Hashing

\* Nothing is prepared for a model, or scored by one, with prompts that were not
\* planned, or planned and found too long.
LEMMA PromptsPlannedStep ==
    ASSUME FileTypes, StageTypes, PassTypes, RecordTypes, ReadTypes, Phases, RowsInOrder,
           PromptsPlanned, [Next]_vars
    PROVE  PromptsPlanned'
<1> USE InputsDiffer DEF PromptsPlanned, PlannedRead, StageTypes, Processes, Go,
    Refuse, Call, vars, files, passes, plan, product, history
<1>1. CASE WriteManifest BY <1>1 DEF WriteManifest
<1>2. ASSUME NEW b \in Bundles, RunBundle(b) PROVE PromptsPlanned'
    BY <1>2 DEF RunBundle
<1>3. ASSUME NEW b \in Bundles, AbortCampaign(b) PROVE PromptsPlanned'
    BY <1>3 DEF AbortCampaign
<1>4. CASE RewriteManifest BY <1>4 DEF RewriteManifest
<1>5. ASSUME NEW i \in Inputs, Edit(i) PROVE PromptsPlanned' BY <1>5 DEF Edit
<1>6. CASE StartEvaluation BY <1>6 DEF StartEvaluation
<1>7. CASE ReadSettings("eval") BY <1>7 DEF ReadSettings, Phases, Passing, Hashed
<1>8. CASE ReadManifest("eval") BY <1>8 DEF ReadManifest, Phases, Passing, Hashed
<1>9. ASSUME NEW b \in Bundles, VerifyBundle("eval", b) PROVE PromptsPlanned'
    BY <1>9 DEF VerifyBundle, Phases, Passing, Hashed, See
<1>10. CASE BundlesVerified("eval")
    BY <1>10 DEF BundlesVerified, Phases, Passing, Hashed
<1>11. CASE HashModels("eval") BY <1>11 DEF HashModels, Phases, Passing, Hashed, See
<1>12. CASE HashSource("eval") BY <1>12 DEF HashSource, Phases, Passing, Hashed
<1>13. CASE ReadFrozen BY <1>13 DEF ReadFrozen
<1>14. CASE CompareFrozen BY <1>14 DEF CompareFrozen
<1>15. CASE LoadModels BY <1>15 DEF LoadModels
<1>16. CASE RecordSource BY <1>16 DEF RecordSource
<1>17. CASE RecordManifest BY <1>17 DEF RecordManifest
<1>18. CASE RecordModels BY <1>18 DEF RecordModels
<1>19. ASSUME NEW b \in Bundles, Prepare(b) PROVE PromptsPlanned'
  <2>1. PICK f \in {"observed", "quarantined", "load_error"} :
          LET asks == f = "observed" /\ LlmGroups # {}
          IN  /\ scored' = scored \cup ({<<b, now[b]>>} \cup
                             (IF asks THEN {<<Source, now[Source]>>} ELSE {}))
              /\ IF asks /\ now[Source] \in TooLong
                 THEN Refuse("eval") /\ UNCHANGED fate
                 ELSE fate' = [fate EXCEPT ![b] = f] /\ UNCHANGED <<stage, step>>
    BY <1>19 DEF Prepare, Scores
  <2>2. CASE f = "observed" /\ LlmGroups # {} /\ now[Source] \in TooLong BY <2>1, <2>2
  <2>3. CASE f = "observed" /\ LlmGroups # {} /\ now[Source] \notin TooLong
    <3>1. <<Source, now[Source]>> \in scored' BY <2>1, <2>3
    <3>2. PlannedRead' BY <3>1, <2>3
    <3>3. QED BY <3>2
  <2>4. CASE ~(f = "observed" /\ LlmGroups # {})
    <3>1. scored' = scored \cup {<<b, now[b]>>} /\ UNCHANGED stage
          /\ fate' = [fate EXCEPT ![b] = f]
      BY <2>1, <2>4
    <3>2. b # Source OBVIOUS
    <3>3. PlannedRead => PlannedRead' BY <3>1
    <3>4. \A c \in Bundles : fate'[c] = "observed" /\ LlmGroups # {} => fate[c] = "observed"
      BY <3>1, <2>4 DEF RecordTypes
    <3>5. stage["eval"] # "refused" BY <1>19 DEF Prepare
    <3>6. \A c \in Bundles : fate'[c] = "observed" /\ LlmGroups # {} => PlannedRead'
      BY <3>3, <3>4, <3>5
    <3>7. \A r \in scored' : r[1] = Source => PlannedRead' BY <3>1, <3>2, <3>3, <3>5
    <3>8. QED BY <3>6, <3>7
  <2>5. QED BY <2>2, <2>3, <2>4
<1>20. ASSUME NEW b \in Bundles, MetadataLost(b) PROVE PromptsPlanned'
    BY <1>20 DEF MetadataLost
<1>21. CASE MakeOutput BY <1>21 DEF MakeOutput
<1>22. ASSUME NEW b \in Bundles, NEW g \in Groups, Score(b, g) PROVE PromptsPlanned'
  <2>1. stage["eval"] = "scoring" /\ UNCHANGED <<fate, stage>> /\ scored \subseteq scored'
    BY <1>22 DEF Score, Scores
  <2>2. PlannedRead => PlannedRead' BY <2>1
  <2>3. CASE fate[b] = "observed" /\ g \in LlmGroups
    <3>1. PlannedRead' BY <2>1, <2>2, <2>3
    <3>2. QED BY <3>1
  <2>4. CASE ~(fate[b] = "observed" /\ g \in LlmGroups)
    <3>1. UNCHANGED scored BY <1>22, <2>4 DEF Score
    <3>2. QED BY <2>1, <3>1
  <2>5. QED BY <2>3, <2>4
<1>23. CASE VerifyAgain BY <1>23 DEF VerifyAgain
<1>24. CASE CompareManifest BY <1>24 DEF CompareManifest
<1>25. CASE CompareSource BY <1>25 DEF CompareSource
<1>26. CASE CompareModels BY <1>26 DEF CompareModels
<1>27. CASE Publish BY <1>27 DEF Publish
<1>28. CASE Untouched BY <1>28 DEF Untouched
<1>29. QED
    BY StepKinds, <1>1, <1>2, <1>3, <1>4, <1>5, <1>6, <1>7, <1>8, <1>9, <1>10,
       <1>11, <1>12, <1>13, <1>14, <1>15, <1>16, <1>17, <1>18, <1>19, <1>20,
       <1>21, <1>22, <1>23, <1>24, <1>25, <1>26, <1>27, <1>28
    DEF Campaign, Evaluate, Surroundings, Hashing

\* Two sets without a common element are counted together.
LEMMA DisjointCount ==
    ASSUME NEW A, NEW B, IsFiniteSet(A), IsFiniteSet(B), A \cap B = {}
    PROVE  /\ IsFiniteSet(A \cup B)
           /\ Cardinality(A \cup B) = Cardinality(A) + Cardinality(B)
           /\ Cardinality(A) \in Nat /\ Cardinality(B) \in Nat
<1>1. Cardinality(A) \in Nat /\ Cardinality(B) \in Nat BY FS_CardinalityType
<1>2. Cardinality(A \cap B) = 0 BY FS_EmptySet
<1>3. IsFiniteSet(A \cup B) BY FS_Union
<1>4. Cardinality(A \cup B) = Cardinality(A) + Cardinality(B) - Cardinality(A \cap B)
  BY FS_Union
<1>5. QED BY <1>1, <1>2, <1>3, <1>4

\* A part of a finite set is finite and counts no more.
LEMMA PartCount ==
    ASSUME NEW S, IsFiniteSet(S), NEW T, T \subseteq S
    PROVE  /\ IsFiniteSet(T) /\ Cardinality(T) \in Nat /\ Cardinality(S) \in Nat
           /\ Cardinality(T) <= Cardinality(S)
<1>1. IsFiniteSet(T) /\ Cardinality(T) <= Cardinality(S) BY FS_Subset
<1>2. QED BY <1>1, FS_CardinalityType

\* Five finite sets, none of which meets another, are counted together.
LEMMA FivePartsCount ==
    ASSUME NEW A, NEW B, NEW C, NEW D, NEW E,
           IsFiniteSet(A), IsFiniteSet(B), IsFiniteSet(C), IsFiniteSet(D), IsFiniteSet(E),
           A \cap B = {}, (A \cup B) \cap C = {}, (A \cup B \cup C) \cap D = {},
           (A \cup B \cup C \cup D) \cap E = {}
    PROVE  Cardinality(A \cup B \cup C \cup D \cup E) =
             Cardinality(A) + Cardinality(B) + Cardinality(C) + Cardinality(D) + Cardinality(E)
<1>1. /\ IsFiniteSet(A \cup B) /\ Cardinality(A) \in Nat /\ Cardinality(B) \in Nat
      /\ Cardinality(A \cup B) = Cardinality(A) + Cardinality(B)
  BY DisjointCount
<1>2. /\ IsFiniteSet(A \cup B \cup C) /\ Cardinality(C) \in Nat
      /\ Cardinality(A \cup B \cup C) = Cardinality(A \cup B) + Cardinality(C)
  BY <1>1, DisjointCount
<1>3. /\ IsFiniteSet(A \cup B \cup C \cup D) /\ Cardinality(D) \in Nat
      /\ Cardinality(A \cup B \cup C \cup D) = Cardinality(A \cup B \cup C) + Cardinality(D)
  BY <1>2, DisjointCount
<1>4. /\ Cardinality(E) \in Nat
      /\ Cardinality(A \cup B \cup C \cup D \cup E)
         = Cardinality(A \cup B \cup C \cup D) + Cardinality(E)
  BY <1>3, DisjointCount
<1>5. QED BY <1>1, <1>2, <1>3, <1>4

\* A row that is there is evaluated, or excluded for one of four reasons; one
\* that is evaluated is of a bundle that was loaded.
LEMMA ReasonsAreFour ==
    ASSUME RowsFit, entries \subseteq Scored, entries \subseteq Bundles,
           NEW g \in Groups, NEW b \in entries
    PROVE  /\ ExclusionReason(rows[b][g]) \in
                {NotExcluded, "quarantined", "load_error", "TRUNCATED", "CONTEXT_REJECTED"}
           /\ ExclusionReason(rows[b][g]) = NotExcluded => fate[b] = "observed"
<1>1. b \in Bundles /\ rows[b][g] # NoRow BY DEF Scored, Unscored
<1>2. RowFits(rows[b][g], fate[b]) BY <1>1 DEF RowsFit
<1>3. CASE fate[b] \in Unloaded /\ rows[b][g] = Row("EXCLUDED", fate[b])
  <2>1. ExclusionReason(rows[b][g]) = fate[b]
    BY <1>3 DEF ExclusionReason, Row, Unloaded, NotExcluded
  <2>2. QED BY <1>3, <2>1 DEF Unloaded, NotExcluded
<1>4. ASSUME fate[b] = "observed", NEW o \in Outcomes \cup {"ERROR", "DIAGNOSED"},
             rows[b][g] = Row(o, IF o \in ArmExclusions THEN o ELSE NotExcluded)
      PROVE  ExclusionReason(rows[b][g]) \in {NotExcluded, "TRUNCATED", "CONTEXT_REJECTED"}
  BY <1>4 DEF ExclusionReason, Row, NotExcluded, ArmExclusions
<1>5. QED BY <1>1, <1>2, <1>3, <1>4 DEF RowFits

\* The five counts of a group add up to the bundles of the split.
LEMMA GroupAddsUp ==
    ASSUME RowsFit, entries \subseteq Scored, entries \subseteq Bundles, NEW g \in Groups
    PROVE  LET k == GroupMetrics(g)
           IN  k.bundles = k.evaluated + k.reasons["quarantined"] + k.reasons["load_error"]
                           + k.reasons["TRUNCATED"] + k.reasons["CONTEXT_REJECTED"]
<1> DEFINE With(r) == {b \in entries : ExclusionReason(rows[b][g]) = r}
           N == With(NotExcluded)
           Q == With("quarantined")
           L == With("load_error")
           T == With("TRUNCATED")
           C == With("CONTEXT_REJECTED")
<1>1. IsFiniteSet(entries) BY FS_Subset, EvaluationAssumption
<1>2. entries = N \cup Q \cup L \cup T \cup C BY ReasonsAreFour
<1>3. /\ N \cap Q = {} /\ (N \cup Q) \cap L = {} /\ (N \cup Q \cup L) \cap T = {}
      /\ (N \cup Q \cup L \cup T) \cap C = {}
  BY DEF NotExcluded
<1>4. GroupMetrics(g).bundles = Cardinality(entries)
      /\ GroupMetrics(g).evaluated = Cardinality(N)
  BY DEF GroupMetrics, Evaluated
<1>5. /\ GroupMetrics(g).reasons["quarantined"] = Cardinality(Q)
      /\ GroupMetrics(g).reasons["load_error"] = Cardinality(L)
      /\ GroupMetrics(g).reasons["TRUNCATED"] = Cardinality(T)
      /\ GroupMetrics(g).reasons["CONTEXT_REJECTED"] = Cardinality(C)
  BY DEF GroupMetrics, ArmExclusions
<1> HIDE DEF N, Q, L, T, C
<1>6. /\ IsFiniteSet(N) /\ IsFiniteSet(Q) /\ IsFiniteSet(L)
      /\ IsFiniteSet(T) /\ IsFiniteSet(C)
  <2>1. /\ N \subseteq entries /\ Q \subseteq entries /\ L \subseteq entries
        /\ T \subseteq entries /\ C \subseteq entries
    BY <1>2
  <2>2. QED BY <1>1, <2>1, FS_Subset
<1>7. Cardinality(N \cup Q \cup L \cup T \cup C) =
        Cardinality(N) + Cardinality(Q) + Cardinality(L) + Cardinality(T) + Cardinality(C)
  BY <1>3, <1>6, FivePartsCount
<1>8. QED BY <1>2, <1>4, <1>5, <1>7

\* What is evaluated was loaded, so that two groups share what both evaluate.
LEMMA EvaluatedWereLoaded ==
    ASSUME RowsFit, entries \subseteq Scored, entries \subseteq Bundles,
           NEW g \in Groups, NEW h \in Groups
    PROVE  /\ GroupMetrics(g).evaluated <= GroupMetrics(g).bundles - Cardinality(BarredBundles)
           /\ Paired(g, h) <= GroupMetrics(g).evaluated
           /\ Paired(g, h) >= GroupMetrics(g).evaluated + GroupMetrics(h).evaluated
                              - Cardinality(LoadedBundles)
<1> DEFINE L == LoadedBundles
           B == BarredBundles
           G == Evaluated(g)
           H == Evaluated(h)
<1>1. IsFiniteSet(entries) BY FS_Subset, EvaluationAssumption
<1>2. G \subseteq L /\ H \subseteq L BY ReasonsAreFour DEF Evaluated, LoadedBundles
<1>3. entries = L \cup B /\ L \cap B = {} /\ L \subseteq entries /\ B \subseteq entries
  BY DEF LoadedBundles, BarredBundles
<1>4. /\ GroupMetrics(g).bundles = Cardinality(entries)
      /\ GroupMetrics(g).evaluated = Cardinality(G)
      /\ GroupMetrics(h).evaluated = Cardinality(H)
      /\ Paired(g, h) = Cardinality(G \cap H)
  BY DEF GroupMetrics, Paired
<1>5. SUFFICES
        /\ Cardinality(G) <= Cardinality(entries) - Cardinality(B)
        /\ Cardinality(G \cap H) <= Cardinality(G)
        /\ Cardinality(G \cap H) >= Cardinality(G) + Cardinality(H) - Cardinality(L)
  BY <1>4
<1> HIDE DEF L, B, G, H
<1>6. IsFiniteSet(L) /\ IsFiniteSet(B) BY <1>1, <1>3, PartCount
<1>7. Cardinality(entries) = Cardinality(L) + Cardinality(B)
      /\ Cardinality(L) \in Nat /\ Cardinality(B) \in Nat
  BY <1>3, <1>6, DisjointCount
<1>8. IsFiniteSet(G) /\ Cardinality(G) \in Nat /\ Cardinality(G) <= Cardinality(L)
  BY <1>2, <1>6, PartCount
<1>9. IsFiniteSet(H) /\ Cardinality(H) \in Nat BY <1>2, <1>6, PartCount
<1>10. G \cap H \subseteq G /\ G \cup H \subseteq L BY <1>2
<1>11. Cardinality(G \cap H) \in Nat /\ Cardinality(G \cap H) <= Cardinality(G)
  BY <1>8, <1>10, PartCount
<1>12. Cardinality(G \cup H) \in Nat /\ Cardinality(G \cup H) <= Cardinality(L)
  BY <1>6, <1>10, PartCount
<1>13. Cardinality(G \cup H) = Cardinality(G) + Cardinality(H) - Cardinality(G \cap H)
  BY <1>8, <1>9, FS_Union
<1>14. QED BY <1>7, <1>8, <1>9, <1>11, <1>12, <1>13

\* What was published is not touched again.
LEMMA PublishedStays ==
    ASSUME StageTypes, PassTypes, Phases, stage["eval"] = "published", [Next]_vars
    PROVE  UNCHANGED <<entries, fate, scored, metrics>>
<1> USE DEF StageTypes, Processes, Go, Refuse, Call, vars, files, passes, plan,
    product, history
<1>1. CASE WriteManifest BY <1>1 DEF WriteManifest
<1>2. ASSUME NEW b \in Bundles, RunBundle(b)
      PROVE UNCHANGED <<entries, fate, scored, metrics>>
    BY <1>2 DEF RunBundle
<1>3. ASSUME NEW b \in Bundles, AbortCampaign(b)
      PROVE UNCHANGED <<entries, fate, scored, metrics>>
    BY <1>3 DEF AbortCampaign
<1>4. CASE RewriteManifest BY <1>4 DEF RewriteManifest
<1>5. ASSUME NEW i \in Inputs, Edit(i)
      PROVE UNCHANGED <<entries, fate, scored, metrics>>
    BY <1>5 DEF Edit
<1>6. CASE StartEvaluation BY <1>6 DEF StartEvaluation
<1>7. CASE ReadSettings("eval") BY <1>7 DEF ReadSettings, Phases, Passing, Hashed
<1>8. CASE ReadManifest("eval") BY <1>8 DEF ReadManifest, Phases, Passing, Hashed
<1>9. ASSUME NEW b \in Bundles, VerifyBundle("eval", b)
      PROVE UNCHANGED <<entries, fate, scored, metrics>>
    BY <1>9 DEF VerifyBundle, Phases, Passing, Hashed, See
<1>10. CASE BundlesVerified("eval")
    BY <1>10 DEF BundlesVerified, Phases, Passing, Hashed
<1>11. CASE HashModels("eval") BY <1>11 DEF HashModels, Phases, Passing, Hashed, See
<1>12. CASE HashSource("eval") BY <1>12 DEF HashSource, Phases, Passing, Hashed
<1>13. CASE ReadFrozen BY <1>13 DEF ReadFrozen
<1>14. CASE CompareFrozen BY <1>14 DEF CompareFrozen
<1>15. CASE LoadModels BY <1>15 DEF LoadModels
<1>16. CASE RecordSource BY <1>16 DEF RecordSource
<1>17. CASE RecordManifest BY <1>17 DEF RecordManifest
<1>18. CASE RecordModels BY <1>18 DEF RecordModels
<1>19. ASSUME NEW b \in Bundles, Prepare(b)
      PROVE UNCHANGED <<entries, fate, scored, metrics>>
    BY <1>19 DEF Prepare
<1>20. ASSUME NEW b \in Bundles, MetadataLost(b)
      PROVE UNCHANGED <<entries, fate, scored, metrics>>
    BY <1>20 DEF MetadataLost
<1>21. CASE MakeOutput BY <1>21 DEF MakeOutput
<1>22. ASSUME NEW b \in Bundles, NEW g \in Groups, Score(b, g)
      PROVE UNCHANGED <<entries, fate, scored, metrics>>
    BY <1>22 DEF Score
<1>23. CASE VerifyAgain BY <1>23 DEF VerifyAgain
<1>24. CASE CompareManifest BY <1>24 DEF CompareManifest
<1>25. CASE CompareSource BY <1>25 DEF CompareSource
<1>26. CASE CompareModels BY <1>26 DEF CompareModels
<1>27. CASE Publish BY <1>27 DEF Publish
<1>28. CASE Untouched BY <1>28 DEF Untouched
<1>29. QED
    BY StepKinds, <1>1, <1>2, <1>3, <1>4, <1>5, <1>6, <1>7, <1>8, <1>9, <1>10,
       <1>11, <1>12, <1>13, <1>14, <1>15, <1>16, <1>17, <1>18, <1>19, <1>20,
       <1>21, <1>22, <1>23, <1>24, <1>25, <1>26, <1>27, <1>28
    DEF Campaign, Evaluate, Surroundings, Hashing

\* Nothing else makes metrics.json.
LEMMA OnlyPublishCounts ==
    ASSUME StageTypes, PassTypes, Phases, [Next]_vars
    PROVE  Publish \/ UNCHANGED metrics
<1> USE DEF vars, files, passes, plan, product, history
<1>1. CASE WriteManifest BY <1>1 DEF WriteManifest
<1>2. ASSUME NEW b \in Bundles, RunBundle(b) PROVE Publish \/ UNCHANGED metrics
    BY <1>2 DEF RunBundle
<1>3. ASSUME NEW b \in Bundles, AbortCampaign(b) PROVE Publish \/ UNCHANGED metrics
    BY <1>3 DEF AbortCampaign
<1>4. CASE RewriteManifest BY <1>4 DEF RewriteManifest
<1>5. ASSUME NEW i \in Inputs, Edit(i) PROVE Publish \/ UNCHANGED metrics
    BY <1>5 DEF Edit
<1>6. CASE StartEvaluation BY <1>6 DEF StartEvaluation
<1>7. CASE ReadSettings("eval") BY <1>7 DEF ReadSettings
<1>8. CASE ReadManifest("eval") BY <1>8 DEF ReadManifest
<1>9. ASSUME NEW b \in Bundles, VerifyBundle("eval", b)
      PROVE Publish \/ UNCHANGED metrics
    BY <1>9 DEF VerifyBundle
<1>10. CASE BundlesVerified("eval") BY <1>10 DEF BundlesVerified
<1>11. CASE HashModels("eval") BY <1>11 DEF HashModels
<1>12. CASE HashSource("eval") BY <1>12 DEF HashSource
<1>13. CASE ReadFrozen BY <1>13 DEF ReadFrozen
<1>14. CASE CompareFrozen BY <1>14 DEF CompareFrozen
<1>15. CASE LoadModels BY <1>15 DEF LoadModels
<1>16. CASE RecordSource BY <1>16 DEF RecordSource
<1>17. CASE RecordManifest BY <1>17 DEF RecordManifest
<1>18. CASE RecordModels BY <1>18 DEF RecordModels
<1>19. ASSUME NEW b \in Bundles, Prepare(b) PROVE Publish \/ UNCHANGED metrics
    BY <1>19 DEF Prepare
<1>20. ASSUME NEW b \in Bundles, MetadataLost(b) PROVE Publish \/ UNCHANGED metrics
    BY <1>20 DEF MetadataLost
<1>21. CASE MakeOutput BY <1>21 DEF MakeOutput
<1>22. ASSUME NEW b \in Bundles, NEW g \in Groups, Score(b, g)
      PROVE Publish \/ UNCHANGED metrics
    BY <1>22 DEF Score
<1>23. CASE VerifyAgain BY <1>23 DEF VerifyAgain
<1>24. CASE CompareManifest BY <1>24 DEF CompareManifest
<1>25. CASE CompareSource BY <1>25 DEF CompareSource
<1>26. CASE CompareModels BY <1>26 DEF CompareModels
<1>27. CASE Publish BY <1>27 DEF Publish
<1>28. CASE Untouched BY <1>28 DEF Untouched
<1>29. QED
    BY StepKinds, <1>1, <1>2, <1>3, <1>4, <1>5, <1>6, <1>7, <1>8, <1>9, <1>10,
       <1>11, <1>12, <1>13, <1>14, <1>15, <1>16, <1>17, <1>18, <1>19, <1>20,
       <1>21, <1>22, <1>23, <1>24, <1>25, <1>26, <1>27, <1>28
    DEF Campaign, Evaluate, Surroundings, Hashing

\* What is published adds up, and goes on doing so.
LEMMA ScoresAddUpStep ==
    ASSUME StageTypes, PassTypes, RecordTypes, Phases, RowsAreHashed, RowsInOrder, RowsFit,
           PromptsPlanned, MetricsAreLast, ScoresAddUp, [Next]_vars
    PROVE  ScoresAddUp'
<1>1. CASE metrics # {}
  <2>1. UNCHANGED <<entries, fate, scored, metrics>>
    BY <1>1, PublishedStays DEF MetricsAreLast
  <2>2. BarredBundles' = BarredBundles BY <2>1 DEF BarredBundles
  <2>3. LoadedBundles' = LoadedBundles BY <2>1 DEF LoadedBundles
  <2>4. QED BY <2>1, <2>2, <2>3 DEF ScoresAddUp
<1>2. CASE metrics = {} /\ UNCHANGED metrics BY <1>2 DEF ScoresAddUp
<1>3. CASE Publish
  <2>1. stage["eval"] = "publish" /\ UNCHANGED <<entries, fate, rows, scored>>
        /\ metrics' = {[groups |-> [g \in Groups |-> GroupMetrics(g)],
                        pairs |-> [p \in Groups \X Groups |-> Paired(p[1], p[2])]]}
    BY <1>3 DEF Publish, plan, product, history
  <2>2. entries \subseteq Scored /\ entries \subseteq Bundles
    BY <2>1 DEF RowsInOrder, Scoring, RecordTypes
  <2>3. \A r \in scored : r[1] = Source => r[2] \notin TooLong
    BY <2>1 DEF PromptsPlanned, PlannedRead, RowsAreHashed, RowSourceMatches, Late
  <2>4. \A m \in metrics' :
          /\ \A g \in Groups : m.groups[g] = GroupMetrics(g)
          /\ \A g \in Groups, h \in Groups : m.pairs[<<g, h>>] = Paired(g, h)
    BY <2>1
  <2>5. BarredBundles' = BarredBundles BY <2>1 DEF BarredBundles
  <2>6. LoadedBundles' = LoadedBundles BY <2>1 DEF LoadedBundles
  <2>7. ASSUME NEW m \in metrics', NEW g \in Groups PROVE
          LET k == m.groups[g]
          IN  /\ k.bundles = k.evaluated + k.reasons["quarantined"] + k.reasons["load_error"]
                             + k.reasons["TRUNCATED"] + k.reasons["CONTEXT_REJECTED"]
              /\ k.evaluated <= k.bundles - Cardinality(BarredBundles)
    BY <2>2, <2>4, GroupAddsUp, EvaluatedWereLoaded
  <2>8. ASSUME NEW m \in metrics', NEW g \in Groups, NEW h \in Groups PROVE
          /\ m.pairs[<<g, h>>] <= m.groups[g].evaluated
          /\ m.pairs[<<g, h>>] >= m.groups[g].evaluated + m.groups[h].evaluated
                                  - Cardinality(LoadedBundles)
    BY <2>2, <2>4, EvaluatedWereLoaded
  <2>9. ASSUME NEW m \in metrics', NEW g \in Groups PROVE
          LET k == m.groups[g]
          IN  /\ k.bundles = k.evaluated + k.reasons["quarantined"] + k.reasons["load_error"]
                             + k.reasons["TRUNCATED"] + k.reasons["CONTEXT_REJECTED"]
              /\ k.evaluated <= k.bundles - Cardinality(BarredBundles')
    BY <2>5, <2>7, Zenon
  <2>10. ASSUME NEW m \in metrics', NEW g \in Groups, NEW h \in Groups PROVE
          /\ m.pairs[<<g, h>>] <= m.groups[g].evaluated
          /\ m.pairs[<<g, h>>] >= m.groups[g].evaluated + m.groups[h].evaluated
                                  - Cardinality(LoadedBundles')
    BY <2>6, <2>8, Zenon
  <2>11. \A r \in scored' : r[1] = Source => r[2] \notin TooLong
    BY <2>1, <2>3, Zenon
  <2>12. QED BY <2>9, <2>10, <2>11, Zenon DEF ScoresAddUp
<1>4. QED BY <1>1, <1>2, <1>3, OnlyPublishCounts

\* A freeze that is complete is not changed.
LEMMA FreezeIsLast ==
    ASSUME FileTypes, StageTypes, PassTypes, RecordTypes, Phases, FrozenAgrees, [Next]_vars
    PROVE  UNCHANGED frozen
<1> USE DEF FrozenAgrees, Phases, Go, Call, StageTypes, Processes, vars
<1>1. stage["freeze"] = "done" /\ step["freeze"] = "none" OBVIOUS
<1>2. ~StartFreeze /\ ~CreateFrozen /\ ~WriteFrozen
  BY <1>1 DEF StartFreeze, CreateFrozen, WriteFrozen
<1>3. Campaign => UNCHANGED frozen
  BY DEF Campaign, WriteManifest, RunBundle, AbortCampaign
<1>4. Surroundings => UNCHANGED frozen BY DEF Surroundings, RewriteManifest, Edit
<1>5. \A p \in Processes : Hashing(p) => UNCHANGED frozen
  BY DEF Hashing, ReadSettings, ReadManifest, VerifyBundle, BundlesVerified, HashModels,
     HashSource
<1>6. Evaluate => UNCHANGED frozen
  BY <1>5 DEF Evaluate, StartEvaluation, ReadFrozen, CompareFrozen, LoadModels,
     RecordSource, RecordManifest, RecordModels, Prepare, MetadataLost, MakeOutput, Score,
     VerifyAgain, CompareManifest, CompareSource, CompareModels, Publish
<1>7. QED BY <1>2, <1>3, <1>4, <1>5, <1>6 DEF Next, Freeze, Done

\* The freeze is compared with for the test split only.
LEMMA FrozenForTestStep ==
    ASSUME StageTypes, PassTypes, Phases, FrozenForTest, [Next]_vars
    PROVE  FrozenForTest'
<1> USE DEF FrozenForTest, FrozenAgain, StageTypes, Processes, Go, Refuse, Call,
    vars, files, passes, plan, product, history
<1>1. CASE WriteManifest BY <1>1 DEF WriteManifest
<1>2. ASSUME NEW b \in Bundles, RunBundle(b) PROVE FrozenForTest'
    BY <1>2 DEF RunBundle
<1>3. ASSUME NEW b \in Bundles, AbortCampaign(b) PROVE FrozenForTest'
    BY <1>3 DEF AbortCampaign
<1>4. CASE RewriteManifest BY <1>4 DEF RewriteManifest
<1>5. ASSUME NEW i \in Inputs, Edit(i) PROVE FrozenForTest' BY <1>5 DEF Edit
<1>6. CASE StartEvaluation BY <1>6 DEF StartEvaluation
<1>7. CASE ReadSettings("eval") BY <1>7 DEF ReadSettings, Phases, Passing, Hashed
<1>8. CASE ReadManifest("eval") BY <1>8 DEF ReadManifest, Phases, Passing, Hashed
<1>9. ASSUME NEW b \in Bundles, VerifyBundle("eval", b) PROVE FrozenForTest'
    BY <1>9 DEF VerifyBundle, Phases, Passing, Hashed, See
<1>10. CASE BundlesVerified("eval")
    BY <1>10 DEF BundlesVerified, Phases, Passing, Hashed
<1>11. CASE HashModels("eval") BY <1>11 DEF HashModels, Phases, Passing, Hashed, See
<1>12. CASE HashSource("eval") BY <1>12 DEF HashSource, Phases, Passing, Hashed
<1>13. CASE ReadFrozen BY <1>13 DEF ReadFrozen
<1>14. CASE CompareFrozen BY <1>14 DEF CompareFrozen
<1>15. CASE LoadModels BY <1>15 DEF LoadModels
<1>16. CASE RecordSource BY <1>16 DEF RecordSource
<1>17. CASE RecordManifest BY <1>17 DEF RecordManifest
<1>18. CASE RecordModels BY <1>18 DEF RecordModels
<1>19. ASSUME NEW b \in Bundles, Prepare(b) PROVE FrozenForTest'
    BY <1>19 DEF Prepare
<1>20. ASSUME NEW b \in Bundles, MetadataLost(b) PROVE FrozenForTest'
    BY <1>20 DEF MetadataLost
<1>21. CASE MakeOutput BY <1>21 DEF MakeOutput
<1>22. ASSUME NEW b \in Bundles, NEW g \in Groups, Score(b, g) PROVE FrozenForTest'
    BY <1>22 DEF Score
<1>23. CASE VerifyAgain BY <1>23 DEF VerifyAgain
<1>24. CASE CompareManifest BY <1>24 DEF CompareManifest
<1>25. CASE CompareSource BY <1>25 DEF CompareSource
<1>26. CASE CompareModels BY <1>26 DEF CompareModels
<1>27. CASE Publish BY <1>27 DEF Publish
<1>28. CASE Untouched BY <1>28 DEF Untouched
<1>29. QED
    BY StepKinds, <1>1, <1>2, <1>3, <1>4, <1>5, <1>6, <1>7, <1>8, <1>9, <1>10,
       <1>11, <1>12, <1>13, <1>14, <1>15, <1>16, <1>17, <1>18, <1>19, <1>20,
       <1>21, <1>22, <1>23, <1>24, <1>25, <1>26, <1>27, <1>28
    DEF Campaign, Evaluate, Surroundings, Hashing

\* The start finds everything as it should be, if nothing stands against it.
LEMMA StartIsDue ==
    ASSUME FileTypes, StageTypes, PassTypes, RecordTypes, StartEvaluation, due'
    PROVE  /\ stage'["eval"] \in Started /\ StillFit' /\ HashesAreCurrent'
           /\ RecordIsCurrent'
<1> USE DEF StartEvaluation, StageTypes, Processes, Call, Go, files, passes, plan, product
<1>1. stage'["eval"] = "first" /\ step'["eval"] = "settings"
      /\ UNCHANGED <<bundle, now, manifest, frozen, out>>
  OBVIOUS
<1>2. manifest = ManifestNow /\ \A b \in Bundles : bundle[b] # "stray" OBVIOUS
<1>3. \E b \in Listed(manifest) : OfSplit(b, split') OBVIOUS
<1>4. split' = "test" => FrozenAgrees OBVIOUS
<1>5. now[Source] \notin TooLong /\ ~out OBVIOUS
<1>6. ManifestNow' = ManifestNow BY <1>1 DEF ManifestNow, Complete
<1>7. Listed(manifest)' = Listed(manifest) BY <1>1 DEF Listed
<1>8. FrozenAgrees => FrozenAgrees' BY <1>1 DEF FrozenAgrees
<1>9. StillFit'
  BY <1>1, <1>2, <1>3, <1>4, <1>5, <1>6, <1>7, <1>8 DEF StillFit
<1>10. HashesAreCurrent' BY <1>1 DEF HashesAreCurrent, Hashed
<1>11. RecordIsCurrent' BY <1>1 DEF RecordIsCurrent, Started
<1>12. QED BY <1>1, <1>9, <1>10, <1>11 DEF Started

\* While nothing is changed, nothing changes what is due, nor the files, the manifest,
\* the split and the freeze.
LEMMA DueIsKept ==
    ASSUME StageTypes, PassTypes, Phases, due => stage["eval"] \in Started,
           due', ~StartEvaluation, [Next]_vars
    PROVE  due /\ UNCHANGED <<bundle, now, manifest, split>>
<1> USE DEF Started, Scoring, vars, files, passes, plan, product, history
<1>1. CASE WriteManifest
  BY <1>1 DEF WriteManifest
<1>2. ASSUME NEW b \in Bundles, RunBundle(b)
      PROVE due /\ UNCHANGED <<bundle, now, manifest, split>>
    BY <1>2 DEF RunBundle
<1>3. ASSUME NEW b \in Bundles, AbortCampaign(b)
      PROVE due /\ UNCHANGED <<bundle, now, manifest, split>>
    BY <1>3 DEF AbortCampaign
<1>4. CASE RewriteManifest BY <1>4 DEF RewriteManifest
<1>5. ASSUME NEW i \in Inputs, Edit(i)
      PROVE due /\ UNCHANGED <<bundle, now, manifest, split>>
    BY <1>5 DEF Edit, Working
<1>6. CASE StartEvaluation
  BY <1>6
<1>7. CASE ReadSettings("eval") BY <1>7 DEF ReadSettings
<1>8. CASE ReadManifest("eval") BY <1>8 DEF ReadManifest
<1>9. ASSUME NEW b \in Bundles, VerifyBundle("eval", b)
      PROVE due /\ UNCHANGED <<bundle, now, manifest, split>>
    BY <1>9 DEF VerifyBundle
<1>10. CASE BundlesVerified("eval") BY <1>10 DEF BundlesVerified
<1>11. CASE HashModels("eval") BY <1>11 DEF HashModels
<1>12. CASE HashSource("eval") BY <1>12 DEF HashSource
<1>13. CASE ReadFrozen BY <1>13 DEF ReadFrozen
<1>14. CASE CompareFrozen BY <1>14 DEF CompareFrozen
<1>15. CASE LoadModels BY <1>15 DEF LoadModels
<1>16. CASE RecordSource BY <1>16 DEF RecordSource
<1>17. CASE RecordManifest BY <1>17 DEF RecordManifest
<1>18. CASE RecordModels BY <1>18 DEF RecordModels
<1>19. ASSUME NEW b \in Bundles, Prepare(b)
      PROVE due /\ UNCHANGED <<bundle, now, manifest, split>>
    BY <1>19 DEF Prepare
<1>20. ASSUME NEW b \in Bundles, MetadataLost(b)
      PROVE due /\ UNCHANGED <<bundle, now, manifest, split>>
    BY <1>20 DEF MetadataLost
<1>21. CASE MakeOutput BY <1>21 DEF MakeOutput
<1>22. ASSUME NEW b \in Bundles, NEW g \in Groups, Score(b, g)
      PROVE due /\ UNCHANGED <<bundle, now, manifest, split>>
    BY <1>22 DEF Score
<1>23. CASE VerifyAgain BY <1>23 DEF VerifyAgain
<1>24. CASE CompareManifest BY <1>24 DEF CompareManifest
<1>25. CASE CompareSource BY <1>25 DEF CompareSource
<1>26. CASE CompareModels BY <1>26 DEF CompareModels
<1>27. CASE Publish BY <1>27 DEF Publish
<1>28. CASE Untouched BY <1>28 DEF Untouched
<1>29. QED
    BY StepKinds, <1>1, <1>2, <1>3, <1>4, <1>5, <1>6, <1>7, <1>8, <1>9, <1>10,
       <1>11, <1>12, <1>13, <1>14, <1>15, <1>16, <1>17, <1>18, <1>19, <1>20,
       <1>21, <1>22, <1>23, <1>24, <1>25, <1>26, <1>27, <1>28
    DEF Campaign, Evaluate, Surroundings, Hashing

\* On a dataset that fits, the manifest lists the bundles of every directory, in
\* the version that is there.
LEMMA ManifestFits ==
    ASSUME FileTypes, StillFit
    PROVE  /\ \A b \in Bundles : bundle[b] # "none" => b \in Listed(manifest)
           /\ \A b \in Listed(manifest) : b \in Bundles /\ manifest[b] = now[b]
           /\ Listed(manifest) # {}
<1>1. \A b \in Bundles : now[b] # Never BY InputsDiffer DEF FileTypes, Never
<1>2. \A b \in Bundles : manifest[b] = IF b \in Complete THEN now[b] ELSE Never
  BY DEF StillFit, ManifestNow
<1>3. \A b \in Bundles : bundle[b] # "none" => b \in Complete
  BY DEF StillFit, FileTypes, Complete
<1>4. QED BY <1>1, <1>2, <1>3 DEF Listed, StillFit

\* What a pass with current hashes has compared is what was frozen.
LEMMA FreezeCompares ==
    ASSUME FileTypes, PassTypes, Phases, BundlesAreHashed, StillFit, HashesAreCurrent,
           FrozenForTest, stage["eval"] \in {"frozen1", "frozen2"}, step["eval"] = "hashed"
    PROVE  SameAsFrozen
<1>1. FrozenAgrees BY DEF FrozenForTest, StillFit
<1>2. /\ listed["eval"] = manifest
      /\ \A b \in Listed(manifest) : seen["eval"][b] = now[b]
      /\ seen["eval"][Models] = now[Models] /\ seen["eval"][Source] = now[Source]
      /\ seen["eval"][Settings] = now[Models]
  BY DEF HashesAreCurrent, Hashed
<1>3. \A b \in Bundles : seen["eval"][b] = manifest[b]
  <2>1. \A b \in Listed(manifest) : seen["eval"][b] = manifest[b] BY <1>2, ManifestFits
  <2>2. \A b \in Bundles : seen["eval"][b] # Never => seen["eval"][b] = manifest[b]
    BY <1>2 DEF BundlesAreHashed, Hashed
  <2>3. \A b \in Bundles : b \notin Listed(manifest) => manifest[b] = Never BY DEF Listed
  <2>4. QED BY <2>1, <2>2, <2>3
<1>4. \A i \in FrozenInputs : seen["eval"][i] = frozen.hashes[i]
  BY <1>1, <1>2, <1>3, InputsDiffer, EvaluationAssumption DEF FrozenAgrees, FrozenInputs
<1>5. QED BY <1>1, <1>2, <1>4 DEF FrozenAgrees, SameAsFrozen

\* An evaluation that is due is refused by none of its checks.
LEMMA GoesOn ==
    ASSUME FileTypes, StageTypes, PassTypes, RecordTypes, Phases, ListsComplete,
           BundlesAreHashed, StillFit, HashesAreCurrent, RecordIsCurrent, FrozenForTest,
           stage["eval"] \in Started, [Next]_vars
    PROVE  stage'["eval"] \in Started
<1> USE DEF Started, Scoring, StageTypes, Processes, Go, Refuse, Call, vars,
    files, passes, plan, product, history
<1>1. CASE WriteManifest BY <1>1 DEF WriteManifest
<1>2. ASSUME NEW b \in Bundles, RunBundle(b) PROVE stage'["eval"] \in Started
    BY <1>2 DEF RunBundle
<1>3. ASSUME NEW b \in Bundles, AbortCampaign(b) PROVE stage'["eval"] \in Started
    BY <1>3 DEF AbortCampaign
<1>4. CASE RewriteManifest BY <1>4 DEF RewriteManifest
<1>5. ASSUME NEW i \in Inputs, Edit(i) PROVE stage'["eval"] \in Started
    BY <1>5 DEF Edit
<1>6. CASE StartEvaluation BY <1>6 DEF StartEvaluation
<1>7. CASE ReadSettings("eval") BY <1>7 DEF ReadSettings, Phases, Passing, Hashed
<1>8. CASE ReadManifest("eval")
  <2>1. Listed(manifest) # {} BY ManifestFits
  <2>2. QED BY <1>8, <2>1 DEF ReadManifest
<1>9. ASSUME NEW b \in Bundles, VerifyBundle("eval", b)
      PROVE stage'["eval"] \in Started
  <2>1. b \in Listed(listed["eval"]) /\ step["eval"] = "bundles"
    BY <1>9 DEF VerifyBundle, IsNext
  <2>2. listed["eval"][b] = now[b]
    BY <2>1, ManifestFits DEF HashesAreCurrent, Hashed
  <2>3. QED BY <1>9, <2>2 DEF VerifyBundle
<1>10. CASE BundlesVerified("eval")
  <2>1. step["eval"] = "bundles" /\ listed["eval"] = manifest
    BY <1>10 DEF BundlesVerified, HashesAreCurrent, Hashed
  <2>2. AllListed("eval") BY <2>1, ManifestFits DEF AllListed
  <2>3. CASE stage["eval"] = "first"
    <3>1. {b \in Listed(listed["eval"]) : OfSplit(b, split)} # {}
      BY <2>1 DEF StillFit
    <3>2. QED BY <1>10, <2>2, <2>3, <3>1 DEF BundlesVerified
  <2>4. CASE stage["eval"] = "last" BY <1>10, <2>2, <2>4 DEF BundlesVerified
  <2>5. CASE stage["eval"] \in {"frozen1", "frozen2"}
    <3>1. split = "test" BY <2>5 DEF FrozenForTest
    <3>2. Listed(listed["eval"]) \cap Test # {}
      BY <2>1, <3>1 DEF StillFit, OfSplit
    <3>3. QED BY <1>10, <2>2, <2>5, <3>2 DEF BundlesVerified
  <2>6. QED BY <2>1, <2>3, <2>4, <2>5 DEF Phases, Passing, Hashed
<1>11. CASE HashModels("eval") BY <1>11 DEF HashModels, Phases, Passing, Hashed, See
<1>12. CASE HashSource("eval") BY <1>12 DEF HashSource, Phases, Passing, Hashed
<1>13. CASE ReadFrozen
  <2>1. frozen.state = "whole" BY <1>13 DEF ReadFrozen, FrozenForTest, StillFit, FrozenAgrees
  <2>2. QED BY <1>13, <2>1 DEF ReadFrozen
<1>14. CASE CompareFrozen
  <2>1. SameAsFrozen BY <1>14, FreezeCompares DEF CompareFrozen
  <2>2. QED BY <1>14, <2>1 DEF CompareFrozen
<1>15. CASE LoadModels BY <1>15 DEF LoadModels
<1>16. CASE RecordSource BY <1>16 DEF RecordSource
<1>17. CASE RecordManifest BY <1>17 DEF RecordManifest
<1>18. CASE RecordModels BY <1>18 DEF RecordModels
<1>19. ASSUME NEW b \in Bundles, Prepare(b) PROVE stage'["eval"] \in Started
  <2>1. now[Source] \notin TooLong BY DEF StillFit
  <2>2. QED BY <1>19, <2>1 DEF Prepare
<1>20. ASSUME NEW b \in Bundles, MetadataLost(b) PROVE stage'["eval"] \in Started
  <2>1. stage["eval"] = "preparing" /\ b \in entries /\ now[b] # seen["eval"][b]
    BY <1>20 DEF MetadataLost, IsNext
  <2>2. b \in Listed(manifest) BY <2>1 DEF RecordIsCurrent
  <2>3. QED BY <2>1, <2>2 DEF RecordIsCurrent
<1>21. CASE MakeOutput
  <2>1. ~out BY <1>21 DEF MakeOutput, StillFit
  <2>2. QED BY <1>21, <2>1 DEF MakeOutput
<1>22. ASSUME NEW b \in Bundles, NEW g \in Groups, Score(b, g)
      PROVE stage'["eval"] \in Started
    BY <1>22 DEF Score
<1>23. CASE VerifyAgain BY <1>23 DEF VerifyAgain
<1>24. CASE CompareManifest
  <2>1. SameManifest BY <1>24 DEF CompareManifest, SameManifest, RecordIsCurrent
  <2>2. QED BY <1>24, <2>1 DEF CompareManifest
<1>25. CASE CompareSource
  <2>1. now[Source] = recorded.source BY <1>25 DEF CompareSource, RecordIsCurrent
  <2>2. QED BY <1>25, <2>1 DEF CompareSource
<1>26. CASE CompareModels
  <2>1. now[Models] = recorded.models BY <1>26 DEF CompareModels, RecordIsCurrent
  <2>2. QED BY <1>26, <2>1 DEF CompareModels
<1>27. CASE Publish BY <1>27 DEF Publish
<1>28. CASE Untouched BY <1>28 DEF Untouched
<1>29. QED
    BY StepKinds, <1>1, <1>2, <1>3, <1>4, <1>5, <1>6, <1>7, <1>8, <1>9, <1>10,
       <1>11, <1>12, <1>13, <1>14, <1>15, <1>16, <1>17, <1>18, <1>19, <1>20,
       <1>21, <1>22, <1>23, <1>24, <1>25, <1>26, <1>27, <1>28
    DEF Campaign, Evaluate, Surroundings, Hashing

\* The output directory is made when the last bundle is prepared.
LEMMA OutputIsLate ==
    ASSUME StageTypes, PassTypes, Phases,
           stage["eval"] \in Started, stage'["eval"] \in Started \ Scoring, [Next]_vars
    PROVE  stage["eval"] \notin Scoring /\ UNCHANGED out
<1> USE DEF Started, Scoring, StageTypes, Processes, Go, Refuse, Call, vars,
    files, passes, plan, product, history
<1>1. CASE WriteManifest BY <1>1 DEF WriteManifest
<1>2. ASSUME NEW b \in Bundles, RunBundle(b)
      PROVE stage["eval"] \notin Scoring /\ UNCHANGED out
    BY <1>2 DEF RunBundle
<1>3. ASSUME NEW b \in Bundles, AbortCampaign(b)
      PROVE stage["eval"] \notin Scoring /\ UNCHANGED out
    BY <1>3 DEF AbortCampaign
<1>4. CASE RewriteManifest BY <1>4 DEF RewriteManifest
<1>5. ASSUME NEW i \in Inputs, Edit(i)
      PROVE stage["eval"] \notin Scoring /\ UNCHANGED out
    BY <1>5 DEF Edit
<1>6. CASE StartEvaluation BY <1>6 DEF StartEvaluation
<1>7. CASE ReadSettings("eval") BY <1>7 DEF ReadSettings, Phases, Passing, Hashed
<1>8. CASE ReadManifest("eval") BY <1>8 DEF ReadManifest, Phases, Passing, Hashed
<1>9. ASSUME NEW b \in Bundles, VerifyBundle("eval", b)
      PROVE stage["eval"] \notin Scoring /\ UNCHANGED out
    BY <1>9 DEF VerifyBundle, Phases, Passing, Hashed, See
<1>10. CASE BundlesVerified("eval")
    BY <1>10 DEF BundlesVerified, Phases, Passing, Hashed
<1>11. CASE HashModels("eval") BY <1>11 DEF HashModels, Phases, Passing, Hashed, See
<1>12. CASE HashSource("eval") BY <1>12 DEF HashSource, Phases, Passing, Hashed
<1>13. CASE ReadFrozen BY <1>13 DEF ReadFrozen
<1>14. CASE CompareFrozen BY <1>14 DEF CompareFrozen
<1>15. CASE LoadModels BY <1>15 DEF LoadModels
<1>16. CASE RecordSource BY <1>16 DEF RecordSource
<1>17. CASE RecordManifest BY <1>17 DEF RecordManifest
<1>18. CASE RecordModels BY <1>18 DEF RecordModels
<1>19. ASSUME NEW b \in Bundles, Prepare(b)
      PROVE stage["eval"] \notin Scoring /\ UNCHANGED out
    BY <1>19 DEF Prepare
<1>20. ASSUME NEW b \in Bundles, MetadataLost(b)
      PROVE stage["eval"] \notin Scoring /\ UNCHANGED out
    BY <1>20 DEF MetadataLost
<1>21. CASE MakeOutput BY <1>21 DEF MakeOutput
<1>22. ASSUME NEW b \in Bundles, NEW g \in Groups, Score(b, g)
      PROVE stage["eval"] \notin Scoring /\ UNCHANGED out
    BY <1>22 DEF Score
<1>23. CASE VerifyAgain BY <1>23 DEF VerifyAgain
<1>24. CASE CompareManifest BY <1>24 DEF CompareManifest
<1>25. CASE CompareSource BY <1>25 DEF CompareSource
<1>26. CASE CompareModels BY <1>26 DEF CompareModels
<1>27. CASE Publish BY <1>27 DEF Publish
<1>28. CASE Untouched BY <1>28 DEF Untouched
<1>29. QED
    BY StepKinds, <1>1, <1>2, <1>3, <1>4, <1>5, <1>6, <1>7, <1>8, <1>9, <1>10,
       <1>11, <1>12, <1>13, <1>14, <1>15, <1>16, <1>17, <1>18, <1>19, <1>20,
       <1>21, <1>22, <1>23, <1>24, <1>25, <1>26, <1>27, <1>28
    DEF Campaign, Evaluate, Surroundings, Hashing

\* While nothing is changed, everything goes on to fit.
LEMMA StillFitStep ==
    ASSUME FileTypes, StageTypes, PassTypes, RecordTypes, Phases, StillFit,
           stage["eval"] \in Started, stage'["eval"] \in Started,
           UNCHANGED <<bundle, now, manifest, split>>, [Next]_vars
    PROVE  StillFit'
<1>1. ManifestNow' = ManifestNow BY DEF ManifestNow, Complete
<1>2. Listed(manifest)' = Listed(manifest) BY DEF Listed
<1>3. split = "test" => FrozenAgrees'
  <2> SUFFICES ASSUME split = "test" PROVE FrozenAgrees' OBVIOUS
  <2>1. FrozenAgrees BY DEF StillFit
  <2>2. UNCHANGED frozen BY <2>1, FreezeIsLast
  <2>3. QED BY <2>1, <2>2 DEF FrozenAgrees
<1>4. stage'["eval"] \notin Scoring => ~out' BY OutputIsLate DEF StillFit
<1>5. QED BY <1>1, <1>2, <1>3, <1>4 DEF StillFit

\* While nothing is changed, what is hashed is what is there.
LEMMA HashesAreCurrentStep ==
    ASSUME StageTypes, PassTypes, Phases, HashesAreCurrent,
           UNCHANGED <<now, manifest>>, [Next]_vars
    PROVE  HashesAreCurrent'
<1> USE InputsDiffer DEF HashesAreCurrent, PassTypes, Versions, Hashed, Listed,
    StageTypes, Processes, Go, Refuse, Call, vars, files, passes, plan, product,
    history
<1>1. CASE WriteManifest BY <1>1 DEF WriteManifest
<1>2. ASSUME NEW b \in Bundles, RunBundle(b) PROVE HashesAreCurrent'
    BY <1>2 DEF RunBundle
<1>3. ASSUME NEW b \in Bundles, AbortCampaign(b) PROVE HashesAreCurrent'
    BY <1>3 DEF AbortCampaign
<1>4. CASE RewriteManifest BY <1>4 DEF RewriteManifest
<1>5. ASSUME NEW i \in Inputs, Edit(i) PROVE HashesAreCurrent' BY <1>5 DEF Edit
<1>6. CASE StartEvaluation BY <1>6 DEF StartEvaluation
<1>7. CASE ReadSettings("eval") BY <1>7 DEF ReadSettings, Phases, Passing, Hashed
<1>8. CASE ReadManifest("eval")
  <2>1. CASE Listed(manifest) # {}
    <3>1. listed'["eval"] = manifest /\ step'["eval"] = "bundles" /\ UNCHANGED stage
      BY <1>8, <2>1 DEF ReadManifest
    <3>2. \A i \in Inputs \cup {Settings} :
            seen'["eval"][i] = IF i \in Bundles THEN Never ELSE seen["eval"][i]
      BY <1>8, <2>1 DEF ReadManifest, Unseen
    <3>3. Settings \notin Bundles OBVIOUS
    <3>4. step["eval"] = "manifest" BY <1>8 DEF ReadManifest
    <3>5. QED BY <3>1, <3>2, <3>3, <3>4
  <2>2. CASE Listed(manifest) = {}
    <3>1. stage'["eval"] = "refused" /\ step'["eval"] = "none" BY <1>8, <2>2 DEF ReadManifest
    <3>2. QED BY <3>1
  <2>3. QED BY <2>1, <2>2
<1>9. ASSUME NEW b \in Bundles, VerifyBundle("eval", b) PROVE HashesAreCurrent'
    BY <1>9 DEF VerifyBundle, Phases, Passing, Hashed, See
<1>10. CASE BundlesVerified("eval")
  <2>1. step["eval"] = "bundles" /\ UNCHANGED <<seen, listed>> BY <1>10 DEF BundlesVerified
  <2>2. \A b \in Listed(manifest) : seen["eval"][b] = now[b]
    BY <1>10, <2>1 DEF BundlesVerified
  <2>3. \/ step'["eval"] \in {"none", "frozen", "manifest hash"}
        \/ step'["eval"] = "models" /\ UNCHANGED stage
    BY <1>10 DEF BundlesVerified
  <2>4. QED BY <2>1, <2>2, <2>3
<1>11. CASE HashModels("eval") BY <1>11 DEF HashModels, Phases, Passing, Hashed, See
<1>12. CASE HashSource("eval")
  <2>1. step["eval"] = "source" /\ step'["eval"] = "hashed" /\ UNCHANGED <<stage, listed>>
        /\ seen' = [seen EXCEPT !["eval"][Source] = now[Source]]
    BY <1>12 DEF HashSource, SourceHash
  <2>2. \A i \in Inputs \cup {Settings} :
          seen'["eval"][i] = IF i = Source THEN now[Source] ELSE seen["eval"][i]
    BY <2>1
  <2>3. \A b \in Listed(manifest) : b \in Inputs /\ b # Source OBVIOUS
  <2>4. Models # Source /\ Settings # Source OBVIOUS
  <2>5. QED BY <2>1, <2>2, <2>3, <2>4
<1>13. CASE ReadFrozen BY <1>13 DEF ReadFrozen
<1>14. CASE CompareFrozen BY <1>14 DEF CompareFrozen
<1>15. CASE LoadModels BY <1>15 DEF LoadModels
<1>16. CASE RecordSource BY <1>16 DEF RecordSource
<1>17. CASE RecordManifest BY <1>17 DEF RecordManifest
<1>18. CASE RecordModels BY <1>18 DEF RecordModels
<1>19. ASSUME NEW b \in Bundles, Prepare(b) PROVE HashesAreCurrent'
    BY <1>19 DEF Prepare
<1>20. ASSUME NEW b \in Bundles, MetadataLost(b) PROVE HashesAreCurrent'
    BY <1>20 DEF MetadataLost
<1>21. CASE MakeOutput BY <1>21 DEF MakeOutput
<1>22. ASSUME NEW b \in Bundles, NEW g \in Groups, Score(b, g) PROVE HashesAreCurrent'
    BY <1>22 DEF Score
<1>23. CASE VerifyAgain BY <1>23 DEF VerifyAgain
<1>24. CASE CompareManifest BY <1>24 DEF CompareManifest
<1>25. CASE CompareSource BY <1>25 DEF CompareSource
<1>26. CASE CompareModels BY <1>26 DEF CompareModels
<1>27. CASE Publish BY <1>27 DEF Publish
<1>28. CASE Untouched BY <1>28 DEF Untouched
<1>29. QED
    BY StepKinds, <1>1, <1>2, <1>3, <1>4, <1>5, <1>6, <1>7, <1>8, <1>9, <1>10,
       <1>11, <1>12, <1>13, <1>14, <1>15, <1>16, <1>17, <1>18, <1>19, <1>20,
       <1>21, <1>22, <1>23, <1>24, <1>25, <1>26, <1>27, <1>28
    DEF Campaign, Evaluate, Surroundings, Hashing

\* While nothing is changed, what is recorded is what is there.
LEMMA RecordIsCurrentStep ==
    ASSUME StageTypes, PassTypes, RecordTypes, Phases, HashesAreCurrent,
           RecordIsCurrent, stage["eval"] \in Started, UNCHANGED <<now, manifest, split>>,
           stage'["eval"] \in Started, ~StartEvaluation, [Next]_vars
    PROVE  RecordIsCurrent'
<1> USE DEF RecordIsCurrent, Started, Scoring, StageTypes, Processes, Go,
    Refuse, Call, vars, files, passes, plan, product, history
<1>1. CASE WriteManifest BY <1>1 DEF WriteManifest
<1>2. ASSUME NEW b \in Bundles, RunBundle(b) PROVE RecordIsCurrent'
    BY <1>2 DEF RunBundle
<1>3. ASSUME NEW b \in Bundles, AbortCampaign(b) PROVE RecordIsCurrent'
    BY <1>3 DEF AbortCampaign
<1>4. CASE RewriteManifest BY <1>4 DEF RewriteManifest
<1>5. ASSUME NEW i \in Inputs, Edit(i) PROVE RecordIsCurrent' BY <1>5 DEF Edit
<1>6. CASE StartEvaluation BY <1>6 DEF StartEvaluation
<1>7. CASE ReadSettings("eval") BY <1>7 DEF ReadSettings, Phases, Passing, Hashed
<1>8. CASE ReadManifest("eval") BY <1>8 DEF ReadManifest, Phases, Passing, Hashed
<1>9. ASSUME NEW b \in Bundles, VerifyBundle("eval", b) PROVE RecordIsCurrent'
    BY <1>9 DEF VerifyBundle, Phases, Passing, Hashed, See
<1>10. CASE BundlesVerified("eval")
  <2>1. /\ step["eval"] = "bundles" /\ listed["eval"] = manifest
        /\ UNCHANGED <<seen, recorded>>
    BY <1>10 DEF BundlesVerified, HashesAreCurrent, Hashed
  <2>2. \A b \in Listed(manifest) : b \in Bundles /\ seen["eval"][b] = now[b]
    BY <1>10, <2>1 DEF BundlesVerified, HashesAreCurrent, Listed
  <2>3. CASE stage["eval"] = "first"
    <3>1. /\ stage'["eval"] \in {"frozen1", "load"}
          /\ entries' = {b \in Listed(manifest) : OfSplit(b, split)}
      BY <1>10, <2>1, <2>3 DEF BundlesVerified
    <3>2. Listed(manifest)' = Listed(manifest) BY DEF Listed
    <3>3. entries' = {b \in Listed(manifest)' : OfSplit(b, split')} BY <3>1, <3>2
    <3>4. QED BY <2>1, <2>2, <3>1, <3>2, <3>3
  <2>4. CASE stage["eval"] # "first"
    <3>1. UNCHANGED entries BY <1>10, <2>4 DEF BundlesVerified
    <3>2. \/ UNCHANGED stage
          \/ stage["eval"] = "last" /\ stage'["eval"] = "comparing"
      BY <1>10, <2>4 DEF BundlesVerified
    <3>3. stage["eval"] \in {"last", "frozen1", "frozen2"}
      BY <2>1, <2>4 DEF Phases, Passing, Hashed
    <3>4. Listed(manifest)' = Listed(manifest) BY DEF Listed
    <3>5. QED BY <2>1, <3>1, <3>2, <3>3, <3>4
  <2>5. QED BY <2>3, <2>4
<1>11. CASE HashModels("eval") BY <1>11 DEF HashModels, Phases, Passing, Hashed, See
<1>12. CASE HashSource("eval") BY <1>12 DEF HashSource, Phases, Passing, Hashed
<1>13. CASE ReadFrozen BY <1>13 DEF ReadFrozen
<1>14. CASE CompareFrozen
  <2>1. \A b \in Listed(manifest) : seen["eval"][b] = now[b]
    BY <1>14 DEF CompareFrozen, HashesAreCurrent, Hashed
  <2>2. Listed(manifest)' = Listed(manifest) BY DEF Listed
  <2>3. stage["eval"] \in {"frozen1", "frozen2"} /\ stage'["eval"] \in {"load", "publish"}
    BY <1>14 DEF CompareFrozen
  <2>4. UNCHANGED <<entries, recorded, seen>> BY <1>14 DEF CompareFrozen
  <2>5. QED BY <2>1, <2>2, <2>3, <2>4
<1>15. CASE LoadModels BY <1>15 DEF LoadModels
<1>16. CASE RecordSource
  <2>1. recorded'.source = now[Source] BY <1>16 DEF RecordSource, RecordTypes
  <2>2. Listed(manifest)' = Listed(manifest) BY DEF Listed
  <2>3. stage["eval"] = "recording" /\ step'["eval"] = "manifest hash"
        /\ UNCHANGED <<stage, entries, seen>>
    BY <1>16 DEF RecordSource
  <2>4. QED BY <2>1, <2>2, <2>3
<1>17. CASE RecordManifest
  <2>1. recorded'.source = recorded.source /\ recorded'.manifest = manifest
    BY <1>17 DEF RecordManifest, RecordTypes
  <2>2. Listed(manifest)' = Listed(manifest) BY DEF Listed
  <2>3. stage["eval"] = "recording" /\ step["eval"] = "manifest hash"
        /\ UNCHANGED <<stage, entries, seen>>
    BY <1>17 DEF RecordManifest
  <2>4. QED BY <2>1, <2>2, <2>3
<1>18. CASE RecordModels
  <2>1. /\ recorded'.source = recorded.source /\ recorded'.manifest = recorded.manifest
        /\ recorded'.models = now[Models]
    BY <1>18 DEF RecordModels, RecordTypes
  <2>2. Listed(manifest)' = Listed(manifest) BY DEF Listed
  <2>3. stage["eval"] = "recording" /\ step["eval"] = "models hash"
        /\ stage'["eval"] = "preparing" /\ UNCHANGED <<entries, seen>>
    BY <1>18 DEF RecordModels
  <2>4. QED BY <2>1, <2>2, <2>3
<1>19. ASSUME NEW b \in Bundles, Prepare(b) PROVE RecordIsCurrent'
    BY <1>19 DEF Prepare
<1>20. ASSUME NEW b \in Bundles, MetadataLost(b) PROVE RecordIsCurrent'
    BY <1>20 DEF MetadataLost
<1>21. CASE MakeOutput BY <1>21 DEF MakeOutput
<1>22. ASSUME NEW b \in Bundles, NEW g \in Groups, Score(b, g) PROVE RecordIsCurrent'
    BY <1>22 DEF Score
<1>23. CASE VerifyAgain BY <1>23 DEF VerifyAgain
<1>24. CASE CompareManifest BY <1>24 DEF CompareManifest
<1>25. CASE CompareSource BY <1>25 DEF CompareSource
<1>26. CASE CompareModels BY <1>26 DEF CompareModels
<1>27. CASE Publish BY <1>27 DEF Publish
<1>28. CASE Untouched BY <1>28 DEF Untouched
<1>29. QED
    BY StepKinds, <1>1, <1>2, <1>3, <1>4, <1>5, <1>6, <1>7, <1>8, <1>9, <1>10,
       <1>11, <1>12, <1>13, <1>14, <1>15, <1>16, <1>17, <1>18, <1>19, <1>20,
       <1>21, <1>22, <1>23, <1>24, <1>25, <1>26, <1>27, <1>28
    DEF Campaign, Evaluate, Surroundings, Hashing

\* Nothing but a change of a file or the freeze makes a refusal due.
LEMMA DueInvStep ==
    ASSUME IInv, DueInv, [Next]_vars PROVE DueInv'
<1> USE DEF IInv, TypeOK
<1>1. FrozenForTest' BY FrozenForTestStep DEF DueInv
<1>2. ASSUME due', StartEvaluation
      PROVE  stage'["eval"] \in Started /\ StillFit' /\ HashesAreCurrent' /\ RecordIsCurrent'
  BY <1>2, StartIsDue
<1>3. ASSUME due', ~StartEvaluation
      PROVE  stage'["eval"] \in Started /\ StillFit' /\ HashesAreCurrent' /\ RecordIsCurrent'
  <2>1. due /\ UNCHANGED <<bundle, now, manifest, split>>
    BY <1>3, DueIsKept DEF DueInv
  <2>2. /\ FrozenForTest /\ stage["eval"] \in Started /\ StillFit
        /\ HashesAreCurrent /\ RecordIsCurrent
    BY <2>1 DEF DueInv
  <2>3. stage'["eval"] \in Started BY <2>2, GoesOn
  <2>4. StillFit' BY <2>1, <2>2, <2>3, StillFitStep
  <2>5. HashesAreCurrent' BY <2>1, <2>2, HashesAreCurrentStep
  <2>6. RecordIsCurrent' BY <1>3, <2>1, <2>2, <2>3, RecordIsCurrentStep
  <2>7. QED BY <2>3, <2>4, <2>5, <2>6
<1>4. QED BY <1>1, <1>2, <1>3 DEF DueInv

\* At the start nothing has been scored, published or found due.
LEMMA InitEndInv == Init => ScoresInv /\ DueInv
<1> SUFFICES ASSUME Init PROVE ScoresInv /\ DueInv
    OBVIOUS
<1> USE DEF Init, Processes
<1>1. RowsInOrder BY DEF RowsInOrder, Scoring
<1>2. RowsFit BY DEF RowsFit, RowFits
<1>3. PromptsPlanned BY DEF PromptsPlanned
<1>4. MetricsAreLast BY DEF MetricsAreLast
<1>5. ScoresAddUp BY DEF ScoresAddUp
<1>6. DueInv BY DEF DueInv, FrozenForTest
<1>7. QED BY <1>1, <1>2, <1>3, <1>4, <1>5, <1>6 DEF ScoresInv

\* Every step keeps both.
LEMMA StepEndInv == IInv /\ ScoresInv /\ DueInv /\ [Next]_vars => ScoresInv' /\ DueInv'
<1> SUFFICES ASSUME IInv, ScoresInv, DueInv, [Next]_vars PROVE ScoresInv' /\ DueInv'
    OBVIOUS
<1> USE DEF IInv, TypeOK, ScoresInv
<1>1. RowsInOrder' BY RowsInOrderStep
<1>2. RowsFit' BY RowsFitStep
<1>3. PromptsPlanned' BY PromptsPlannedStep
<1>4. MetricsAreLast' BY MetricsAreLastStep
<1>5. ScoresAddUp' BY ScoresAddUpStep
<1>6. DueInv' BY DueInvStep
<1>7. QED BY <1>1, <1>2, <1>3, <1>4, <1>5, <1>6

\* Both hold in every reachable state.
LEMMA EndInductive == Spec => [](ScoresInv /\ DueInv)
BY Inductive, InitEndInv, StepEndInv, PTL DEF Spec

\* An evaluation is refused only for a reason: a dataset that is complete, a
\* freeze that agrees, a new directory and prompts that fit, none of them
\* changed meanwhile, go through whatever is interleaved.  No provider is asked
\* before every bundle of the split has been prepared.
THEOREM EvaluationsAreNotLost == Spec => []RefusalsAreDue
<1>1. ScoresInv /\ DueInv => RefusalsAreDue
  BY DEF ScoresInv, RowsInOrder, DueInv, RefusalsAreDue, Started, Scoring
<1>2. QED BY EndInductive, <1>1, PTL

\* In the published metrics every bundle of the split is counted once in every
\* group, the groups are compared on bundles that were loaded, and every row
\* rests on prompts that preflight has planned.
THEOREM PublishedCountsAddUp == Spec => []ScoresAddUp
<1>1. ScoresInv => ScoresAddUp BY DEF ScoresInv
<1>2. QED BY EndInductive, <1>1, PTL

=============================================================================
