--------------------------- MODULE ModelArmProofs ---------------------------
(***************************************************************************)
(* What holds of a diagnosis for every budget, every limit and every size: *)
(* its calls are bounded, its requests are spaced, its messages keep the   *)
(* plan of preflight, no worker outlives an answered search, and the trace *)
(* has every completion.                                                   *)
(***************************************************************************)
EXTENDS ModelArm, NatSets, TLAPS

Requesting == {"limit", "post", "answered"}
Rounding   == {"tools"} \cup SearchPhases
Judging    == {"judge"} \cup Rounding
Over       == {"done", "raised"}

\* The constants of the arm, and where a tool round can be.
Stages ==
    /\ arm \in {"llm_raw", "llm_tools"} /\ context \in Nat
    /\ arm = "llm_raw" => rounds = 0
    /\ pc \in Requesting \cup Judging => (offered => Offers)
    /\ pc \in Rounding => offered
    /\ pc \in SearchPhases => left > 0

\* Every completion so far has ended a tool round, asked for the repair, or is
\* being judged.
CallsCounted ==
    pc \notin Over =>
      calls <= rounds + (IF repaired THEN 1 ELSE 0) + (IF pc \in Judging THEN 1 ELSE 0)

\* The next request starts no earlier than Gap after the last one.
Spaced == since + wait >= Gap /\ RequestsSpaced

\* What the messages may take: the plan, the calls and stubs of an omission,
\* the closing message after the last round, and one repair message.
ToolSize == IF arm = "llm_tools" THEN Definitions ELSE 0
Closing  == IF rounds = MaxRounds THEN Exhausted ELSE 0
Room ==
    \E e \in ErrorSizes :
      size + ToolSize <= InitialEstimate + HistoryBudget + spill + Closing
                         + (IF repaired THEN e ELSE 0)

Planned ==
    /\ pc = "start" => size = Initial /\ ~repaired
    /\ pc \notin {"start", "raised"} => InitialEstimate + Reserve + MaxTokens <= context
    /\ spill # 0 => rounds = MaxRounds
    /\ pc \notin {"start"} \cup Over => Room

(* The natural numbers among the constants. *)
LEMMA ConstantsAreNat ==
    /\ MaxRounds \in Nat /\ Retries \in Nat /\ Gap \in Nat /\ MaxTokens \in Nat
    /\ Initial \in Nat /\ Definitions \in Nat /\ History \in Nat /\ Reserve \in Nat
    /\ Exhausted \in Nat /\ Stub \in Nat
    /\ Durations \subseteq Nat /\ ContextLengths \subseteq Nat /\ ErrorSizes \subseteq Nat
    /\ AnswerSizes \subseteq Nat /\ OutputSizes \subseteq Nat /\ CallCounts \subseteq Nat
    /\ Usages \subseteq Nat
BY ArmAssumption

(* The sizes and counts of a completion are numbers. *)
LEMMA CompletionTypes ==
    ASSUME NEW c \in Completions \cup {NoAnswer}
    PROVE  /\ c.calls \in Nat /\ c.size \in Nat /\ c.tokens \in Nat \cup {Unknown}
           /\ c.kind \in {"length", "diagnosis", "other", "tools", "error"}
<1>1. CASE c \in Completions
  <2>1. (c.calls = 0 \/ c.calls \in CallCounts) /\ (c.size = 0 \/ c.size \in AnswerSizes)
        BY <1>1 DEF Completions
  <2>2. c.tokens \in Usages \/ c.tokens = Unknown BY <1>1 DEF Completions
  <2>3. c.kind \in {"length", "diagnosis", "other", "tools"} BY <1>1 DEF Completions
  <2>4. /\ \A n \in CallCounts : n \in Nat
        /\ \A n \in AnswerSizes : n \in Nat
        /\ \A n \in Usages : n \in Nat
        /\ 0 \in Nat
        BY ConstantsAreNat
  <2>5. c.calls \in Nat BY <2>1, <2>4, Zenon
  <2>6. c.size \in Nat BY <2>1, <2>4, Zenon
  <2>7. c.tokens \in Nat \cup {Unknown} BY <2>2, <2>4, Zenon
  <2>8. QED BY <2>3, <2>5, <2>6, <2>7
<1>2. CASE c = NoAnswer
  <2>1. c.calls \in Nat /\ c.size \in Nat BY <1>2 DEF NoAnswer
  <2>2. c.tokens = Unknown BY <1>2 DEF NoAnswer
  <2>3. c.kind = "error" BY <1>2 DEF NoAnswer
  <2>4. QED BY <2>1, <2>2, <2>3
<1>3. QED BY <1>1, <1>2

(* The product of two counts is a count. *)
LEMMA NatProduct == \A a, b \in Nat : a * b \in Nat
BY SMT

\* The type invariant, in parts: places and flags, numbers, records.
Places ==
    /\ pc \in {"start", "ask", "judge"} \cup Requesting \cup Rounding \cup Over
    /\ {repaired, offered, refused} \subseteq BOOLEAN
    /\ outcome \in Outcomes /\ (outcome = "none" <=> pc # "done")
    /\ search \in {"none", "rows", "failed", "timeout", "raise", "invalid"}

Numbers ==
    /\ size \in Nat /\ calls \in Nat /\ output \in Nat /\ spill \in Nat
    /\ rounds \in 0..MaxRounds /\ attempt \in 0..Retries /\ left \in 0..6
    /\ wait \in 0..Gap /\ since \in 0..Gap /\ spacing \in 0..Gap
    /\ tokens \in Nat \cup {Unknown}

Answers ==
    /\ answer \in Completions \cup {NoAnswer}
    /\ worker \in [alive : BOOLEAN, pipe : {"empty", "part", "all"}]

(* Places and flags keep their type. *)
LEMMA PlacesStep ==
    ASSUME Places, Stages, Answers, [Next]_vars PROVE Places'
<1> USE CompletionTypes DEF Places, Requesting, Rounding, Over, SearchPhases, Outcomes,
        fixed, plan, client, tool, result
<1>1. CASE Preflight BY <1>1 DEF Preflight
<1>2. CASE Ask
  <2>1. \/ Finish("CONTEXT_REJECTED") /\ refused' \in BOOLEAN /\ offered' = offered
        \/ /\ offered' \in BOOLEAN /\ refused' = refused
           /\ pc' \in {"limit", "answered"} /\ outcome' = outcome
    <3> DEFINE large == Estimate(Offers) > Largest
               over  == Estimate(Offers) + MaxTokens > context
    <3>1. CASE large \/ over
      <4>1. Finish("CONTEXT_REJECTED") /\ offered' = offered BY <1>2, <3>1, Zenon DEF Ask
      <4>2. refused' = (Estimate(Offers) <= Largest) BY <1>2, <3>1, Zenon DEF Ask
      <4>3. QED BY <4>1, <4>2
    <3>2. CASE ~(large \/ over)
      <4>1. /\ offered' = Offers /\ refused' = refused
            /\ pc' \in {"limit", "answered"} /\ outcome' = outcome
            BY <1>2, <3>2, Zenon DEF Ask
      <4>2. Offers \in BOOLEAN BY DEF Offers
      <4>3. QED BY <4>1, <4>2
    <3>3. QED BY <3>1, <3>2
  <2>2. pc = "ask" /\ repaired' = repaired /\ search' = search BY <1>2 DEF Ask
  <2>3. CASE Finish("CONTEXT_REJECTED") /\ refused' \in BOOLEAN /\ offered' = offered
    <3>1. pc' = "done" /\ outcome' = "CONTEXT_REJECTED" BY <2>3 DEF Finish
    <3>2. pc' \in {"start", "ask", "judge"} \cup Requesting \cup Rounding \cup Over
          BY <3>1
    <3>3. outcome' \in Outcomes /\ (outcome' = "none" <=> pc' # "done") BY <3>1
    <3>4. {repaired, offered, refused}' \subseteq BOOLEAN BY <2>2, <2>3
    <3>5. search' = search BY <2>2
    <3>6. QED BY <3>2, <3>3, <3>4, <3>5
  <2>4. CASE /\ offered' \in BOOLEAN /\ refused' = refused
             /\ pc' \in {"limit", "answered"} /\ outcome' = outcome
        BY <2>2, <2>4
  <2>5. QED BY <2>1, <2>3, <2>4
<1>3. CASE Limit BY <1>3 DEF Limit
<1>4. CASE PostFails BY <1>4 DEF PostFails
<1>5. CASE PostAnswers BY <1>5 DEF PostAnswers
<1>6. CASE Receive BY <1>6 DEF Receive
<1>7. CASE Judge
  <2>1. answer.kind \in DOMAIN Outcome => Outcome[answer.kind] \in {"TRUNCATED", "ERROR",
        "DIAGNOSED"}
        BY DEF Outcome
  <2>2. QED BY <1>7, <2>1 DEF Judge, Invalid, Finish
<1>8. CASE StartRound BY <1>8 DEF StartRound, Invalid, Finish
<1>9. CASE BadCall BY <1>9 DEF BadCall, Invalid, Finish
<1>10. CASE RunTool BY <1>10 DEF RunTool
<1>11. CASE EndRound BY <1>11 DEF EndRound
<1>12. CASE SearchRaises BY <1>12 DEF SearchRaises
<1>13. CASE StartSearch BY <1>13 DEF StartSearch
<1>14. CASE Poll BY <1>14 DEF Poll
<1>15. CASE Recv BY <1>15 DEF Recv
<1>16. CASE Reap BY <1>16 DEF Reap
<1>17. CASE EndSearch BY <1>17 DEF EndSearch
<1>18. CASE WorkerWrites BY <1>18 DEF WorkerWrites
<1>19. CASE WorkerWritesRest BY <1>19 DEF WorkerWritesRest
<1>20. CASE WorkerExits BY <1>20 DEF WorkerExits
<1>21. CASE UNCHANGED vars BY <1>21 DEF vars
<1>22. QED
    BY <1>1, <1>2, <1>3, <1>4, <1>5, <1>6, <1>7, <1>8, <1>9, <1>10, <1>11,
       <1>12, <1>13, <1>14, <1>15, <1>16, <1>17, <1>18, <1>19, <1>20, <1>21
    DEF Next, Run, Request
(* The answer and the worker keep their type. *)
LEMMA AnswersStep ==
    ASSUME Answers, [Next]_vars PROVE Answers'
<1> USE DEF Answers, fixed, plan, client, tool, result
<1>1. CASE Preflight BY <1>1 DEF Preflight
<1>2. CASE Ask BY <1>2 DEF Ask, Finish
<1>3. CASE Limit BY <1>3 DEF Limit
<1>4. CASE PostFails BY <1>4 DEF PostFails
<1>5. CASE PostAnswers BY <1>5 DEF PostAnswers
<1>6. CASE Receive BY <1>6 DEF Receive
<1>7. CASE Judge BY <1>7 DEF Judge, Invalid, Finish, Record
<1>8. CASE StartRound BY <1>8 DEF StartRound, Invalid, Finish, Record
<1>9. CASE BadCall BY <1>9 DEF BadCall, Invalid, Finish, Record
<1>10. CASE RunTool BY <1>10 DEF RunTool
<1>11. CASE EndRound BY <1>11 DEF EndRound, Record
<1>12. CASE SearchRaises BY <1>12 DEF SearchRaises
<1>13. CASE StartSearch BY <1>13 DEF StartSearch
<1>14. CASE Poll BY <1>14 DEF Poll
<1>15. CASE Recv BY <1>15 DEF Recv
<1>16. CASE Reap BY <1>16 DEF Reap
<1>17. CASE EndSearch BY <1>17 DEF EndSearch
<1>18. CASE WorkerWrites BY <1>18 DEF WorkerWrites
<1>19. CASE WorkerWritesRest BY <1>19 DEF WorkerWritesRest
<1>20. CASE WorkerExits BY <1>20 DEF WorkerExits
<1>21. CASE UNCHANGED vars BY <1>21 DEF vars
<1>22. QED
    BY <1>1, <1>2, <1>3, <1>4, <1>5, <1>6, <1>7, <1>8, <1>9, <1>10, <1>11,
       <1>12, <1>13, <1>14, <1>15, <1>16, <1>17, <1>18, <1>19, <1>20, <1>21
    DEF Next, Run, Request
(* Numbers keep their range. *)
LEMMA NumbersStep ==
    ASSUME Places, Numbers, Answers, Stages, [Next]_vars PROVE Numbers'
<1> USE ConstantsAreNat, CompletionTypes DEF Numbers, Answers, fixed, plan, client, tool,
        result
<1>1. CASE Preflight BY <1>1 DEF Preflight
<1>2. CASE Ask BY <1>2 DEF Ask, Finish
<1>3. CASE Limit BY <1>3 DEF Limit, NextWait, Least
<1>4. CASE PostFails BY <1>4 DEF PostFails, Pass, Least, TriesAgain
<1>5. CASE PostAnswers BY <1>5 DEF PostAnswers, Pass, Least
<1>6. CASE Receive BY <1>6 DEF Receive, Add
<1>7. CASE Judge BY <1>7 DEF Judge, Invalid, Finish
<1>8. CASE StartRound BY <1>8 DEF StartRound, Invalid, Finish
<1>9. CASE BadCall BY <1>9 DEF BadCall, Invalid, Finish
<1>10. CASE RunTool BY <1>10 DEF RunTool
<1>11. CASE EndRound
  <2>1. answer.size \in Nat /\ answer.calls * Stub \in Nat BY NatProduct
  <2>2. rounds < MaxRounds /\ pc = "tools"
        BY <1>11 DEF EndRound, Stages, Places, Offers, Rounding, Judging
  <2>3. rounds' \in 0..MaxRounds BY <1>11, <2>2 DEF EndRound, RoundsAfter
  <2>4. \E close \in {0, Exhausted} :
          \/ size' = size + (answer.size + answer.calls * Stub) + close
          \/ size' = size + (answer.size + output) + close
        BY <1>11 DEF EndRound, Added
  <2>5. spill' \in Nat BY <1>11, <2>1 DEF EndRound
  <2>6. /\ output' = 0
        /\ UNCHANGED <<calls, attempt, left, wait, since, spacing, tokens>>
        BY <1>11 DEF EndRound
  <2>7. size' \in Nat BY <2>1, <2>4
  <2>8. QED BY <2>3, <2>5, <2>6, <2>7
<1>12. CASE SearchRaises BY <1>12 DEF SearchRaises
<1>13. CASE StartSearch BY <1>13 DEF StartSearch
<1>14. CASE Poll BY <1>14 DEF Poll
<1>15. CASE Recv BY <1>15 DEF Recv
<1>16. CASE Reap BY <1>16 DEF Reap
<1>17. CASE EndSearch BY <1>17 DEF EndSearch, Stages, SearchPhases
<1>18. CASE WorkerWrites BY <1>18 DEF WorkerWrites
<1>19. CASE WorkerWritesRest BY <1>19 DEF WorkerWritesRest
<1>20. CASE WorkerExits BY <1>20 DEF WorkerExits
<1>21. CASE UNCHANGED vars BY <1>21 DEF vars
<1>22. QED
    BY <1>1, <1>2, <1>3, <1>4, <1>5, <1>6, <1>7, <1>8, <1>9, <1>10, <1>11,
       <1>12, <1>13, <1>14, <1>15, <1>16, <1>17, <1>18, <1>19, <1>20, <1>21
    DEF Next, Run, Request
(* A tool round runs only where one was offered. *)
LEMMA StagesStep ==
    ASSUME Places, Numbers, Stages, [Next]_vars PROVE Stages'
<1> USE ConstantsAreNat DEF Stages, Offers, Requesting, Rounding, Judging, Over,
        SearchPhases, fixed, plan, client, tool, result
<1>1. CASE Preflight BY <1>1 DEF Preflight
<1>2. CASE Ask BY <1>2 DEF Ask, Finish
<1>3. CASE Limit BY <1>3 DEF Limit
<1>4. CASE PostFails BY <1>4 DEF PostFails
<1>5. CASE PostAnswers BY <1>5 DEF PostAnswers
<1>6. CASE Receive BY <1>6 DEF Receive
<1>7. CASE Judge BY <1>7 DEF Judge, Invalid, Finish, ToolRound
<1>8. CASE StartRound BY <1>8 DEF StartRound, Invalid, Finish, ToolRound
<1>9. CASE BadCall BY <1>9 DEF BadCall, Invalid, Finish
<1>10. CASE RunTool BY <1>10 DEF RunTool, Numbers
<1>11. CASE EndRound BY <1>11 DEF EndRound
<1>12. CASE SearchRaises BY <1>12 DEF SearchRaises
<1>13. CASE StartSearch BY <1>13 DEF StartSearch
<1>14. CASE Poll BY <1>14 DEF Poll
<1>15. CASE Recv BY <1>15 DEF Recv
<1>16. CASE Reap BY <1>16 DEF Reap
<1>17. CASE EndSearch BY <1>17 DEF EndSearch, Numbers
<1>18. CASE WorkerWrites BY <1>18 DEF WorkerWrites
<1>19. CASE WorkerWritesRest BY <1>19 DEF WorkerWritesRest
<1>20. CASE WorkerExits BY <1>20 DEF WorkerExits
<1>21. CASE UNCHANGED vars BY <1>21 DEF vars
<1>22. QED
    BY <1>1, <1>2, <1>3, <1>4, <1>5, <1>6, <1>7, <1>8, <1>9, <1>10, <1>11,
       <1>12, <1>13, <1>14, <1>15, <1>16, <1>17, <1>18, <1>19, <1>20, <1>21
    DEF Next, Run, Request
(* The initial state has its type. *)
LEMMA InitialTypes ==
    ASSUME Init PROVE Places /\ Numbers /\ Answers /\ Stages
<1> USE DEF Init
<1>1. Places BY DEF Places, Outcomes
<1>2. Numbers BY ConstantsAreNat DEF Numbers
<1>3. Answers BY DEF Answers, NoWorker
<1>4. Stages BY ConstantsAreNat DEF Stages, Requesting, Rounding, Judging, SearchPhases
<1>5. QED BY <1>1, <1>2, <1>3, <1>4

(* Every variable keeps its type. *)
THEOREM ArmTypeCorrect == Spec => []TypeOK
<1> DEFINE Inv == Places /\ Numbers /\ Answers /\ Stages
<1>1. Init => Inv BY InitialTypes
<1>2. Inv /\ [Next]_vars => Inv'
  BY PlacesStep, NumbersStep, AnswersStep, StagesStep
<1>3. Inv => TypeOK
  <2> SUFFICES ASSUME Inv PROVE TypeOK OBVIOUS
  <2>1. /\ pc \in {"start", "ask", "limit", "post", "answered", "judge", "tools",
                   "done", "raised"} \cup SearchPhases
        BY DEF Places, Requesting, Rounding, Over
  <2>2. {size, calls, output, spill} \subseteq Nat BY DEF Numbers
  <2>3. QED BY <2>1, <2>2 DEF TypeOK, Places, Numbers, Answers
<1>4. QED BY <1>1, <1>2, <1>3, PTL DEF Spec

(* A completion is counted once it is judged. *)
LEMMA CallsStep ==
    ASSUME Places, Numbers, Stages, CallsCounted, CallsBounded,
        [Next]_vars PROVE CallsCounted' /\ CallsBounded'
<1> USE ConstantsAreNat DEF Places, Numbers, Stages, CallsCounted, CallsBounded, Offers,
        Requesting, Rounding, Judging, Over, SearchPhases, fixed, plan, client, tool, result
<1>1. CASE Preflight BY <1>1 DEF Preflight
<1>2. CASE Ask BY <1>2 DEF Ask, Finish
<1>3. CASE Limit BY <1>3 DEF Limit
<1>4. CASE PostFails BY <1>4 DEF PostFails
<1>5. CASE PostAnswers BY <1>5 DEF PostAnswers
<1>6. CASE Receive BY <1>6 DEF Receive
<1>7. CASE Judge BY <1>7 DEF Judge, Invalid, Finish
<1>8. CASE StartRound BY <1>8 DEF StartRound, Invalid, Finish
<1>9. CASE BadCall BY <1>9 DEF BadCall, Invalid, Finish
<1>10. CASE RunTool BY <1>10 DEF RunTool
<1>11. CASE EndRound BY <1>11 DEF EndRound, RoundsAfter
<1>12. CASE SearchRaises BY <1>12 DEF SearchRaises
<1>13. CASE StartSearch BY <1>13 DEF StartSearch
<1>14. CASE Poll BY <1>14 DEF Poll
<1>15. CASE Recv BY <1>15 DEF Recv
<1>16. CASE Reap BY <1>16 DEF Reap
<1>17. CASE EndSearch BY <1>17 DEF EndSearch
<1>18. CASE WorkerWrites BY <1>18 DEF WorkerWrites
<1>19. CASE WorkerWritesRest BY <1>19 DEF WorkerWritesRest
<1>20. CASE WorkerExits BY <1>20 DEF WorkerExits
<1>21. CASE UNCHANGED vars BY <1>21 DEF vars
<1>22. QED
    BY <1>1, <1>2, <1>3, <1>4, <1>5, <1>6, <1>7, <1>8, <1>9, <1>10, <1>11,
       <1>12, <1>13, <1>14, <1>15, <1>16, <1>17, <1>18, <1>19, <1>20, <1>21
    DEF Next, Run, Request

(* However the model answers, it is asked a bounded number of times. *)
THEOREM CallsAreBounded == Spec => []CallsBounded
<1> DEFINE Inv == /\ Places /\ Numbers /\ Answers /\ Stages
                  /\ CallsCounted /\ CallsBounded
<1>1. Init => Inv
  <2>1. Init => CallsCounted /\ CallsBounded
        BY ConstantsAreNat DEF Init, CallsCounted, CallsBounded, Judging, Rounding,
        SearchPhases
  <2>2. QED BY <2>1, InitialTypes
<1>2. Inv /\ [Next]_vars => Inv'
  BY PlacesStep, NumbersStep, AnswersStep, StagesStep, CallsStep
<1>3. QED BY <1>1, <1>2, PTL DEF Spec

(* The two parts of the plan are numbers, and it fits the context. *)
LEMMA PlanFits ==
    ASSUME Stages, InitialEstimate + Reserve + MaxTokens <= context
    PROVE  /\ InitialEstimate \in Nat /\ HistoryBudget \in Nat /\ ToolSize \in Nat
           /\ InitialEstimate = Initial + ToolSize
           /\ Largest + MaxTokens <= context
<1> USE ConstantsAreNat DEF Stages
<1>1. /\ InitialEstimate \in Nat /\ ToolSize \in Nat
      /\ InitialEstimate = Initial + ToolSize
      BY DEF InitialEstimate, ToolSize
<1>2. HistoryBudget \in Nat /\ HistoryBudget <= context - MaxTokens - InitialEstimate - Reserve
      BY <1>1 DEF HistoryBudget, Least
<1>3. QED BY <1>1, <1>2 DEF Largest

(* The plan does not change while the arm runs. *)
LEMMA PlanIsFixed ==
    ASSUME UNCHANGED fixed
    PROVE  /\ InitialEstimate' = InitialEstimate /\ HistoryBudget' = HistoryBudget
           /\ Largest' = Largest /\ ToolSize' = ToolSize
BY DEF fixed, InitialEstimate, HistoryBudget, Largest, ToolSize

(* Steps that leave the messages alone keep the plan. *)
LEMMA QuietStep ==
    ASSUME Planned, PlanHolds, UNCHANGED fixed, UNCHANGED <<size, rounds, repaired, spill>>,
           UNCHANGED <<refused, outcome>>, pc \notin {"start"} \cup Over, pc' # "start"
    PROVE  Planned' /\ PlanHolds'
<1>1. Room' <=> Room BY PlanIsFixed DEF Room, Closing
<1>2. context' = context BY DEF fixed
<1>3. QED BY <1>1, <1>2, PlanIsFixed DEF Planned, PlanHolds, Over

(* Before the arm begins and after it has ended, nothing of it changes. *)
LEMMA RestStep ==
    ASSUME Planned, PlanHolds, UNCHANGED fixed, UNCHANGED <<size, rounds, repaired, spill>>,
           UNCHANGED <<refused, outcome, pc>>, pc \in {"start"} \cup Over
    PROVE  Planned' /\ PlanHolds'
<1>1. context' = context BY DEF fixed
<1>2. PlanHolds' BY DEF PlanHolds
<1>3. Planned' BY <1>1, PlanIsFixed DEF Planned
<1>4. QED BY <1>2, <1>3

(* One repair message of size e: it is the first. *)
LEMMA RepairStep ==
    ASSUME Planned, PlanHolds, Numbers, Stages, UNCHANGED <<fixed, rounds, spill, refused>>,
           pc \notin {"start"} \cup Over, NEW e \in ErrorSizes, Invalid(e)
    PROVE  Planned' /\ PlanHolds'
<1> USE ConstantsAreNat DEF Over
<1>0. context' = context BY DEF fixed
<1>1. CASE repaired
  <2>1. pc' = "done" /\ outcome' = "SCHEMA_FAILURE" BY <1>1 DEF Invalid, Finish
  <2>2. QED BY <1>0, <2>1, PlanIsFixed DEF Planned, PlanHolds
<1>2. CASE ~repaired
  <2>1. pc' = "ask" /\ repaired' /\ size' = size + e /\ outcome' = outcome
        BY <1>2 DEF Invalid
  <2>2. size + ToolSize <= InitialEstimate + HistoryBudget + spill + Closing
        BY <1>2, PlanFits DEF Planned, Room, Numbers, Closing
  <2>3. Closing' = Closing BY DEF Closing
  <2>4. Room'
    <3>1. size' + ToolSize' <= InitialEstimate' + HistoryBudget' + spill' + Closing' + e
          BY <2>1, <2>2, <2>3, PlanIsFixed, PlanFits DEF Planned, Numbers, Closing
    <3>2. QED BY <2>1, <3>1 DEF Room
  <2>5. QED BY <1>0, <2>1, <2>4, PlanIsFixed DEF Planned, PlanHolds
<1>3. QED BY <1>1, <1>2

(* Without a repair any error size shows that there is room. *)
LEMMA RoomWithoutRepair ==
    ASSUME ~repaired',
        (size + ToolSize <= InitialEstimate + HistoryBudget + spill + Closing)',
           InitialEstimate' \in Nat, HistoryBudget' \in Nat, spill' \in Nat,
           Closing' \in Nat
    PROVE  Room'
<1>1. PICK e \in ErrorSizes : TRUE BY ArmAssumption
<1>2. QED BY <1>1 DEF Room

(* The messages of the arm keep the plan of preflight. *)
LEMMA PlanStep ==
    ASSUME Places, Numbers, Answers, Stages, Planned, PlanHolds,
        [Next]_vars PROVE Planned' /\ PlanHolds'
<1> USE DEF Requesting, Rounding, Judging, Over, SearchPhases, plan, client, tool, result
<1>1. CASE Preflight
  <2>1. UNCHANGED <<size, rounds, repaired, spill, refused, outcome>> /\ UNCHANGED fixed
        BY <1>1 DEF Preflight
  <2>2. pc = "start" /\ size = Initial /\ ~repaired BY <1>1 DEF Preflight, Planned
  <2>3. CASE InitialEstimate + Reserve + MaxTokens > context
    <3>1. pc' = "raised" BY <1>1, <2>3 DEF Preflight
    <3>2. QED BY <2>1, <3>1 DEF Planned, PlanHolds
  <2>4. CASE ~(InitialEstimate + Reserve + MaxTokens > context)
    <3>1. pc' = "ask" BY <1>1, <2>4 DEF Preflight
    <3>2. InitialEstimate + Reserve + MaxTokens <= context
      <4>1. InitialEstimate \in Nat /\ context \in Nat
            BY ConstantsAreNat DEF InitialEstimate, Stages
      <4>2. QED BY <2>4, <4>1, ConstantsAreNat
    <3>3. size + ToolSize <= InitialEstimate + HistoryBudget + spill + Closing
          BY <2>2, <3>2, PlanFits, ConstantsAreNat DEF Numbers, Closing
    <3>4. PICK e \in ErrorSizes : TRUE BY ArmAssumption
    <3>5. Room' BY <2>1, <2>2, <3>3, <3>4, PlanIsFixed, PlanFits, <3>2,
        ConstantsAreNat DEF Room, Closing, Numbers
    <3>6. context' = context BY <2>1 DEF fixed
    <3>7. QED BY <2>1, <3>1, <3>2, <3>5, <3>6, PlanIsFixed DEF Planned, PlanHolds
  <2>5. QED BY <2>3, <2>4
<1>2. CASE Ask
  <2>1. /\ UNCHANGED <<size, rounds, repaired, spill>> /\ UNCHANGED fixed /\ pc = "ask"
        BY <1>2 DEF Ask
  <2>2. InitialEstimate + Reserve + MaxTokens <= context /\ Room /\ context' = context
        BY <2>1 DEF Planned, fixed
  <2>3. Estimate(Offers) \in Nat /\ Estimate(Offers) <= size + ToolSize
        BY ConstantsAreNat DEF Estimate, Offers, ToolSize, Numbers
  <2>4. Largest = InitialEstimate + HistoryBudget + Reserve BY DEF Largest
  <2>5. CASE Estimate(Offers) > Largest
    <3>1. pc' = "done" /\ outcome' = "CONTEXT_REJECTED" /\ refused' = (Estimate(Offers) <= Largest)
          BY <1>2, <2>5, Zenon DEF Ask, Finish
    <3>2. ~refused'
      <4>1. ~(Estimate(Offers) <= Largest)
            BY <2>2, <2>3, <2>4, <2>5, PlanFits, ConstantsAreNat
      <4>2. QED BY <3>1, <4>1, Zenon
    <3>3. \E e \in ErrorSizes : spill + Exhausted + e > Reserve
      <4>1. PICK e \in ErrorSizes :
              size + ToolSize <= InitialEstimate + HistoryBudget + spill + Closing
                                 + (IF repaired THEN e ELSE 0)
            BY <2>2 DEF Room
      <4>2. e \in Nat BY ConstantsAreNat
      <4>3. spill + Exhausted + e > Reserve
            BY <2>2, <2>3, <2>4, <2>5, <4>1, <4>2, PlanFits, ConstantsAreNat DEF Numbers,
            Closing
      <4>4. QED BY <4>3
    <3>4. PlanHolds' BY <2>1, <3>2, <3>3 DEF PlanHolds
    <3>5. Planned' BY <2>1, <2>2, <3>1, PlanIsFixed DEF Planned
    <3>6. QED BY <3>4, <3>5
  <2>6. CASE ~(Estimate(Offers) > Largest)
    <3>1. ~(Estimate(Offers) + MaxTokens > context)
          BY <2>2, <2>3, <2>4, <2>6, PlanFits, ConstantsAreNat DEF Stages
    <3>2. pc' \in {"limit", "answered"} /\ outcome' = outcome /\ refused' = refused
          BY <1>2, <2>6, <3>1, Zenon DEF Ask
    <3>3. QED BY <2>1, <3>2, QuietStep
  <2>7. QED BY <2>5, <2>6
<1>3. CASE Limit BY <1>3, QuietStep DEF Limit
<1>4. CASE PostFails BY <1>4, QuietStep DEF PostFails
<1>5. CASE PostAnswers BY <1>5, QuietStep DEF PostAnswers
<1>6. CASE Receive BY <1>6, QuietStep DEF Receive
<1>7. CASE Judge
  <2>1. /\ UNCHANGED <<rounds, spill, refused>> /\ UNCHANGED fixed /\ pc = "judge"
        BY <1>7 DEF Judge
  <2>2. CASE answer.kind \in DOMAIN Outcome
    <3>1. Outcome[answer.kind] \in {"TRUNCATED", "ERROR", "DIAGNOSED"} BY <2>2 DEF Outcome
    <3>2. pc' = "done" /\ outcome' # "CONTEXT_REJECTED"
          BY <1>7, <2>2, <3>1 DEF Judge, Finish
    <3>3. context' = context BY <2>1 DEF fixed
    <3>4. QED BY <2>1, <3>2, <3>3, PlanIsFixed DEF Planned, PlanHolds
  <2>3. CASE answer.kind \notin DOMAIN Outcome
    <3>1. \E e \in ErrorSizes : Invalid(e) BY <1>7, <2>3 DEF Judge
    <3>2. QED BY <2>1, <3>1, RepairStep DEF fixed
  <2>4. QED BY <2>2, <2>3
<1>8. CASE StartRound
  <2>1. /\ UNCHANGED <<rounds, spill, refused>> /\ UNCHANGED fixed /\ pc = "judge"
        BY <1>8 DEF StartRound
  <2>2. CASE \E e \in ErrorSizes : Invalid(e) BY <2>1, <2>2, RepairStep DEF fixed
  <2>3. CASE pc' = "tools" /\ UNCHANGED <<size, repaired, outcome>>
        BY <2>1, <2>3, QuietStep
  <2>4. QED BY <1>8, <2>2, <2>3 DEF StartRound
<1>9. CASE BadCall
  <2>1. /\ UNCHANGED <<rounds, spill, refused>> /\ UNCHANGED fixed /\ pc = "tools"
        BY <1>9 DEF BadCall
  <2>2. QED BY <1>9, <2>1, RepairStep DEF BadCall, fixed
<1>10. CASE RunTool BY <1>10, QuietStep DEF RunTool
<1>11. CASE EndRound
  <2> DEFINE omits == size + answer.size + output + Definitions > InitialEstimate + HistoryBudget
             calls_  == answer.calls * Stub
  <2>1. /\ UNCHANGED fixed /\ UNCHANGED <<repaired, refused, outcome>>
        /\ pc = "tools" /\ pc' = "ask" /\ context' = context
        BY <1>11 DEF EndRound, fixed
  <2>2. answer.size \in Nat /\ calls_ \in Nat BY CompletionTypes, NatProduct,
        ConstantsAreNat DEF Answers
  <2>3. arm = "llm_tools" /\ rounds < MaxRounds /\ ~repaired /\ spill = 0
        BY <2>1, ConstantsAreNat DEF Stages, Offers, Planned, Numbers
  <2>4. ToolSize = Definitions /\ Closing = 0 BY <2>3, ConstantsAreNat DEF ToolSize,
        Closing, Numbers
  <2>5. InitialEstimate + Reserve + MaxTokens <= context /\ Room BY <2>1 DEF Planned
  <2>6. size + Definitions <= InitialEstimate + HistoryBudget
        BY <2>3, <2>4, <2>5, PlanFits, ConstantsAreNat DEF Room, Numbers
  <2>7. /\ ~repaired' /\ InitialEstimate' \in Nat /\ HistoryBudget' \in Nat
         /\ Closing' \in Nat
    <3>1. ~repaired' BY <2>1, <2>3
    <3>2. QED BY <2>1, <2>5, <3>1, PlanFits, PlanIsFixed, ConstantsAreNat DEF Closing
  <2>8. CASE omits
    <3>1. rounds' = MaxRounds BY <1>11, <2>8 DEF EndRound, RoundsAfter
    <3>2. spill' = answer.size + calls_ /\ size' = size + (answer.size + calls_) + Exhausted
          BY <1>11, <2>8, <3>1 DEF EndRound, Added
    <3>3. size' + ToolSize' <= InitialEstimate' + HistoryBudget' + spill' + Closing'
      <4>1. Closing' = Exhausted BY <3>1 DEF Closing
      <4>2. QED
            BY <2>1, <2>2, <2>4, <2>5, <2>6, <3>2, <4>1, PlanFits, PlanIsFixed,
               ConstantsAreNat DEF Numbers
    <3>4. spill' \in Nat BY <2>2, <3>2
    <3>5. Room' BY <2>3, <2>7, <3>3, <3>4, RoomWithoutRepair
    <3>6. outcome' = "none" BY <2>1 DEF Places
    <3>7. QED BY <2>1, <2>5, <3>1, <3>5, <3>6, PlanIsFixed DEF Planned, PlanHolds
  <2>9. CASE ~omits
    <3>1. spill' = spill BY <1>11, <2>9 DEF EndRound
    <3>2. Closing' \in {0, Exhausted} /\ size' = size + (answer.size + output) + Closing'
          BY <1>11, <2>9 DEF EndRound, Added, Closing
    <3>3. size' + ToolSize' <= InitialEstimate' + HistoryBudget' + spill' + Closing'
          BY <2>1, <2>2, <2>3, <2>4, <2>5, <2>9, <3>1, <3>2, PlanFits, PlanIsFixed,
             ConstantsAreNat DEF Numbers
    <3>4. Room' BY <2>3, <2>7, <3>1, <3>3, RoomWithoutRepair DEF Numbers
    <3>5. QED BY <2>1, <2>3, <2>5, <3>1, <3>4, PlanIsFixed DEF Planned, PlanHolds
  <2>10. QED BY <2>8, <2>9
<1>12. CASE SearchRaises BY <1>12, QuietStep DEF SearchRaises
<1>13. CASE StartSearch BY <1>13, QuietStep DEF StartSearch
<1>14. CASE Poll BY <1>14, QuietStep DEF Poll
<1>15. CASE Recv BY <1>15, QuietStep DEF Recv
<1>16. CASE Reap BY <1>16, QuietStep DEF Reap
<1>17. CASE EndSearch BY <1>17, QuietStep DEF EndSearch
<1>18. CASE WorkerWrites BY <1>18, QuietStep DEF WorkerWrites
<1>19. CASE WorkerWritesRest
  <2>1. CASE pc \notin {"start"} \cup Over BY <1>19, <2>1, QuietStep DEF WorkerWritesRest
  <2>2. CASE pc \in {"start"} \cup Over BY <1>19, <2>2, RestStep DEF WorkerWritesRest
  <2>3. QED BY <2>1, <2>2
<1>20. CASE WorkerExits
  <2>1. CASE pc \notin {"start"} \cup Over BY <1>20, <2>1, QuietStep DEF WorkerExits
  <2>2. CASE pc \in {"start"} \cup Over BY <1>20, <2>2, RestStep DEF WorkerExits
  <2>3. QED BY <2>1, <2>2
<1>21. CASE UNCHANGED vars
  <2>1. CASE pc \notin {"start"} \cup Over BY <1>21, <2>1, QuietStep DEF vars
  <2>2. CASE pc \in {"start"} \cup Over BY <1>21, <2>2, RestStep DEF vars
  <2>3. QED BY <2>1, <2>2
<1>22. QED
    BY <1>1, <1>2, <1>3, <1>4, <1>5, <1>6, <1>7, <1>8, <1>9, <1>10, <1>11,
       <1>12, <1>13, <1>14, <1>15, <1>16, <1>17, <1>18, <1>19, <1>20, <1>21
    DEF Next, Run, Request

(* The plan holds: within it the client never refuses, and the arm rejects *)
(* a request only after an omission that leaves no room.                   *)
THEOREM PlanAlwaysHolds == Spec => []PlanHolds
<1> DEFINE Inv == /\ Places /\ Numbers /\ Answers /\ Stages
                  /\ Planned /\ PlanHolds
<1>1. Init => Inv
  <2>1. Init => Planned /\ PlanHolds BY DEF Init, Planned, PlanHolds, Over
  <2>2. QED BY <2>1, InitialTypes
<1>2. Inv /\ [Next]_vars => Inv'
  BY PlacesStep, NumbersStep, AnswersStep, StagesStep, PlanStep
<1>3. QED BY <1>1, <1>2, PTL DEF Spec

(* Requests are spaced: sleeping and passing time keep the sum of both     *)
(* clocks.                                                                 *)
THEOREM RequestsAreSpaced == Spec => []RequestsSpaced
<1> DEFINE Inv == /\ since \in Nat /\ wait \in Nat /\ since <= Gap /\ Spaced
<1>1. Init => Inv BY ConstantsAreNat DEF Init, Spaced, RequestsSpaced
<1>2. Inv /\ [Next]_vars => Inv'
  <2> SUFFICES ASSUME Inv, [Next]_vars PROVE Inv' OBVIOUS
  <2> USE ConstantsAreNat DEF Spaced, RequestsSpaced, Least
  <2>1. CASE Limit BY <2>1 DEF Limit, NextWait
  <2>2. ASSUME NEW d \in Durations, Pass(d), spacing' = spacing PROVE Inv'
        BY <2>2 DEF Pass
  <2>3. CASE PostFails BY <2>2, <2>3 DEF PostFails
  <2>4. CASE PostAnswers BY <2>2, <2>4 DEF PostAnswers
  <2>5. CASE UNCHANGED client BY <2>5 DEF client
  <2>6. CASE Preflight \/ Ask \/ Receive \/ Judge \/ StartRound \/ BadCall \/ RunTool
        BY <2>5, <2>6 DEF Preflight, Ask, Receive, Judge, StartRound, BadCall, RunTool,
           client, Invalid, Finish
  <2>7. CASE EndRound \/ SearchRaises \/ StartSearch \/ Poll \/ Recv \/ Reap \/ EndSearch
        BY <2>5, <2>7 DEF EndRound, SearchRaises, StartSearch, Poll, Recv, Reap,
           EndSearch, client
  <2>8. CASE WorkerWrites \/ WorkerWritesRest \/ WorkerExits
        BY <2>5, <2>8 DEF WorkerWrites, WorkerWritesRest, WorkerExits
  <2>9. CASE UNCHANGED vars BY <2>5, <2>9 DEF vars
  <2>10. QED BY <2>1, <2>3, <2>4, <2>6, <2>7, <2>8, <2>9 DEF Next, Run, Request
<1>3. QED BY <1>1, <1>2, PTL DEF Spec, Spaced

(* A search that has answered leaves no worker behind.                     *)
THEOREM NoWorkerIsLeft == Spec => []WorkerReaped
<1>1. Init => WorkerReaped BY DEF Init, WorkerReaped, NoWorker
<1>2. WorkerReaped /\ [Next]_vars => WorkerReaped'
  <2> SUFFICES ASSUME WorkerReaped, [Next]_vars PROVE WorkerReaped' OBVIOUS
  <2> USE DEF WorkerReaped, SearchPhases
  <2>1. CASE StartSearch BY <2>1 DEF StartSearch
  <2>2. CASE Poll BY <2>2 DEF Poll
  <2>3. CASE Recv BY <2>3 DEF Recv
  <2>4. CASE Reap BY <2>4 DEF Reap
  <2>5. CASE EndSearch BY <2>5 DEF EndSearch, MustReap
  <2>6. CASE WorkerWrites \/ WorkerWritesRest \/ WorkerExits
        BY <2>6 DEF WorkerWrites, WorkerWritesRest, WorkerExits
  <2>7. CASE UNCHANGED vars BY <2>7 DEF vars, tool
  <2>8. CASE Preflight \/ Ask \/ Limit \/ PostFails \/ PostAnswers \/ Receive \/ Judge
        BY <2>8 DEF Preflight, Ask, Limit, PostFails, PostAnswers, Receive, Judge, tool,
           Invalid, Finish
  <2>9. CASE StartRound \/ BadCall \/ RunTool \/ EndRound \/ SearchRaises
        BY <2>9 DEF StartRound, BadCall, RunTool, EndRound, SearchRaises, Invalid, Finish,
           tool
  <2>10. QED BY <2>1, <2>2, <2>3, <2>4, <2>5, <2>6, <2>7, <2>8, <2>9 DEF Next, Run, Request
<1>3. QED BY <1>1, <1>2, PTL DEF Spec

\* The records of a trace.
Records == [call : Int, tokens : Nat \cup {Unknown}]

TokensOf(t) == [i \in 1..Len(t) |-> t[i].tokens]

(* The tokens of a trace are unknown, or the last of its sums.             *)
LEMMA TokensAreSums ==
    ASSUME NEW t \in Seq(Records)
    PROVE  \E sum \in [0..Len(t) -> Int] :
             /\ AddsUp(sum, TokensOf(t), Len(t))
             /\ TraceTokens(t) = IF \E i \in 1..Len(t) : t[i].tokens = Unknown THEN Unknown
                                 ELSE sum[Len(t)]
<1> DEFINE n == Len(t)
           Rule(sum) == [i \in 0..n |-> IF i = 0 THEN 0 ELSE sum[i - 1] + t[i].tokens]
           total == CHOOSE sum : sum = Rule(sum)
<1>1. n \in Nat /\ \A i \in 1..n : t[i] \in Records OBVIOUS
<1>2. \A i \in 1..n : TokensOf(t)[i] \in Int /\ TokensOf(t)[i] = t[i].tokens
    BY <1>1 DEF Records, Unknown, TokensOf
<1>3. PICK sum \in [0..n -> Int] : AddsUp(sum, TokensOf(t), n)
    BY <1>1, <1>2, SumsExist
<1>4. sum = Rule(sum)
  <2>1. ASSUME NEW i \in 0..n PROVE sum[i] = Rule(sum)[i]
      BY <1>1, <1>2, <1>3 DEF AddsUp
  <2>2. QED BY <2>1
<1>5. total = Rule(total) BY <1>4, Zenon
<1>6. TraceTokens(t) = IF \E i \in 1..Len(t) : t[i].tokens = Unknown THEN Unknown
                       ELSE total[Len(t)]
    BY DEF TraceTokens
<1> HIDE DEF total
<1>7. ASSUME NEW i \in 0..n
      PROVE  total[i] = IF i = 0 THEN 0 ELSE total[i - 1] + t[i].tokens
    BY <1>5
<1>8. AddsUp(total, TokensOf(t), n)
  <2>1. total[0] = 0 BY <1>1, <1>7
  <2>2. ASSUME NEW i \in 1..n PROVE total[i] = total[i - 1] + TokensOf(t)[i]
      BY <1>1, <1>2, <1>7
  <2>3. QED BY <2>1, <2>2 DEF AddsUp
<1>9. \A i \in 0..n : total[i] = sum[i] BY <1>1, <1>3, <1>8, SumsAgree
<1>10. TraceTokens(t) = IF \E i \in 1..Len(t) : t[i].tokens = Unknown THEN Unknown
                       ELSE sum[Len(t)]
    BY <1>1, <1>6, <1>9
<1>11. QED BY <1>3, <1>10

(* An empty trace has no tokens.                                           *)
LEMMA NoTokens == TraceTokens(<<>>) = 0
<1>1. <<>> \in Seq(Records) /\ Len(<<>>) = 0 OBVIOUS
<1>2. PICK sum \in [0..Len(<<>>) -> Int] :
        /\ AddsUp(sum, TokensOf(<<>>), Len(<<>>))
        /\ TraceTokens(<<>>) =
             IF \E i \in 1..Len(<<>>) : <<>>[i].tokens = Unknown THEN Unknown
             ELSE sum[Len(<<>>)]
    BY <1>1, TokensAreSums
<1>3. ~ \E i \in 1..Len(<<>>) : <<>>[i].tokens = Unknown BY <1>1
<1>4. sum[0] = 0 BY <1>2 DEF AddsUp
<1>5. QED BY <1>1, <1>2, <1>3, <1>4

(* A record that is appended adds its tokens, or makes them unknown.       *)
LEMMA TokensGrow ==
    ASSUME NEW t \in Seq(Records), NEW r \in Records
    PROVE  TraceTokens(Append(t, r)) = Add(TraceTokens(t), r.tokens)
<1> DEFINE n == Len(t)
           u == Append(t, r)
<1>1. /\ n \in Nat /\ u \in Seq(Records) /\ Len(u) = n + 1 /\ u[n + 1] = r
      /\ \A i \in 1..n : u[i] = t[i]
    OBVIOUS
<1>2. \A i \in 1..n : t[i] \in Records OBVIOUS
<1> HIDE DEF u
<1>3. PICK sum \in [0..n -> Int] :
        /\ AddsUp(sum, TokensOf(t), n)
        /\ TraceTokens(t) = IF \E i \in 1..n : t[i].tokens = Unknown THEN Unknown ELSE sum[n]
    BY TokensAreSums
<1>4. PICK more \in [0..(n + 1) -> Int] :
        /\ AddsUp(more, TokensOf(u), n + 1)
        /\ TraceTokens(u) = IF \E i \in 1..(n + 1) : u[i].tokens = Unknown THEN Unknown
                            ELSE more[n + 1]
    BY <1>1, TokensAreSums
<1>5. CASE \E i \in 1..(n + 1) : u[i].tokens = Unknown
  <2>1. r.tokens = Unknown \/ \E i \in 1..n : t[i].tokens = Unknown BY <1>1, <1>5, SMTT(30)
  <2>2. TraceTokens(u) = Unknown BY <1>4, <1>5
  <2>3. r.tokens = Unknown \/ TraceTokens(t) = Unknown BY <1>3, <2>1
  <2>4. QED BY <2>2, <2>3 DEF Add
<1>6. CASE ~ \E i \in 1..(n + 1) : u[i].tokens = Unknown
  <2>1. r.tokens # Unknown /\ ~ \E i \in 1..n : t[i].tokens = Unknown BY <1>1, <1>6, SMTT(30)
  <2>2. TraceTokens(t) = sum[n] /\ TraceTokens(u) = more[n + 1] BY <1>3, <1>4, <1>6, <2>1
  <2>3. \A i \in 1..n : TokensOf(t)[i] \in Nat /\ TokensOf(u)[i] = TokensOf(t)[i]
      BY <1>1, <1>2, <2>1, SMTT(30) DEF Records, TokensOf
  <2>4. TokensOf(u)[n + 1] = r.tokens BY <1>1 DEF TokensOf
  <2>5. AddsUp(more, TokensOf(t), n) /\ more[n + 1] = more[n] + r.tokens
    <3>1. more[0] = 0 /\ \A i \in 1..(n + 1) : more[i] = more[i - 1] + TokensOf(u)[i]
        BY <1>4 DEF AddsUp
    <3>2. \A i \in 1..n : more[i] = more[i - 1] + TokensOf(t)[i] BY <1>1, <2>3, <3>1
    <3>3. more[n + 1] = more[n] + r.tokens
      <4>1. n + 1 \in 1..(n + 1) /\ (n + 1) - 1 = n BY <1>1
      <4>2. QED BY <2>4, <3>1, <4>1
    <3>4. QED BY <3>1, <3>2, <3>3 DEF AddsUp
  <2>6. \A i \in 0..n : more[i] = sum[i] BY <1>1, <1>3, <2>5, SumsAgree
  <2>7. \A i \in 0..n : sum[i] \in Nat BY <1>1, <1>3, <2>3, SumsAreNat
  <2>8. more[n + 1] = sum[n] + r.tokens /\ sum[n] # Unknown
      BY <1>1, <2>5, <2>6, <2>7 DEF Unknown
  <2>9. QED BY <2>1, <2>2, <2>8, SMTT(30) DEF Add
<1>7. QED BY <1>5, <1>6

\* Every completion but the one that is being judged is in the trace, and its
\* tokens are counted already.
Traced ==
    /\ trace \in Seq(Records)
    /\ \A i \in 1..Len(trace) : trace[i].call = i - 1
    /\ pc # "raised" => Len(trace) = calls - (IF pc \in Judging THEN 1 ELSE 0)
    /\ pc \in Judging => tokens = Add(TraceTokens(trace), answer.tokens)
    /\ pc \notin Judging \cup {"raised"} => tokens = TraceTokens(trace)

(* A completion that has been judged joins the trace.                      *)
LEMMA RecordStep ==
    ASSUME Numbers, Answers, Traced, Record, pc \in Judging, UNCHANGED <<calls, tokens>>,
           pc' \in {"ask", "done"}
    PROVE  Traced'
<1> DEFINE r == [call |-> calls - 1, tokens |-> answer.tokens]
<1>1. r \in Records /\ r.call = calls - 1 /\ r.tokens = answer.tokens
    BY CompletionTypes DEF Answers, Numbers, Records
<1>2. trace' = Append(trace, r) BY DEF Record
<1> HIDE DEF r
<1>3. pc # "raised" BY DEF Judging, Rounding, SearchPhases
<1>4. trace \in Seq(Records) /\ Len(trace) = calls - 1 /\ calls \in Nat
    BY <1>3 DEF Traced, Numbers
<1>5. /\ trace' \in Seq(Records) /\ Len(trace') = calls /\ trace'[calls] = r
      /\ \A i \in 1..(calls - 1) : trace'[i] = trace[i]
    BY <1>1, <1>2, <1>4
<1>6. \A i \in 1..Len(trace') : trace'[i].call = i - 1
  <2>1. \A i \in 1..(calls - 1) : trace[i].call = i - 1 BY <1>4 DEF Traced
  <2>2. QED BY <1>1, <1>4, <1>5, <2>1
<1>7. tokens' = TraceTokens(trace')
    BY <1>1, <1>2, <1>4, TokensGrow DEF Traced
<1>8. pc' \notin Judging /\ pc' # "raised" BY DEF Judging, Rounding, SearchPhases
<1>9. QED BY <1>5, <1>6, <1>7, <1>8 DEF Traced

(* Steps that record no completion leave the trace and what is counted.    *)
LEMMA UntracedStep ==
    ASSUME Traced, UNCHANGED <<trace, calls, tokens>>,
           \/ pc \in Judging /\ pc' \in Judging /\ UNCHANGED answer
           \/ pc \notin Judging \cup {"raised"} /\ pc' \notin Judging
           \/ pc' = "raised"
    PROVE  Traced'
BY DEF Traced, Judging, Rounding, SearchPhases

(* No completion is recorded twice, or left out.                           *)
LEMMA TracedStep ==
    ASSUME Places, Numbers, Answers, Traced, [Next]_vars PROVE Traced'
<1> USE DEF Judging, Rounding, SearchPhases, fixed, plan, client, tool, result
<1>1. CASE Preflight BY <1>1, UntracedStep DEF Preflight
<1>2. CASE Ask BY <1>2, UntracedStep DEF Ask, Finish
<1>3. CASE Limit BY <1>3, UntracedStep DEF Limit
<1>4. CASE PostFails BY <1>4, UntracedStep DEF PostFails
<1>5. CASE PostAnswers BY <1>5, UntracedStep DEF PostAnswers
<1>6. CASE Receive
  <2>1. /\ pc = "answered" /\ pc' = "judge" /\ calls' = calls + 1
        /\ tokens' = Add(tokens, answer.tokens) /\ UNCHANGED <<trace, answer>>
    BY <1>6 DEF Receive
  <2>2. calls \in Nat BY DEF Numbers
  <2>3. QED BY <2>1, <2>2 DEF Traced
<1>7. CASE Judge
  <2>1. pc = "judge" /\ Record /\ UNCHANGED <<calls, tokens>> BY <1>7 DEF Judge, Invalid
  <2>2. pc' \in {"ask", "done"} BY <1>7 DEF Judge, Invalid, Finish
  <2>3. QED BY <2>1, <2>2, RecordStep
<1>8. CASE StartRound
  <2>1. pc = "judge" /\ UNCHANGED <<calls, tokens>> BY <1>8 DEF StartRound
  <2>2. CASE answer.calls > 6
    <3>1. Record /\ pc' \in {"ask", "done"}
      BY <1>8, <2>2 DEF StartRound, Invalid, Finish
    <3>2. QED BY <2>1, <3>1, RecordStep
  <2>3. CASE ~(answer.calls > 6)
    BY <1>8, <2>3, UntracedStep DEF StartRound
  <2>4. QED BY <2>2, <2>3
<1>9. CASE BadCall
  <2>1. /\ pc = "tools" /\ Record /\ UNCHANGED <<calls, tokens>>
        /\ pc' \in {"ask", "done"}
    BY <1>9 DEF BadCall, Invalid, Finish
  <2>2. QED BY <2>1, RecordStep
<1>10. CASE RunTool BY <1>10, UntracedStep DEF RunTool
<1>11. CASE EndRound
  <2>1. pc = "tools" /\ Record /\ UNCHANGED <<calls, tokens>> /\ pc' = "ask"
    BY <1>11 DEF EndRound
  <2>2. QED BY <2>1, RecordStep
<1>12. CASE SearchRaises BY <1>12, UntracedStep DEF SearchRaises
<1>13. CASE StartSearch BY <1>13, UntracedStep DEF StartSearch
<1>14. CASE Poll BY <1>14, UntracedStep DEF Poll
<1>15. CASE Recv BY <1>15, UntracedStep DEF Recv
<1>16. CASE Reap BY <1>16, UntracedStep DEF Reap
<1>17. CASE EndSearch BY <1>17, UntracedStep DEF EndSearch
<1>18. CASE WorkerWrites BY <1>18, UntracedStep DEF WorkerWrites
<1>19. CASE WorkerWritesRest BY <1>19, UntracedStep DEF WorkerWritesRest
<1>20. CASE WorkerExits BY <1>20, UntracedStep DEF WorkerExits
<1>21. CASE UNCHANGED vars BY <1>21, UntracedStep DEF vars
<1>22. QED
    BY <1>1, <1>2, <1>3, <1>4, <1>5, <1>6, <1>7, <1>8, <1>9, <1>10, <1>11,
       <1>12, <1>13, <1>14, <1>15, <1>16, <1>17, <1>18, <1>19, <1>20, <1>21
    DEF Next, Run, Request

(* Unless an exception ends the diagnosis, the trace has every completion  *)
(* once and in order, and its tokens are those of the result: unknown as   *)
(* soon as one count is.                                                   *)
THEOREM TraceIsComplete == Spec => []TraceMatchesCalls
<1> DEFINE Inv == Places /\ Numbers /\ Answers /\ Stages /\ Traced
<1>1. Init => Inv
  <2>1. Init => Traced
    <3> SUFFICES ASSUME Init PROVE Traced OBVIOUS
    <3>1. trace = <<>> /\ pc = "start" /\ calls = 0 /\ tokens = 0 BY DEF Init
    <3>2. trace \in Seq(Records) /\ Len(trace) = 0 BY <3>1
    <3>3. tokens = TraceTokens(trace) BY <3>1, NoTokens
    <3>4. pc \notin Judging /\ pc # "raised"
      BY <3>1 DEF Judging, Rounding, SearchPhases
    <3>5. 1..Len(trace) = {} BY <3>2
    <3>6. \A i \in 1..Len(trace) : trace[i].call = i - 1 BY <3>5
    <3>7. Len(trace) = calls - (IF pc \in Judging THEN 1 ELSE 0)
      <4> DEFINE pending == IF pc \in Judging THEN 1 ELSE 0
                 length  == Len(trace)
      <4>1. pending = 0 BY <3>4
      <4>2. length = 0 /\ calls = 0 BY <3>1, <3>2
      <4>3. SUFFICES length = calls - pending OBVIOUS
      <4> HIDE DEF pending, length
      <4>4. QED BY <4>1, <4>2
    <3>8. QED BY <3>2, <3>3, <3>4, <3>6, <3>7 DEF Traced
  <2>2. QED BY <2>1, InitialTypes
<1>2. Inv /\ [Next]_vars => Inv'
  BY PlacesStep, NumbersStep, AnswersStep, StagesStep, TracedStep
<1>3. Inv => TraceMatchesCalls
  BY DEF Traced, TraceMatchesCalls, Judging, Rounding, SearchPhases, Numbers
<1>4. QED BY <1>1, <1>2, <1>3, PTL DEF Spec
=============================================================================
