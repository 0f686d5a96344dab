------------------------------ MODULE ModelArm ------------------------------
(***************************************************************************)
(* One diagnosis by a language model: run_arm of triage/arms.py, the chat  *)
(* client of triage/llm.py under it, and the regex search of               *)
(* triage/tools.py with its worker process.                                *)
(*                                                                         *)
(* Messages are their size in the estimate of estimate_prompt_tokens; what *)
(* the model answers, how long a request takes and how it fails are        *)
(* chosen.  Times are relative: how long until the next request may start, *)
(* how long since the last one did.                                        *)
(***************************************************************************)
EXTENDS Integers, Sequences

CONSTANTS
    MaxRounds,       \* max_tool_rounds
    Retries,         \* config.retries
    Gap,             \* 60 / config.rpm
    Durations,       \* how long a request and the sleep after it may take
    ContextLengths,  \* declared context lengths
    MaxTokens,       \* config.max_tokens
    Initial,         \* estimate of the initial messages
    Definitions,     \* estimate of the tool definitions
    History,         \* TOOL_HISTORY_BUDGET
    Reserve,         \* REPAIR_RESERVE
    Exhausted,       \* size of the message that ends the tool rounds
    Stub,            \* size of the text that replaces an omitted tool output
    ErrorSizes,      \* sizes of repair messages (the error is cut at 1000)
    AnswerSizes,     \* sizes of assistant messages
    OutputSizes,     \* sizes of tool outputs
    CallCounts,      \* numbers of tool calls in an answer
    Usages           \* token counts a provider may report

ASSUME ArmAssumption ==
    /\ {MaxRounds, Retries, Gap, MaxTokens, Initial, Definitions, History,
        Reserve, Exhausted, Stub} \subseteq Nat
    /\ \A S \in {Durations, ContextLengths, ErrorSizes, AnswerSizes,
                 OutputSizes, CallCounts, Usages} : S \subseteq Nat
    /\ ErrorSizes # {}
    \* The reserve holds the closing message and one repair message.
    /\ \A e \in ErrorSizes : Exhausted + e <= Reserve

VARIABLES
    pc,         \* where run_arm, or the call it is in, stands
    arm,        \* "llm_raw" or "llm_tools"
    context,    \* config.context_length
    size,       \* estimate of `messages'
    rounds,     \* tool_rounds
    repaired,   \* repair_used
    calls,      \* call_index
    offered,    \* the running request offers tools
    attempt,    \* its attempt
    answer,     \* its completion
    left,       \* tool calls of the answer still to run
    output,     \* size of the tool outputs so far
    wait,       \* next_request, from now
    tokens,     \* result.tokens, of one kind
    outcome,    \* result.outcome
    trace,      \* records appended to the trace: call index and tokens
    search,     \* what the running search will return
    worker,     \* the regex worker: is it alive, what is in its pipe
    since,      \* time since the last request started, up to Gap (history)
    spacing,    \* time between the last two requests, up to Gap (history)
    refused,    \* the client refused a request of the arm (history)
    spill       \* size of the messages added by an omission (history)

client == <<attempt, wait, since, spacing>>
tool   == <<left, output, search, worker>>
result == <<tokens, outcome, trace>>
plan   == <<size, rounds, repaired, calls, offered, spill>>
fixed  == <<arm, context>>
vars   == <<pc, fixed, plan, client, answer, tool, result, refused>>

Unknown == -1          \* None

\* What complete returns, as far as run_arm tells it apart, in the order of its
\* tests: cut off at the token limit, an error, tool calls, a diagnosis, or
\* anything else.  A bad envelope has no token counts; before its error it may
\* have said that it was cut off.
Completions ==
    [kind : {"length", "diagnosis", "other"}, calls : {0}, size : {0},
     tokens : Usages \cup {Unknown}]
    \cup [kind : {"tools"}, calls : CallCounts, size : AnswerSizes,
          tokens : Usages \cup {Unknown}]
NoAnswer == [kind |-> "error", calls |-> 0, size |-> 0, tokens |-> Unknown]
NoWorker == [alive |-> FALSE, pipe |-> "empty"]

SearchPhases == {"poll", "recv", "join", "terminated", "killed"}

Least(a, b) == IF a <= b THEN a ELSE b

---------------------------------------------------------------------------
(* preflight, and what the arm offers and asks.                            *)

InitialEstimate == Initial + (IF arm = "llm_tools" THEN Definitions ELSE 0)

HistoryBudget ==
    IF arm = "llm_tools"
    THEN Least(History, context - MaxTokens - InitialEstimate - Reserve) ELSE 0

Largest == InitialEstimate + HistoryBudget + Reserve

Offers == arm = "llm_tools" /\ rounds < MaxRounds /\ ~repaired

Estimate(withTools) == size + (IF withTools THEN Definitions ELSE 0)

Init ==
    /\ pc = "start" /\ arm \in {"llm_raw", "llm_tools"} /\ context \in ContextLengths
    /\ size = Initial /\ rounds = 0 /\ repaired = FALSE /\ calls = 0
    /\ offered = FALSE /\ attempt = 0 /\ answer = NoAnswer
    /\ left = 0 /\ output = 0 /\ search = "none" /\ worker = NoWorker
    /\ wait = 0 /\ since = Gap /\ spacing = Gap
    /\ tokens = 0 /\ outcome = "none" /\ trace = <<>>
    /\ refused = FALSE /\ spill = 0

\* The largest planned request must fit, or ContextLimitError leaves run_arm.
Preflight ==
    /\ pc = "start"
    /\ pc' = IF InitialEstimate + Reserve + MaxTokens > context THEN "raised" ELSE "ask"
    /\ UNCHANGED <<fixed, plan, client, answer, tool, result, refused>>

Finish(o) == pc' = "done" /\ outcome' = o

\* The head of the loop, and complete up to its first attempt: a request beyond
\* the plan, or beyond the context, is not made.
Ask ==
    /\ pc = "ask"
    /\ LET request == Estimate(Offers)
       IN  IF request > Largest \/ request + MaxTokens > context
           THEN /\ Finish("CONTEXT_REJECTED")
                /\ refused' = (request <= Largest)
                /\ UNCHANGED <<offered, attempt>>
           ELSE /\ offered' = Offers /\ attempt' = 0
                /\ pc' \in {"limit", "answered"}      \* without a key: no attempt
                /\ UNCHANGED <<outcome, refused>>
    /\ UNCHANGED <<fixed, size, rounds, repaired, calls, spill, wait, since,
                   spacing, answer, tool, tokens, trace>>

---------------------------------------------------------------------------
(* ChatClient.complete: attempts, their spacing, and the envelope.         *)

(* Variant: the next request is timed from before the sleep. *)
NextWaitFromBefore == Gap - wait
NextWait == Gap

\* _limit: sleep until the request may start, and time the next one.
Limit ==
    /\ pc = "limit" /\ pc' = "post"
    /\ spacing' = Least(Gap, since + wait)
    /\ since' = 0 /\ wait' = NextWait
    /\ UNCHANGED <<fixed, plan, attempt, answer, tool, result, refused>>

\* Time d passes in a request, or in a sleep after it.
Pass(d) ==
    /\ since' = Least(Gap, since + d)
    /\ wait' = IF d >= wait THEN 0 ELSE wait - d

(* Variant: a failed attempt is made again as often as it takes. *)
TriesAlways(retryable) == retryable
TriesAgain(retryable) == retryable /\ attempt < Retries

\* The attempt failed; timeouts, 429 and server errors are tried again.
PostFails ==
    /\ pc = "post"
    /\ \E retryable \in BOOLEAN, d \in Durations :
         /\ Pass(d)
         /\ IF TriesAgain(retryable)
            THEN pc' = "limit" /\ attempt' = attempt + 1
            ELSE pc' = "answered" /\ UNCHANGED attempt
    /\ UNCHANGED <<fixed, plan, spacing, answer, tool, result, refused>>

\* A response arrived; only a good envelope has its tokens recorded.
PostAnswers ==
    /\ pc = "post" /\ pc' = "answered"
    /\ \E d \in Durations : Pass(d)
    /\ answer' \in Completions \cup {NoAnswer}
    /\ UNCHANGED <<fixed, plan, attempt, spacing, tool, result, refused>>

---------------------------------------------------------------------------
(* What run_arm makes of a completion.                                     *)

\* The completion goes to the trace, and is not looked at again.
Record ==
    /\ trace' = Append(trace, [call |-> calls - 1, tokens |-> answer.tokens])
    /\ answer' = NoAnswer

(* Variant: an unknown count is skipped. *)
AddKnown(total, n) == IF n = Unknown THEN total ELSE total + n
\* An unknown count makes the sum unknown, for good.
Add(total, n) == IF total = Unknown \/ n = Unknown THEN Unknown ELSE total + n

\* An invalid answer: ask for one repair, without tools.
Invalid(e) ==
    /\ Record /\ left' = 0 /\ output' = 0
    /\ IF repaired THEN Finish("SCHEMA_FAILURE") /\ UNCHANGED <<size, repaired>>
       ELSE pc' = "ask" /\ repaired' = TRUE /\ size' = size + e /\ UNCHANGED outcome

(* Variant: tools that were not offered are run as well. *)
ToolRoundAlways == answer.kind = "tools"
ToolRound == answer.kind = "tools" /\ offered

\* The completion is counted in any case.
Receive ==
    /\ pc = "answered"
    /\ calls' = calls + 1 /\ tokens' = Add(tokens, answer.tokens)
    /\ attempt' = 0
    /\ pc' = "judge"
    /\ UNCHANGED <<fixed, size, rounds, repaired, offered, spill, wait, since,
                   spacing, answer, tool, outcome, trace, refused>>

Outcome == [length |-> "TRUNCATED", error |-> "ERROR", diagnosis |-> "DIAGNOSED"]

\* It ends the arm, or it is invalid: tool calls that were not offered are.
Judge ==
    /\ pc = "judge" /\ ~ToolRound
    /\ IF answer.kind \in DOMAIN Outcome
       THEN /\ Record /\ Finish(Outcome[answer.kind])
            /\ UNCHANGED <<size, repaired, left, output>>
       ELSE \E e \in ErrorSizes : Invalid(e)
    /\ UNCHANGED <<fixed, rounds, calls, offered, spill, client, search, worker,
                   tokens, refused>>

\* _tool_results refuses more than six calls.
StartRound ==
    /\ pc = "judge" /\ ToolRound
    /\ IF answer.calls > 6 THEN \E e \in ErrorSizes : Invalid(e)
       ELSE /\ pc' = "tools" /\ left' = answer.calls /\ output' = 0
            /\ UNCHANGED <<size, repaired, outcome, trace, answer>>
    /\ UNCHANGED <<fixed, rounds, calls, offered, spill, client, search, worker,
                   tokens, refused>>

\* A call without an id of its own: the calls before it have run all the same.
BadCall ==
    /\ pc = "tools" /\ left > 0
    /\ \E e \in ErrorSizes : Invalid(e)
    /\ UNCHANGED <<fixed, rounds, calls, offered, spill, client, search, worker,
                   tokens, refused>>

\* Every other tool, bad arguments included, returns at once.
RunTool ==
    /\ pc = "tools" /\ left > 0
    /\ left' = left - 1 /\ \E s \in OutputSizes : output' = output + s
    /\ UNCHANGED <<pc, fixed, plan, client, answer, search, worker, result, refused>>

RoundsAfter(omits) == IF omits THEN MaxRounds ELSE rounds + 1

(* Variant: the outputs are kept, only the rounds end. *)
AddedAll(omits) == answer.size + output
\* What a round adds to the messages: outputs beyond the budget are omitted.
Added(omits) == answer.size + (IF omits THEN answer.calls * Stub ELSE output)

EndRound ==
    /\ pc = "tools" /\ left = 0
    /\ LET omits == size + answer.size + output + Definitions > InitialEstimate + HistoryBudget
       IN  /\ rounds' = RoundsAfter(omits)
           /\ size' = size + Added(omits) + (IF rounds' = MaxRounds THEN Exhausted ELSE 0)
           /\ spill' = IF omits THEN answer.size + answer.calls * Stub ELSE spill
    /\ Record /\ output' = 0 /\ pc' = "ask"
    /\ UNCHANGED <<fixed, repaired, calls, offered, client, left, search, worker,
                   tokens, outcome, refused>>

---------------------------------------------------------------------------
(* search_safely and its worker.                                           *)

\* An exception that neither the toolbox nor run_arm catches: re.compile on an
\* oversized repeat count, or a worker that cannot be started.
SearchRaises ==
    /\ pc = "tools" /\ left > 0 /\ pc' = "raised"
    /\ UNCHANGED <<fixed, plan, client, answer, tool, result, refused>>

StartSearch ==
    /\ pc = "tools" /\ left > 0
    /\ pc' = "poll" /\ search' = "none"
    /\ worker' = [alive |-> TRUE, pipe |-> "empty"]
    /\ UNCHANGED <<fixed, plan, client, answer, left, output, result, refused>>

(* Variant: the parent waits for an answer without a time limit. *)
NeverExpires == FALSE
\* The time limit matters to a worker that has sent nothing.
Expires == worker.alive /\ worker.pipe = "empty"

\* poll: an answer, or the closed pipe of a dead worker, or time is up.
Poll ==
    /\ pc = "poll"
    /\ IF Expires THEN pc' = "join" /\ search' = "timeout"
       ELSE pc' = "recv" /\ UNCHANGED search
    /\ UNCHANGED <<fixed, plan, client, answer, left, output, worker, result, refused>>

\* recv waits for a whole message or the end of the worker.  What a dead worker
\* left ends it with EOFError if it stops before or after the length, and with
\* OSError, which nothing catches, if it stops in the middle of anything.
Recv ==
    /\ pc = "recv" /\ (worker.alive => worker.pipe = "all")
    /\ pc' = "join"
    /\ search' \in CASE worker.pipe = "all" -> {"rows"}
                     [] worker.pipe = "empty" -> {"failed"}
                     [] OTHER -> {"failed", "raise"}
    /\ UNCHANGED <<fixed, plan, client, answer, left, output, worker, result, refused>>

(* Variant: a worker that has answered is not waited for. *)
MustReapSilent == worker.alive /\ search # "rows"
MustReap == worker.alive

\* join, terminate, kill: each gives the worker some time.
Reap ==
    /\ pc \in {"join", "terminated"} /\ MustReap
    /\ pc' = IF pc = "join" THEN "terminated" ELSE "killed"
    /\ UNCHANGED <<fixed, plan, client, answer, tool, result, refused>>

\* The search is over and returns.  A worker that not even SIGKILL has ended in
\* time makes close raise ValueError, which the toolbox reports as bad arguments.
EndSearch ==
    /\ pc = "killed" \/ (pc \in {"join", "terminated"} /\ ~MustReap)
    /\ search' = IF pc = "killed" /\ worker.alive THEN "invalid" ELSE "none"
    /\ IF search = "raise" /\ search' # "invalid"
       THEN pc' = "raised" /\ UNCHANGED <<left, output>>
       ELSE /\ pc' = "tools" /\ left' = left - 1
            /\ \E s \in OutputSizes : output' = output + s
    /\ worker' = [worker EXCEPT !.pipe = "empty"]
    /\ UNCHANGED <<fixed, plan, client, answer, result, refused>>

\* The worker, which runs whatever pattern it was given: it may write its
\* answer, or the length of it first, and it may exit or be killed any time.
WorkerWrites ==
    /\ worker.alive /\ worker.pipe = "empty" /\ pc \in SearchPhases
    /\ \E p \in {"part", "all"} : worker' = [worker EXCEPT !.pipe = p]
    /\ UNCHANGED <<pc, fixed, plan, client, answer, left, output, search, result, refused>>

WorkerWritesRest ==
    /\ worker.alive /\ worker.pipe = "part"
    /\ worker' = [worker EXCEPT !.pipe = "all"]
    /\ UNCHANGED <<pc, fixed, plan, client, answer, left, output, search, result, refused>>

WorkerExits ==
    /\ worker.alive /\ worker' = [worker EXCEPT !.alive = FALSE]
    /\ UNCHANGED <<pc, fixed, plan, client, answer, left, output, search, result, refused>>

---------------------------------------------------------------------------
\* The arm's own steps.
Run ==
    \/ Preflight \/ Ask \/ Limit \/ Receive \/ Judge
    \/ StartRound \/ BadCall \/ RunTool \/ EndRound \/ SearchRaises
    \/ StartSearch \/ Poll \/ Recv \/ Reap \/ EndSearch

\* The end of a request, which is up to the provider.
Request == PostFails \/ PostAnswers

Next == Run \/ Request \/ WorkerWrites \/ WorkerWritesRest \/ WorkerExits

\* The caller runs on.  Nothing is assumed of the provider: the timeout of the
\* client limits each read of a response, not the response.  Of the worker it is
\* assumed that it completes a message it has begun, which fits into the pipe.
Spec == Init /\ [][Next]_vars /\ WF_vars(Run) /\ WF_vars(WorkerWritesRest)

---------------------------------------------------------------------------
(* Properties.                                                             *)

Outcomes == {"none", "DIAGNOSED", "TRUNCATED", "ERROR", "SCHEMA_FAILURE",
             "CONTEXT_REJECTED"}

\* Type correctness.
TypeOK ==
    /\ pc \in {"start", "ask", "limit", "post", "answered", "judge", "tools",
               "done", "raised"} \cup SearchPhases
    /\ {size, calls, output, spill} \subseteq Nat
    /\ answer \in Completions \cup {NoAnswer}
    /\ rounds \in 0..MaxRounds /\ attempt \in 0..Retries /\ left \in 0..6
    /\ {repaired, offered, refused} \subseteq BOOLEAN
    /\ wait \in 0..Gap /\ since \in 0..Gap /\ spacing \in 0..Gap
    /\ tokens \in Nat \cup {Unknown}
    /\ outcome \in Outcomes /\ (outcome = "none" <=> pc # "done")
    /\ search \in {"none", "rows", "failed", "timeout", "raise", "invalid"}
    /\ worker \in [alive : BOOLEAN, pipe : {"empty", "part", "all"}]

\* The plan of preflight holds: the client never refuses a request within the
\* plan, and the arm itself rejects one only when an omission's own messages --
\* the model's calls and the stubs -- leave no room for a closing and a repair
\* message.  So trimming the raw logs and the outputs is enough otherwise.
PlanHolds ==
    /\ ~refused
    /\ outcome = "CONTEXT_REJECTED" =>
         \E e \in ErrorSizes : spill + Exhausted + e > Reserve

\* However the model answers, a diagnosis takes at most one completion per tool
\* round, a final answer and a repair of it.
CallsBounded == calls <= (IF arm = "llm_tools" THEN MaxRounds ELSE 0) + 2

\* The tokens of a trace: their sum, if all are known.
TraceTokens(t) ==
    LET sum[i \in 0..Len(t)] == IF i = 0 THEN 0 ELSE sum[i - 1] + t[i].tokens
    IN  IF \E i \in 1..Len(t) : t[i].tokens = Unknown THEN Unknown ELSE sum[Len(t)]

\* Every completion is in the trace once, in order, and the tokens of the
\* result are those of the trace, unknown as soon as one is.  A diagnosis that
\* an exception ends is left out: its last completion is never traced, although
\* trace.py says that each one is, and it has no result.
TraceMatchesCalls ==
    pc \in {"ask", "done"} =>
      /\ Len(trace) = calls
      /\ \A i \in 1..calls : trace[i].call = i - 1
      /\ tokens = TraceTokens(trace)

\* Two requests start at least 60 / rpm seconds apart, retries included.
RequestsSpaced == spacing = Gap

\* A search that has returned rows, a failure or a timeout leaves no worker
\* behind; one that could not end it does not pass for an answer.
WorkerReaped ==
    (pc \notin SearchPhases /\ worker.alive) => search = "invalid"

\* Every diagnosis ends, or waits for ever for one and the same response: no
\* sequence of answers, failures, tool calls or searches keeps it going, and no
\* worker holds it up.
ArmEnds == <>(pc \in {"done", "raised"}) \/ <>[](pc = "post")

=============================================================================
