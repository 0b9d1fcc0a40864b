----------------------------- MODULE AgentRuns -----------------------------
(***************************************************************************)
(* The calls of the language model and what they cost: the monthly token   *)
(* budget of one product and action type, the jobs that pass it, the one   *)
(* or two calls of an attempt, their timeout and the second try of a       *)
(* truncated answer, and the record from which the budget is computed.     *)
(***************************************************************************)
EXTENDS Integers, FiniteSets, Functions

CONSTANTS
  Runs,            \* bound: agent jobs alive at the same time
  Retries,         \* retryLimit of the queue
  HardLimit,       \* DEFAULT_HARD_LIMIT_TOKENS
  MaxCall,         \* tokens one call may cost
  MaxSpent,        \* bound: no job is dispatched once more was spent
  MaxAbandoned,    \* bound: calls that go on after their timeout
  Phase1MaxInput, Phase2MaxInput,
  CharsPerToken,   \* of estimateTokens()
  ShortText,       \* a phase-1 text below it counts as no summary
  KeptText,        \* of a text that is truncated, at least so much is kept
  Frame,           \* characters of the fixed sentences around text and prompt
  PromptLengths, TextLengths, ToolLengths  \* bounds: lengths that occur

\* The shortest prompt that passes phase 1 leaves room for what a truncated
\* prompt keeps.
ASSUME AgentRunsAssumption ==
  /\ IsFiniteSet(Runs) /\ HardLimit \in Nat \ {0}
  /\ Retries \in Nat /\ MaxCall \in Nat /\ MaxSpent \in Nat
  /\ MaxAbandoned \in Nat
  /\ Phase1MaxInput \in Nat /\ Phase2MaxInput \in Nat
  /\ CharsPerToken \in Nat \ {0} /\ ShortText \in Nat /\ KeptText \in Nat /\ Frame \in Nat
  /\ ShortText <= KeptText
  /\ PromptLengths \subseteq Nat /\ TextLengths \subseteq Nat /\ ToolLengths \subseteq Nat
  /\ CharsPerToken * Phase1MaxInput + KeptText + Frame <= CharsPerToken * Phase2MaxInput

VARIABLES
  run,        \* the jobs and their attempts
  recorded,   \* product_llm_usage of this month
  spent,      \* what the provider counted
  abandoned   \* calls that timed out and go on at the provider

agentVars == <<run, recorded, spent, abandoned>>

RunPoints == {"free", "send", "queued", "single", "phase1", "phase2", "again", "post",
              "complete"}

\* prompt: characters of system and user prompt.  input: the estimate of the
\* prompt of phase 2.  usage: what the calls of this attempt have reported.
Run == [pc : RunPoints, attempt : 0..Retries, prompt : Nat, input : Nat, usage : Nat]
NoRun == [pc |-> "free", attempt |-> 0, prompt |-> 0, input |-> 0, usage |-> 0]

RunAt(i, point) == run[i].pc = point
RunGoes(i, point) == run' = [run EXCEPT ![i] = [@ EXCEPT !.pc = point]]

-----------------------------------------------------------------------------
(* The prompt of phase 2.                                                  *)

\* Math.ceil(chars / 4)
EstimateTokens(chars) == (chars + CharsPerToken - 1) \div CharsPerToken

LongerOf(m, n) == IF m >= n THEN m ELSE n
ShorterOf(m, n) == IF m <= n THEN m ELSE n

\* Raw tool results are only added to a text that says little.
SynthesisChars(prompt, text, tools) ==
  prompt + Frame + text + (IF text < ShortText THEN tools ELSE 0)

\* Mutant of TruncatedChars: the overage is counted in tokens.
TruncatedByTokens(prompt, text, estimate) ==
  LET overage == estimate - Phase2MaxInput
  IN prompt + Frame + ShorterOf(text, LongerOf(KeptText, text - overage))

\* The text is cut, and the raw tool results are gone.
TruncatedChars(prompt, text, estimate) ==
  LET overage == (estimate - Phase2MaxInput) * CharsPerToken
  IN prompt + Frame + ShorterOf(text, LongerOf(KeptText, text - overage))

Phase2Input(prompt, text, tools) ==
  LET estimate == EstimateTokens(SynthesisChars(prompt, text, tools))
  IN IF estimate > Phase2MaxInput
     THEN EstimateTokens(TruncatedChars(prompt, text, estimate)) ELSE estimate

-----------------------------------------------------------------------------
(* Dispatch.                                                               *)

\* Mutant of CheckBudget: dispatch() without checkBudget().
CheckNothing(i) ==
  /\ RunAt(i, "free") /\ spent <= MaxSpent
  /\ RunGoes(i, "send") /\ UNCHANGED <<recorded, spent, abandoned>>

\* checkBudget(): only the hard limit rejects.
CheckBudget(i) ==
  /\ RunAt(i, "free") /\ spent <= MaxSpent
  /\ recorded < HardLimit
  /\ RunGoes(i, "send") /\ UNCHANGED <<recorded, spent, abandoned>>

\* boss.send(), or the insert of a transaction, which may fail.
SendRun(i) ==
  /\ RunAt(i, "send")
  /\ \/ RunGoes(i, "queued") \/ RunGoes(i, "free")
  /\ UNCHANGED <<recorded, spent, abandoned>>

-----------------------------------------------------------------------------
(* An attempt.  Nothing checks the budget again.                           *)

\* pg-boss retries the job, or the job is dead.  Either way nothing of the
\* attempt is recorded: an error result has no tokens.
Again(i) ==
  IF run[i].attempt < Retries
  THEN [NoRun EXCEPT !.pc = "queued", !.attempt = run[i].attempt + 1]
  ELSE NoRun

\* TokenBudgetError of the pre-check, or the first call, as the action's
\* strategy has it and as the provider supports tools.
StartRun(i) ==
  /\ RunAt(i, "queued")
  /\ \E prompt \in PromptLengths, point \in {"single", "phase1"} :
       run' = [run EXCEPT ![i] =
         IF EstimateTokens(prompt) > Phase1MaxInput THEN Again(i)
         ELSE [@ EXCEPT !.pc = point, !.prompt = prompt]]
  /\ UNCHANGED <<recorded, spent, abandoned>>

Calling(i) == run[i].pc \in {"single", "phase1", "phase2", "again"}

\* The text of phase 1 becomes part of the prompt of phase 2.
Phase1Answers(i) ==
  /\ RunAt(i, "phase1")
  /\ \E n \in 1..MaxCall, text \in TextLengths, tools \in ToolLengths :
       /\ spent' = spent + n
       /\ run' = [run EXCEPT ![i] = [run[i] EXCEPT !.pc = "phase2", !.usage = run[i].usage + n,
                    !.input = Phase2Input(run[i].prompt, text, tools)]]
  /\ UNCHANGED <<recorded, abandoned>>

\* generateObject() answers.
CallAnswers(i) ==
  /\ Calling(i) /\ ~RunAt(i, "phase1")
  /\ \E n \in 1..MaxCall :
       /\ spent' = spent + n
       /\ run' = [run EXCEPT ![i] = [run[i] EXCEPT !.pc = "post", !.usage = run[i].usage + n]]
  /\ UNCHANGED <<recorded, abandoned>>

\* AI_NoObjectGeneratedError: once more, with twice the output; the usage of the
\* first answer is lost with it.  A second one is a StructuredOutputError.
CallIsTruncated(i) ==
  /\ Calling(i) /\ ~RunAt(i, "phase1")
  /\ \E n \in 1..MaxCall : spent' = spent + n
  /\ run' = [run EXCEPT ![i] = IF RunAt(i, "again") THEN Again(i)
                               ELSE [@ EXCEPT !.pc = "again"]]
  /\ UNCHANGED <<recorded, abandoned>>

\* Promise.race() is lost: the call itself is not aborted.
CallTimesOut(i) ==
  /\ Calling(i) /\ abandoned < MaxAbandoned
  /\ abandoned' = abandoned + 1 /\ run' = [run EXCEPT ![i] = Again(i)]
  /\ UNCHANGED <<recorded, spent>>

AbandonedCallEnds ==
  /\ abandoned > 0 /\ abandoned' = abandoned - 1
  /\ \E n \in 0..MaxCall : spent' = spent + n
  /\ UNCHANGED <<run, recorded>>

\* Mutant of RecordRun: the usage is added beside the record of the run as well.
RecordRunTwice(i) ==
  /\ RunAt(i, "post") /\ RunGoes(i, "complete")
  /\ recorded' = recorded + 2 * run[i].usage
  /\ UNCHANGED <<spent, abandoned>>

\* writeAgentRun(), best effort.
RecordRun(i) ==
  /\ RunAt(i, "post") /\ RunGoes(i, "complete")
  /\ recorded' \in {recorded, recorded + run[i].usage}
  /\ UNCHANGED <<spent, abandoned>>

CompleteRun(i) ==
  /\ RunAt(i, "complete") /\ run' = [run EXCEPT ![i] = NoRun]
  /\ UNCHANGED <<recorded, spent, abandoned>>

\* The provider refuses, the worker throws after the calls, or the process ends.
RunFails(i) ==
  /\ Calling(i) \/ run[i].pc \in {"post", "complete"}
  /\ run' = [run EXCEPT ![i] = Again(i)]
  /\ UNCHANGED <<recorded, spent, abandoned>>

-----------------------------------------------------------------------------
AgentRunsInit ==
  /\ run = [i \in Runs |-> NoRun]
  /\ recorded = 0 /\ spent = 0 /\ abandoned = 0

AgentRunsNext ==
  \/ \E i \in Runs :
       \/ CheckBudget(i) \/ SendRun(i) \/ StartRun(i)
       \/ Phase1Answers(i) \/ CallAnswers(i) \/ CallIsTruncated(i) \/ CallTimesOut(i)
       \/ RecordRun(i) \/ CompleteRun(i) \/ RunFails(i)
  \/ AbandonedCallEnds

AgentRunsSpec == AgentRunsInit /\ [][AgentRunsNext]_agentVars

-----------------------------------------------------------------------------
(* Properties.                                                             *)

\* The runs, the usage counter and what was recorded have their types.
AgentRunsTypeOK ==
  /\ run \in [Runs -> Run]
  /\ recorded \in Nat /\ spent \in Nat /\ abandoned \in Nat

\* The prompt of phase 2 keeps to its budget: after the truncation nothing
\* checks it again, and the truncation must make up for a long prompt, long tool
\* results and a short text.
Phase2FitsBudget == \A i \in Runs : RunAt(i, "phase2") => run[i].input <= Phase2MaxInput

\* What the calls of an attempt have reported and no record shows yet.
UnrecordedOf(x) == IF x.pc = "complete" THEN 0 ELSE x.usage
Unrecorded == [i \in Runs |-> UnrecordedOf(run[i])]

\* What the month's usage counts was spent: neither a retry of a job whose
\* record was written, nor a truncated or abandoned call, is counted twice.
NeverOvercounted == recorded + SumFunction(Unrecorded) <= spent

\* The attempts of a job that may still be recorded.
AttemptsOf(x) ==
  IF x.pc = "free" THEN 0
  ELSE Retries - x.attempt + (IF x.pc = "complete" THEN 0 ELSE 1)
AttemptsLeft == [i \in Runs |-> AttemptsOf(run[i])]
MostPerAttempt == 2 * MaxCall

\* The hard limit is checked only when a job is dispatched.  It can be exceeded,
\* but only by what the attempts cost that the jobs alive then still have, the
\* retries of jobs that had their record written included.
OvershootIsBounded ==
  recorded + MostPerAttempt * SumFunction(AttemptsLeft)
    <= HardLimit - 1 + MostPerAttempt * ((Retries + 1) * Cardinality(Runs))
=============================================================================
