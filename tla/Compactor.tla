----------------------------- MODULE Compactor ------------------------------
(***************************************************************************)
(* One compact() of RecencyCompactor (memory/compactor.py): the newest     *)
(* messages are kept, the older ones summarized, the summary scored, and a *)
(* second summarizer asked when the score is low.  The messages are copied *)
(* before the first await, so calls have nothing to do with each other.    *)
(*                                                                         *)
(* Of a text there are the numbers and the content words in it, the role   *)
(* of a message among them; of a summary only those that are in the source *)
(* matter.  A score is in thousandths of Scale(Source), which is the same  *)
(* for all summaries of a source, so that it is exact.  The validation of  *)
(* summaries is on, as it is by default.                                   *)
(***************************************************************************)
EXTENDS Integers, Sequences, FiniteSets

CONSTANTS
    Inputs,         \* sequences of messages: tokens, numbers and words of each
    Budgets,        \* budget_tokens
    PreserveLastN,
    Threshold,      \* validation_threshold
    HasRetry        \* a retry_summarizer is configured

VARIABLES
    compaction,  \* where the call is: "idle", "summarizing", "retrying", "done", "failed"
    messages, budget,
    summary,     \* the best so far
    score        \* its score, in thousandths of Scale(Source)

vars == <<compaction, messages, budget, summary, score>>

NoText == [numbers |-> {}, words |-> {}]

Newest(k) == messages[Len(messages) - k + 1]  \* the k-th newest message

\* The tokens of the k newest messages
Tokens[k \in 0..Len(messages)] == IF k = 0 THEN 0 ELSE Tokens[k-1] + Newest(k).tokens

Init ==
    /\ compaction = "idle" /\ messages = <<>> /\ budget = 0
    /\ summary = NoText /\ score = 0

\* How much of a set another has, out of Whole(all); nothing is all of nothing.
Whole(all)       == IF all = {} THEN 1 ELSE Cardinality(all)
Share(all, some) == IF all = {} THEN 1 ELSE Cardinality(all \cap some)

Scale(source) == Whole(source.numbers) * Whole(source.words)

-----------------------------------------------------------------------------
(* Mutants *)

\* Kept that looks at the budget before the message is added.
KeptPastTheBudget ==
    LET kept[k \in 0..Len(messages)] ==
          IF k = 0 THEN 0
          ELSE IF kept[k-1] = k-1 /\ k <= PreserveLastN /\ Tokens[k-1] <= budget
               THEN k ELSE kept[k-1]
    IN  kept[Len(messages)]

\* Score with the two weights the other way round.
ScoreOfWords(source, text) ==
    400 * Share(source.numbers, text.numbers) * Whole(source.words)
      + 600 * Share(source.words, text.words) * Whole(source.numbers)

-----------------------------------------------------------------------------
(* The algorithms *)

\* _select_preserved(): how many messages are kept after k rounds of the loop, and
\* their tokens; the loop breaks at the first message that does not fit.
Preserved[k \in 0..Len(messages)] ==
    IF k = 0 THEN [kept |-> 0, total |-> 0]
    ELSE LET before == Preserved[k-1]
             total  == before.total + Newest(k).tokens
         IN  IF before.kept = k-1 /\ k <= PreserveLastN /\ total <= budget
               THEN [kept |-> k, total |-> total]
               ELSE before

Kept == Preserved[Len(messages)].kept

Older == SubSeq(messages, 1, Len(messages) - Kept)

Source == [numbers |-> UNION {Older[i].numbers : i \in DOMAIN Older},
           words   |-> UNION {Older[i].words : i \in DOMAIN Older}]

\* score_compaction(): 600 for the share of the numbers, 400 for that of the words
Score(source, text) ==
    600 * Share(source.numbers, text.numbers) * Whole(source.words)
      + 400 * Share(source.words, text.words) * Whole(source.numbers)

\* What a summarizer may return
Summaries == [numbers : SUBSET Source.numbers, words : SUBSET Source.words]

-----------------------------------------------------------------------------
(* compact() *)

Compact(input, tokens) ==
    /\ compaction = "idle" /\ messages' = input /\ budget' = tokens
    /\ compaction' = IF Older' = <<>> THEN "done" ELSE "summarizing"
    /\ UNCHANGED <<summary, score>>

Summarized(text) ==
    /\ compaction = "summarizing"
    /\ summary' = text /\ score' = Score(Source, text)
    /\ compaction' = IF score' < Threshold * Scale(Source) /\ HasRetry THEN "retrying" ELSE "done"
    /\ UNCHANGED <<messages, budget>>

\* CompactionError
SummarizerRaises ==
    /\ compaction = "summarizing" /\ compaction' = "failed"
    /\ UNCHANGED <<messages, budget, summary, score>>

RetryAnswers(text) ==
    /\ compaction = "retrying" /\ compaction' = "done"
    /\ IF Score(Source, text) >= score
         THEN summary' = text /\ score' = Score(Source, text)
         ELSE UNCHANGED <<summary, score>>
    /\ UNCHANGED <<messages, budget>>

\* The first summary will do.
RetryRaises ==
    /\ compaction = "retrying" /\ compaction' = "done"
    /\ UNCHANGED <<messages, budget, summary, score>>

Degraded == Older # <<>> /\ score < Threshold * Scale(Source)

Next ==
    \/ \E input \in Inputs, tokens \in Budgets : Compact(input, tokens)
    \/ \E text \in Summaries : Summarized(text) \/ RetryAnswers(text)
    \/ SummarizerRaises \/ RetryRaises

=============================================================================
