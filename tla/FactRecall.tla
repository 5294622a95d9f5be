----------------------------- MODULE FactRecall -----------------------------
(***************************************************************************)
(* How well a summary keeps the facts of its chapter                       *)
(* (src/application/summarization/fact_recall.py and                       *)
(* scripts/summary_fact_recall.py): a judge model lists weighted facts,    *)
(* then says of each, batch by batch, whether the summary supports it.     *)
(*                                                                         *)
(* A judge's reply is the sequence of entries [id, verdict] of its JSON    *)
(* object; an entry that does not parse is left out of the model as it is  *)
(* out of the result.  A reply without such an object raises a ValueError, *)
(* and the script skips the model and chunk size it was judging: there is  *)
(* no report then, and every reply here has its object.                    *)
(***************************************************************************)
EXTENDS Sorting, FiniteSetsExt

CONSTANT BatchSize     \* verification_batch_size

ASSUME BatchAssumption == BatchSize \in Nat \ {0}

\* parse_facts: a weight is clamped, one that is no number counts as 1.
Weight(raw) == IF raw \notin Int \/ raw < 1 THEN 1 ELSE IF raw > 3 THEN 3 ELSE raw

Batches(facts) == (Len(facts) + BatchSize - 1) \div BatchSize

\* The form of Numbered that goes on counting over the batches.
NumberedThrough(batch, i) == BatchSize * (batch - 1) + i

\* build_verification_content: the numbers start again in every batch.
Numbered(batch, i) == i

\* parse_verdicts: the last entry with a fact's number counts, no entry is
\* a missing fact.
VerdictOf(reply, number) ==
  LET entries == {k \in DOMAIN reply : reply[k].id = number}
  IN IF entries = {} THEN "missing" ELSE reply[Max(entries)].verdict

\* FactRecallEvaluator.verify, given the reply to each batch.
Verify(facts, replies) ==
  [n \in DOMAIN facts |->
     LET batch == ((n - 1) \div BatchSize) + 1
         i == ((n - 1) % BatchSize) + 1
     IN VerdictOf(replies[batch], Numbered(batch, i))]

Count(verdicts, what) == Cardinality({n \in DOMAIN verdicts : verdicts[n] = what})

\* The sum of the weights of the facts in ns, after each fact.
WeightUpTo(facts, ns) ==
  LET sum[n \in 0..Len(facts)] ==
        IF n = 0 THEN 0 ELSE sum[n - 1] + (IF n \in ns THEN Weight(facts[n]) ELSE 0)
  IN sum

WeightOf(facts, ns) == WeightUpTo(facts, ns)[Len(facts)]

\* Recall as a fraction <<supported, all>>; no facts are a recall of 1.
Recall(verdicts) ==
  IF verdicts = <<>> THEN <<1, 1>> ELSE <<Count(verdicts, "supported"), Len(verdicts)>>

WeightedRecall(facts, verdicts) ==
  LET all == WeightOf(facts, DOMAIN facts)
  IN IF all = 0 THEN <<1, 1>>
     ELSE <<WeightOf(facts, {n \in DOMAIN facts : verdicts[n] = "supported"}), all>>

\* _percentile: the nearest rank, rounded up, at least the first.
Rank(percent, count) == IF percent * count = 0 THEN 1 ELSE (percent * count + 99) \div 100

Percentile(values, percent) ==
  values[SortedBy(DOMAIN values, values)[Rank(percent, Len(values))]]

-----------------------------------------------------------------------------
\* However a judge answers (numbers out of range, twice, out of order), each
\* fact gets one verdict, and a verdict about one batch is never taken for
\* a fact of another.
VerdictsInTheirBatch(facts, replies) ==
  LET verdicts == Verify(facts, replies)
  IN /\ Len(verdicts) = Len(facts)
     /\ \A n \in DOMAIN facts :
          LET reply == replies[((n - 1) \div BatchSize) + 1]
              said == {e \in ToSet(reply) : e.id = ((n - 1) % BatchSize) + 1}
          IN IF said = {} THEN verdicts[n] = "missing" ELSE \E e \in said : verdicts[n] = e.verdict

\* The rates stay rates: weights of 0, negative or absurd ones cannot push a
\* recall above 1, and a supported fact is never worth nothing.
RatesInRange(facts, replies) ==
  LET verdicts == Verify(facts, replies)
      weighted == WeightedRecall(facts, verdicts)
  IN /\ 0 <= weighted[1] /\ weighted[1] <= weighted[2] /\ weighted[2] > 0
     /\ Count(verdicts, "supported") + Count(verdicts, "contradicted") <= Len(facts)
     /\ weighted[1] = 0 <=> Recall(verdicts)[1] = 0

\* The percentile is one of the scores, at least percent of the scores are
\* not above it, and fewer than that are below it.
PercentileIsNearestRank(values, percent) ==
  values # <<>> =>
    LET p == Percentile(values, percent)
    IN /\ p \in ToSet(values)
       /\ 100 * Cardinality({n \in DOMAIN values : values[n] <= p}) >= percent * Len(values)
       /\ percent > 0 => 100 * Cardinality({n \in DOMAIN values : values[n] < p}) < percent * Len(values)

\* What a recall experiment reports can be believed: every fact has its own
\* verdict, rates are rates, and a percentile is one (FactRecallEvaluator and
\* scripts/summary_fact_recall.py).
RecallIsHonest(facts, replies, percent) ==
  /\ VerdictsInTheirBatch(facts, replies)
  /\ RatesInRange(facts, replies)
  /\ PercentileIsNearestRank([n \in DOMAIN facts |-> Weight(facts[n])], percent)
=============================================================================
