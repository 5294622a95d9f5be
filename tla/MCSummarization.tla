-------------------------- MODULE MCSummarization --------------------------
(* Small instances of Summarization for TLC.                               *)
EXTENDS Summarization, TLC

MCMessages1 == {1}
MCMessages2 == 1..2
MCMessages3 == 1..3

\* With ChunkTokens = 1 every message fills a chapter, with 2 every two do.
MCTokens == [m \in Messages |-> 1]

Overlapping == {{"crash", "error", "overlap"}}
Maximal == {{"crash", "error"}, {"crash", "error", "overlap"}, {"confirm", "overlap"},
            {"redeliver"}, {}}
Misjudged == {{"confirm"}}

\* The row that is used last. It is no part of the symmetry.
LastRow == CHOOSE s \in Summaries : TRUE
Symmetric == Permutations(Summaries \ {LastRow}) \cup Permutations(Tasks)

\* Without faults three chapters queue up: a message is written when the one
\* before is claimed, and nobody deletes or edits.
Pumping == faults = {}

\* Otherwise the chat has two messages, or one where results may come twice,
\* and LastRow is not used; EditsSurvive says nothing of misjudged publishes
\* and doubled deliveries, so there nobody edits.
Written(m) == IF Pumping
              THEN m > 1 => summaryOf[m - 1] # NoSummary
              ELSE m <= IF "redeliver" \in faults THEN 1 ELSE 2
Edits == ~Pumping /\ {"confirm", "redeliver"} \cap faults = {}

\* A handler plans no summaries it has no row for.
Absent == WithStatus("absent")
RowLeft(t) ==
  \/ Pumping /\ (LastRow \in Absent' \/ Absent' = {})
  \/ /\ LastRow \in Absent'
     /\ PlanChosen(t) => Cardinality(task'[t].chapters) < Cardinality(Absent)

BoundedNext ==
  \/ \E m \in Messages : (Written(m) /\ NewMessage(m)) \/ (~Pumping /\ DeleteMessage(m))
  \/ ~Pumping /\ DropScene
  \/ \E t \in Tasks : Poll(t) \/ Summarize(t) \/ (Handler(t) /\ RowLeft(t)) \/ Abort(t)
  \/ \E t \in Tasks, s \in Summaries : Edits /\ EditCheck(t, s)
  \/ \E t \in Tasks : \E res \in results : Receive(t, res)
  \/ \E req \in requests : AgentAnswers(req)
  \/ Crash

BoundedSpec == Init /\ [][BoundedNext]_vars
=============================================================================
