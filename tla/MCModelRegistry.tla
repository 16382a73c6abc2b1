--------------------------- MODULE MCModelRegistry ---------------------------
(* A small instance of ModelRegistry for TLC. *)
EXTENDS ModelRegistry, TLC

Of(i, score, value, label) == [incident |-> i, of |-> score, value |-> value, at |-> label]

Snapshot(i, mode) ==
    [incident |-> i, at |-> i, ended |-> NotEnded, mode |-> mode, attested |-> TRUE]

\* What is on record of one incident: a score and its label, a label of a score that
\* was replaced, or a label of the second the score was made in.
Recorded(i) ==
    {[scores |-> {[incident |-> i, at |-> i]}, labels |-> {Of(i, i, value, i + 1)},
      sources |-> {Snapshot(i, "manual_snapshot")}] :
            value \in {"relevant", "not_relevant", "uncertain"}}
    \cup {[scores |-> {[incident |-> i, at |-> i]}, labels |-> {Of(i, i, "relevant", i)},
           sources |-> {Snapshot(i, "manual_snapshot")}],
          [scores |-> {[incident |-> i, at |-> 1], [incident |-> i, at |-> 4]},
           labels |-> {Of(i, 1, "relevant", 2), Of(i, 4, "not_relevant", 5)},
           sources |-> {Snapshot(i, "manual_snapshot")}]}

\* The same with a poll among the sources, which may move to another incident later.
Polled(record, ended) ==
    [record EXCEPT !.sources = @ \cup
        {[Snapshot(source.incident, "live_poll") EXCEPT !.ended = ended] : source \in @}]

Joined(a, b, c, d) ==
    [scores |-> a.scores \cup b.scores \cup c.scores \cup d.scores,
     labels |-> a.labels \cup b.labels \cup c.labels \cup d.labels,
     sources |-> a.sources \cup b.sources \cup c.sources \cup d.sources]

\* Four incidents: the first is labelled in good time, with the second it may give the
\* classes to train on; the third may be polled.
Plain(i) ==
    {r \in Recorded(i) : \E value \in {"relevant", "not_relevant"} :
        r.labels = {Of(i, i, value, i + 1)}}
Histories ==
    {Joined(a, b, c, d) :
        a \in Plain(1), b \in Recorded(2),
        c \in Recorded(3) \cup
            {Polled(CHOOSE r \in Recorded(3) : r.labels = {Of(3, 3, "relevant", 4)}, ended) :
                ended \in {5, NotEnded}},
        d \in {r \in Recorded(4) : Cardinality(r.scores) = 1}}

Symmetry == Permutations(Key) \cup Permutations(Session)
=============================================================================
