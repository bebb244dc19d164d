----------------------------- MODULE MCStorage ------------------------------
(***************************************************************************)
(* The instance of Storage for TLC: two candidates that are alike, two     *)
(* terms, two indexes, and two processes one after the other.  The term of *)
(* a snapshot is never looked at, so all snapshots are of one term.        *)
(***************************************************************************)
EXTENDS Storage, TLC

CONSTANTS a, b

TwoCandidates == {a, b}
Symmetry == Permutations(TwoCandidates)

SomeHardState == [currentTerm : 1 .. 2, votedFor : TwoCandidates \cup {Nil},
                  commitIndex : 0 .. 2]
SomeEntry == [index : 1 .. 2, term : 1 .. 2]
SomeEntries == {<<>>} \cup {<<e>> : e \in SomeEntry}
                 \cup {<<e, f>> : e \in {x \in SomeEntry : x.index = 1}, f \in SomeEntry}
Snapshots == [lastIncludedIndex : 1 .. 2, lastIncludedTerm : {1}]

\* A batch that is written to the log and the hard state, as processReady does.
LogBatches == [hardState : SomeHardState \cup {Nil}, truncateFrom : {1, 2, Nil},
               entries : SomeEntries, snapshot : {Nil}, appliedIndex : {Nil}]

\* An applied index alone, as apply and create write it, or with a hard state, a
\* snapshot or both.
OtherBatches == [hardState : SomeHardState \cup {Nil}, truncateFrom : {Nil},
                 entries : {<<>>}, snapshot : Snapshots \cup {Nil},
                 appliedIndex : 0 .. 2 \cup {Nil}]

\* A snapshot with entries that replace others.
RebuildBatches == [hardState : {Nil}, truncateFrom : {1, Nil},
                   entries : SomeEntries, snapshot : Snapshots, appliedIndex : {Nil}]

SomeBatches == LogBatches \cup OtherBatches \cup RebuildBatches
=============================================================================
