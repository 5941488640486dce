--------------------------- MODULE MCUpdateDatabase ---------------------------
(* Small instances of UpdateDatabase: the database d that is replicated has the    *)
(* added table a and a table b that was never added; the database o, which is not  *)
(* replicated, has a table called a as well.                                       *)
EXTENDS UpdateDatabase, FiniteSets, TLC

CONSTANTS d, o, a, b

MCTables == {<<d, a>>, <<d, b>>, <<o, a>>}

\* The added table alone, where a run is about files and positions, and with the
\* table of the same name that is not replicated.
MCOneTable == {<<d, a>>}
MCTwoTables == {<<d, a>>, <<o, a>>}

\* The two tables of the replicated database differ in their number of columns.
MCColumns == [t \in Tables |-> IF t = <<d, b>> THEN 3 ELSE 2]

\* Replication starts from a snapshot of a with one row, or with none.
Empty(c, t) == \A k \in Keys : c[t][k] = None
MCInitialContents ==
  {c \in Content : /\ \A t \in Tables \ {<<d, a>>} : Empty(c, t)
                   /\ Cardinality({k \in Keys : c[<<d, a>>][k] # None}) = 1}
MCEmptyContents == {c \in Content : \A t \in Tables : Empty(c, t)}

Symmetry == Permutations(Keys) \union Permutations(Vals)
=============================================================================
