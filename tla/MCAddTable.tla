------------------------------ MODULE MCAddTable ------------------------------
(* Small instances of AddTable: the tables a and b of the database d have a        *)
(* primary key, whose index copyIndexes always names pk_PRIMARY; a has a second    *)
(* index of its own, and c only one of its own; e has a column of a type           *)
(* TypeMapper does not know.                                                       *)
EXTENDS AddTable, TLC

CONSTANTS d, a, b, c, e, pk, ix, iy

MCTables == {d} \X Names
MCColumns == [t \in Tables |-> 2]
MCIndexes == [n \in Added |-> CASE n = a -> {pk, ix} [] n = c -> {iy} [] OTHER -> {pk}]
MCInitialContents == {[t \in Tables |-> [k \in Keys |-> None]]}
=============================================================================
