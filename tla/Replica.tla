------------------------------- MODULE Replica -------------------------------
(***************************************************************************)
(* What mygrate promises, whatever its connections and transactions are:   *)
(* the copy is always the source as it stood at one of its quiet points,   *)
(* where none of its transactions was half done, and it only moves on to   *)
(* later ones.                                                             *)
(***************************************************************************)
EXTENDS Integers, Sequences

CONSTANT Copied(_)   \* the part of the source's content that is copied

VARIABLES
  states,  \* states[i + 1]: the source after i changes
  quiet,   \* the numbers of changes after which the source was quiet
  at,      \* the number of changes the copy stands for
  copy

Init ==
  /\ Len(states) = 1
  /\ quiet = {0}
  /\ at = 0
  /\ copy = Copied(states[1])

\* The source changes: its past and its past quiet points stay what they were.
Change ==
  /\ Len(states') = Len(states) + 1
  /\ \A i \in 1..Len(states) : states'[i] = states[i]
  /\ quiet' \in {quiet, quiet \union {Len(states)}}
  /\ UNCHANGED <<at, copy>>

Advance ==
  /\ \E i \in quiet : i > at /\ at' = i
  /\ copy' = Copied(states[at' + 1])
  /\ UNCHANGED <<states, quiet>>

Next == Change \/ Advance

Spec == Init /\ [][Next]_<<states, quiet, at, copy>>
=============================================================================
