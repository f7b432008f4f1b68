----------------------------- MODULE IngestStore -----------------------------
(***************************************************************************)
(* What the ingest path promises (spec sections 1, 4.5 and 5): a FIFO     *)
(* from enqueue() to the SQL store with counted loss.  Every frame         *)
(* offered is either waiting, stored, or lost, and a lost frame was        *)
(* counted as dropped or went down with a crashed process.  The store      *)
(* receives waiting frames oldest first: a commit never passes over an     *)
(* older frame that is still waiting.                                      *)
(*                                                                         *)
(* `stored' is the store read as distinct frames in first-commit order;   *)
(* whether a frame is committed more than once is a separate question      *)
(* (IngestPipeline!NoDuplicateCommit).                                     *)
(***************************************************************************)
EXTENDS Naturals, Sequences, FiniteSets

CONSTANT MaxEntries

VARIABLES
  offered,   \* frames handed to enqueue(): 1..offered
  waiting,   \* frames on their way to the store
  stored,    \* frames in the store, in first-commit order
  lost       \* frames that will never reach the store

vars == <<offered, waiting, stored, lost>>

Init ==
  /\ offered = 0
  /\ waiting = {}
  /\ stored = <<>>
  /\ lost = {}

\* A new frame is accepted, or refused at once (queue full).
Offer ==
  /\ offered < MaxEntries
  /\ offered' = offered + 1
  /\ \/ waiting' = waiting \cup {offered + 1} /\ UNCHANGED lost
     \/ lost' = lost \cup {offered + 1} /\ UNCHANGED waiting
  /\ UNCHANGED stored

\* The k-th oldest waiting frame.
Oldest(k) == CHOOSE e \in waiting : Cardinality({x \in waiting : x < e}) = k - 1

\* One commit: the n oldest waiting frames, in order.
Store ==
  \E n \in 1..Cardinality(waiting) :
     /\ stored' = stored \o [k \in 1..n |-> Oldest(k)]
     /\ waiting' = waiting \ {Oldest(k) : k \in 1..n}
     /\ UNCHANGED <<offered, lost>>

\* Waiting frames are given up: a full spill store, or a crash.
Lose ==
  \E S \in SUBSET waiting :
     /\ S # {}
     /\ waiting' = waiting \ S
     /\ lost' = lost \cup S
     /\ UNCHANGED <<offered, stored>>

Next == Offer \/ Store \/ Lose

Spec == Init /\ [][Next]_vars

=============================================================================
