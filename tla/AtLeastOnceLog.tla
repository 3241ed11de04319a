--------------------------- MODULE AtLeastOnceLog ---------------------------
(***************************************************************************)
(* What the indexer promises of one stream of ledgers, without its stages: *)
(* a ledger below the cursor has been dealt with, or is owed to a contract *)
(* that is paused or was and has not been caught up.  A ledger may be      *)
(* dealt with early and again, the cursor may be set back, but no ledger   *)
(* is passed over.                                                         *)
(***************************************************************************)
EXTENDS Integers

VARIABLES tip,     \* the ledgers the chain has
          cursor,  \* the last ledger the consumer says it is past
          done,    \* the ledgers that need nothing more
          owed     \* the ledgers set aside

vars == <<tip, cursor, done, owed>>

Init == tip = 0 /\ cursor = 0 /\ done = {} /\ owed = {}

\* A ledger without an event of the stream needs nothing.
Append1 ==
  /\ tip' = tip + 1
  /\ done' \in {done, done \cup {tip + 1}}
  /\ UNCHANGED <<cursor, owed>>

\* Any ledgers are dealt with; those passed without it are owed.
Deliver ==
  \E to \in cursor..tip, some \in SUBSET (1..tip) :
    /\ cursor' = to
    /\ done' = done \cup some
    /\ owed' = (owed \cup ((cursor + 1)..to)) \ done'
    /\ UNCHANGED tip

\* A backfill of an old range sets the cursor back.
Retreat ==
  \E to \in 0..(cursor - 1), some \in SUBSET (1..tip) :
    /\ cursor' = to
    /\ done' = done \cup some
    /\ owed' = (owed \cap (1..to)) \ done'
    /\ UNCHANGED tip

Next == Append1 \/ Deliver \/ Retreat
Spec == Init /\ [][Next]_vars

\* Nothing below the cursor is forgotten.
Complete == 1..cursor \subseteq done \cup owed
=============================================================================
