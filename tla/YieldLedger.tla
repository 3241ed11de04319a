----------------------------- MODULE YieldLedger ------------------------------
(***************************************************************************)
(* What the vault promises of yield, without shares, snapshots, vesting or *)
(* cash: a distribution settles once and for all what each user may get of *)
(* it, users get it in parts and at any time, never more, and nothing any  *)
(* more once it is settled.                                                *)
(***************************************************************************)
EXTENDS Totals

CONSTANTS Users, Epochs,
          Amounts  \* the yields that may be distributed

VARIABLES count,   \* distributions until now
          yield,   \* what each distributed
          owed,    \* by epoch and user, what the user may get of it
          paid,    \* by user and epoch, what the user got of it
          settled  \* by user, the epochs nothing more is paid of

vars == <<count, yield, owed, paid, settled>>

Init ==
  /\ count = 0
  /\ yield = [e \in 1..0 |-> 0]
  /\ owed = [e \in 1..0 |-> [u \in Users |-> 0]]
  /\ paid = [u \in Users |-> [e \in Epochs |-> 0]]
  /\ settled = [u \in Users |-> {}]

\* What users may get adds up to at most the yield: parts are rounded down.
Distribute ==
  /\ count' = count + 1
  /\ \E amount \in Amounts : \E part \in [Users -> 0..amount] :
       /\ yield' = [e \in 1..(count + 1) |-> IF e <= count THEN yield[e] ELSE amount]
       /\ owed' = [e \in 1..(count + 1) |-> IF e <= count THEN owed[e] ELSE part]
       /\ Total(part, Users) <= amount
  /\ UNCHANGED <<paid, settled>>

\* Payments that give a user something of epochs that are not settled.
Payments(user) ==
  {to \in [Users -> [Epochs -> Nat]] :
     \A u \in Users : \A e \in Epochs :
       to[u][e] # paid[u][e] => /\ u = user /\ e \in (1..count) \ settled[u]
                                /\ paid[u][e] < to[u][e] /\ to[u][e] <= owed[e][u]}

\* The user gets something of any epochs, and any are settled with it.
Pay(user) ==
  /\ paid' \in Payments(user)
  /\ \E some \in SUBSET (1..count) : settled' = [settled EXCEPT ![user] = @ \cup some]
  /\ UNCHANGED <<count, yield, owed>>

Next == Distribute \/ \E user \in Users : Pay(user)
Spec == Init /\ [][Next]_vars

\* What was paid of an epoch, to all users, is at most what it distributed.
Solvent == \A e \in 1..count : Total([u \in Users |-> paid[u][e]], Users) <= yield[e]
=============================================================================
