---------------------------- MODULE MCProjection ----------------------------
(***************************************************************************)
(* Small instances of VaultProjection: the groups of events that happen    *)
(* together in a behaviour.                                                *)
(***************************************************************************)
EXTENDS EndpointAgreement

CONSTANTS u1, u2
MCUsers == {u1, u2}
\* The users are interchangeable: no handler and no event tells them apart.
UserSymmetry == Permutations(MCUsers)

Mix(kinds, events) == [kinds |-> kinds \cup {"create"}, events |-> events]
AllMixes ==
  { Mix({"deposit", "withdraw", "yield", "state"}, 6),
    Mix({"deposit", "state", "yield", "claim"}, 6),
    Mix({"deposit", "state", "queue"}, 6),
    Mix({"state", "settings"}, 5),
    Mix({"deposit", "state", "yield", "resync"}, 5),
    Mix({"deposit", "transfer", "other"}, 4),
    Mix({"deposit", "withdraw", "state", "admin", "neighbours"}, 4),
    Mix({"deposit", "yield", "state", "report"}, 5) }
=============================================================================
