------------------------------ MODULE MCIndexer ------------------------------
(***************************************************************************)
(* Small instances of Indexer.                                             *)
(***************************************************************************)
EXTENDS Indexer

Ev(of, kind) == [of |-> of, kind |-> kind]
Created == Ev(Factory, "create")
OfFactory == Ev(Factory, "plain")
OfVault == Ev(Vault, "plain")
Bad == Ev(Factory, "bad")
\* An event whose handler the database refuses: minimum_deposit_updated and
\* redemption_queue_updated name tables no migration creates, and a state
\* outside the enumeration of the column is refused too.
Poison == Ev(Factory, "poison")

Base == [ledgers |-> 4, events |-> {Created, OfFactory, OfVault}, faults |-> {}, settings |-> 0,
         admin |-> {}, crashes |-> 0, jobs |-> {}, within |-> TRUE, stop |-> FALSE, declared |-> TRUE]
PassingMixes ==
  { [Base EXCEPT !.faults = {"fetch", "commit", "fill", "controls"}, !.crashes = 1,
                 !.events = @ \cup {Bad}],
    [Base EXCEPT !.admin = {"pause", "resume"}, !.settings = 3, !.ledgers = 3,
                 !.faults = {"replay", "controls"}],
    [Base EXCEPT !.admin = {"filter", "pause"}, !.settings = 2, !.ledgers = 3],
    [Base EXCEPT !.events = @ \cup {Poison}, !.admin = {"pause", "resume"}, !.settings = 2,
                 !.ledgers = 3],
    [Base EXCEPT !.jobs = {<<1, 3>>}, !.faults = {"fill", "commit"}],
    [Base EXCEPT !.jobs = {<<0, 2>>}, !.stop = TRUE, !.ledgers = 3,
                 !.faults = {"start", "retries"}],
    [Base EXCEPT !.declared = FALSE, !.crashes = 1, !.ledgers = 3,
                 !.faults = {"fetch", "fill"}, !.jobs = {<<0, 2>>}],
    \* The engine as it stands, with nothing that fails but itself.
    [Base EXCEPT !.declared = FALSE, !.crashes = 1],
    [Base EXCEPT !.declared = FALSE, !.crashes = 1, !.ledgers = 3,
                 !.admin = {"pause", "resume"}, !.settings = 2],
    \* A pause beside a job.
    [Base EXCEPT !.events = {Created, OfFactory}, !.ledgers = 3, !.jobs = {<<0, 2>>},
                 !.admin = {"pause"}, !.settings = 1] }

\* Nothing fails and nobody interferes.
Undisturbed == {Base}
\* The engine as it stands, restarted once; a pause that comes back, beside a job.
PauseBesideJob ==
  {[Base EXCEPT !.declared = FALSE, !.crashes = 1, !.events = {Created, OfFactory}, !.ledgers = 2,
                !.admin = {"pause", "resume"}, !.settings = 4, !.jobs = {<<0, 1>>}]}
=============================================================================
