----------------------------- MODULE MCWebhooks -----------------------------
(***************************************************************************)
(* Two endpoints.  The mixes bound which answers, faults and operations    *)
(* meet.                                                                   *)
(***************************************************************************)
EXTENDS Webhooks

Plain == [cap |-> 0, fallback |-> 0, priority |-> 1, channel |-> "webhook"]
\* The first endpoint with a fallback nobody notifies: its mailbox tier is later.
Base == [hooks |-> <<Plain, [Plain EXCEPT !.priority = 2]>>, events |-> 2,
         personal |-> TRUE, prefs |-> {}, answers |-> {"ok", "refused"},
         admin |-> {}, settings |-> 1, faults |-> {}, hours |-> 0]
NotSlack == {[channel |-> "slack", vault |-> 0, enabled |-> FALSE]}
Fallback == <<[Plain EXCEPT !.fallback = 2], [Plain EXCEPT !.channel = "slack"]>>

\* The second endpoint is a mailbox, so that one endpoint gets all the traffic.
Mailbox == <<Plain, [Plain EXCEPT !.priority = 2, !.channel = "email"]>>

PassingMixes ==
  { [Base EXCEPT !.hooks = Mailbox, !.events = 3],
    [Base EXCEPT !.answers = {"ok", "refused", "error"}, !.events = 1, !.faults = {"crash"},
                 !.hooks = Mailbox],
    [Base EXCEPT !.answers = {"error"}, !.events = 1, !.prefs = NotSlack, !.hooks = Fallback],
    [Base EXCEPT !.events = 2, !.prefs = NotSlack, !.hooks = Fallback],
    [Base EXCEPT !.events = 1, !.admin = {"reset", "toggle"}, !.answers = {"refused"}],
    [Base EXCEPT !.events = 1, !.admin = {"replay", "delete"}, !.hooks = Mailbox],
    [Base EXCEPT !.events = 1, !.admin = {"replay"}, !.hooks = Mailbox, !.settings = 2,
                 !.answers = {"refused"}],
    [Base EXCEPT !.admin = {"optout", "prefs"}, !.hooks = Mailbox, !.settings = 2,
                 !.answers = {"ok"}],
    [Base EXCEPT !.events = 1, !.admin = {"rotate"}, !.settings = 2, !.hours = 2,
                 !.hooks = Mailbox],
    [Base EXCEPT !.faults = {"redis"}, !.hooks = [Mailbox EXCEPT ![1].cap = 1], !.hours = 1] }
=============================================================================
