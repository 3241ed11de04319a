------------------------------ MODULE MCGateway ------------------------------
(***************************************************************************)
(* Up to four requests of one address and one API key.  The mixes bound   *)
(* which requests, failures and operators meet.                            *)
(***************************************************************************)
EXTENDS Gateway

Key == [known |-> TRUE, active |-> TRUE, salted |-> FALSE, role |-> "admin", methods |-> {"GET", "POST"},
        elsewhere |-> FALSE, expires |-> 10, used |-> 0, deadAt |-> -10]
Get == [path |-> "vault", method |-> "GET", token |-> "none", id |-> 1, key |-> 0, body |-> 0]
Post == [path |-> "admin", method |-> "POST", token |-> "key", id |-> 1, key |-> 1, body |-> 1]
List == [Post EXCEPT !.method = "GET", !.key = 0]
Login0 == [Post EXCEPT !.path = "login", !.token = "none", !.key = 0]
Visit == [List EXCEPT !.token = "session"]
Renew == [Visit EXCEPT !.path = "refresh", !.method = "POST"]
Base == [requests |-> <<Post, Post, Post>>, keys |-> <<Key>>, limit |-> 8, may |-> {},
         until |-> 0, abreast |-> 2]

\* A key as generate-api-key stores it.
Generated ==
  { [Base EXCEPT !.requests = <<List, Login0, List>>, !.until = 1, !.may = {"redis", "delete"},
                 !.keys = <<[Key EXCEPT !.salted = TRUE]>>] }

PassingMixes ==
  { [Base EXCEPT !.requests = <<Get, Get, Get, Get>>, !.may = {"db"}, !.until = 3,
                 !.abreast = 1],
    [Base EXCEPT !.requests = <<Get, Get>>, !.may = {"redis", "write"}, !.until = 2],
    [Base EXCEPT !.requests = <<Get, Get, [Get EXCEPT !.token = "key"]>>,
                 !.may = {"db", "lag"}, !.limit = 4],
    [Base EXCEPT !.requests = <<Get, Get>>, !.may = {"crash"}, !.until = 1],
    [Base EXCEPT !.requests = <<Post, [Post EXCEPT !.body = 2],
                                [Post EXCEPT !.path = "webhooks"]>>, !.abreast = 3],
    [Base EXCEPT !.requests = <<Post, Post, [Post EXCEPT !.body = 2]>>, !.until = 2,
                 !.abreast = 1],
    [Base EXCEPT !.requests = <<Post, Post>>, !.may = {"db", "crash"}],
    [Base EXCEPT !.requests = <<List, List, List>>, !.until = 3, !.abreast = 1,
                 !.may = {"delete", "activate", "sweep"}],
    [Base EXCEPT !.requests = <<List, List>>, !.until = 1, !.may = {"delete", "redis"}],
    [Base EXCEPT !.requests = <<Login0, Visit, Visit, Renew>>, !.until = 2, !.may = {"db"},
                 !.abreast = 1],
    [Base EXCEPT !.requests = <<List, [List EXCEPT !.token = "none"], Post, Login0>>,
                 !.keys = <<[Key EXCEPT !.role = "readonly", !.expires = 1]>>, !.until = 1],
    [Base EXCEPT !.requests = <<Login0, Visit, List>>,
                 !.keys = <<[Key EXCEPT !.elsewhere = TRUE]>>] } \cup Generated

Repeated == {[Base EXCEPT !.requests = <<Post, Post>>]}
=============================================================================
