--------------------------- MODULE MCWebhookHandler ---------------------------
(* One delivery, three attempts, one crash: three goroutines may serve the     *)
(* delivery at once, answer late, and be cut off by the crash.  Deliveries     *)
(* share nothing but the endpoint, so a second one would show nothing new.     *)
EXTENDS WebhookHandler

\* Each single fault, and two requests in which several checks would fail.
MCArrival ==
    {Intact,
     [Intact EXCEPT !.body = "tooLarge"], [Intact EXCEPT !.body = "cutShort"],
     [Intact EXCEPT !.headers = FALSE], [Intact EXCEPT !.fresh = FALSE],
     [Intact EXCEPT !.signed = FALSE], [Intact EXCEPT !.parses = FALSE],
     [Intact EXCEPT !.body = "cutShort", !.signed = FALSE],
     [Intact EXCEPT !.signed = FALSE, !.parses = FALSE]}

\* OnError is nil: fail writes the status it is given.
NoOnError == [s \in FailStatus |-> s]

\* OnError only logs: nothing is written and net/http answers 200.
LogOnly == [s \in FailStatus |-> 200]
===============================================================================
