--------------------------- MODULE MCWebhookReceiver --------------------------
(* Two deliveries of two attempts each, so that attempts at one delivery      *)
(* overlap while another delivery competes for the queue.  Requests arrive    *)
(* intact: what a failed check answers is a matter of MCWebhookHandler.       *)
EXTENDS WebhookReceiver

MCArrival == {Intact}

\* The OnError of the example answers 400 whatever failed.
Always400 == [s \in FailStatus |-> 400]
===============================================================================
