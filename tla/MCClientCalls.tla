---------------------------- MODULE MCClientCalls -----------------------------
(* Sends: a send that is retried with its idempotency key, another message    *)
(* that reuses the key, and a job whose request cannot be built.  Manage: a   *)
(* scheduled send, then a change that is retried, while another program reads *)
(* or cancels the email or sends a second one into the batch.                 *)
EXTENDS ClientCalls

CONSTANTS order, other, broken, digest, change, rival

MCVerbs == [j \in Job |-> IF j = change THEN Verb \ {"send", "get"}
                         ELSE IF j = rival THEN {"get", "cancel", "send"} ELSE {"send"}]
MCKeyOf == [j \in Job |-> IF j \in {order, other} THEN "key" ELSE NoKey]
MCMaxTries == [j \in Job |-> IF j \in {order, change} THEN 2 ELSE 1]
MCAfter == [j \in Job |-> IF j \in {change, rival} THEN {digest} ELSE {}]
MCScheduling == Job \cap {digest, rival}
MCUnbuildable == Job \cap {broken}
===============================================================================
