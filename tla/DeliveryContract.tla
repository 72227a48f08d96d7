--------------------------- MODULE DeliveryContract ---------------------------
(***************************************************************************)
(* What a webhook endpoint built on the SDK promises the platform: an      *)
(* event counts as accepted only after the application took it.  An        *)
(* application may take an event that is never accepted (its answer was    *)
(* lost), which is why receivers deduplicate on Event.ID.                  *)
(***************************************************************************)
CONSTANT Delivery

VARIABLES taken,      \* deliveries the application took at least once
          accepted    \* deliveries the platform counts as accepted

vars == <<taken, accepted>>

Init == taken = {} /\ accepted = {}

\* The application takes delivery d (again, when an answer was lost).
Take(d) == /\ taken' = taken \cup {d}
           /\ UNCHANGED accepted

\* The platform records d as accepted, once, and never before it was taken.
Accept(d) == /\ d \in taken \ accepted
             /\ accepted' = accepted \cup {d}
             /\ UNCHANGED taken

Next == \E d \in Delivery : Take(d) \/ Accept(d)

Spec == Init /\ [][Next]_vars
===============================================================================
