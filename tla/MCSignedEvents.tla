---------------------------- MODULE MCSignedEvents ----------------------------
(* Two deliveries; the first may have any of the bodies a newer or an older   *)
(* platform writes, the second one is an event without a message context.     *)
(* Stamps at and next to both ends of both tolerances; a negative tolerance   *)
(* is the default one.  No age here is beyond what a duration holds.          *)
EXTENDS SignedEvents, TLC

CONSTANTS d1, d2

Typed(type, data) == Body("object", type, "now", data)
With(members) == Data("object", members)
Unread == Data("absent", NoMembers)

MCBodies == {
    Typed("email.bounced", With(<<"domain">> :> "null" @@ <<"subject">> :> "empty"
                                @@ <<"bounce", "code">> :> "value" @@ <<"newer">> :> "value")),
    Typed("email.bounced", With(<<"email_id">> :> "value" @@ <<"bounce", "code">> :> "misfit")),
    Typed("email.bounced", With(<<"domain">> :> "value" @@ <<"bounce">> :> "misfit")),
    Typed("email.clicked", With(<<"click", "country">> :> "empty" @@ <<"click", "link">> :> "value")),
    Typed("email.opened", With(NoMembers)),
    Typed("email.scheduled", Data("null", NoMembers)),
    Typed("email.sent", Data("scalar", NoMembers)),
    Typed("email.newer", With(<<"domain">> :> "misfit" @@ <<"newer">> :> "null")),
    Body("null", "", "", Unread),
    Body("broken", "", "", Unread)}

MCBodiesOf == [d \in Delivery |->
    IF d = d1 THEN MCBodies
    ELSE {Typed("domain.status", With(<<"domain">> :> "value" @@ <<"previous", "status">> :> "empty"))}]
MCStamp == {-2, 0, 1, 3}
MCTolerances == {-1, 0, 2}
===============================================================================
