---------------------------- MODULE ScheduledPages ----------------------------
(***************************************************************************)
(* Walking the scheduled emails (scheduled_emails.go): All follows the     *)
(* links the API issues, lazily, while a consumer takes items and may      *)
(* abandon the loop, while emails leave the collection, and while any page *)
(* may fail to come.  The README's loop over List, for modules older than  *)
(* Go 1.23, is the other walker.                                           *)
(***************************************************************************)
EXTENDS Integers, Sequences, FiniteSets, SequencesExt

CONSTANTS
    Collection,     \* the emails in the order of the listing, a sequence
    PageSize,       \* items per page
    MaxRanges,      \* bound: times the sequence All returned is ranged over
    ByHand          \* the README's loop walks instead of All

ASSUME PagesAssumption ==
    /\ Collection \in Seq(STRING) /\ IsInjective(Collection)
    /\ PageSize \in Nat \ {0} /\ MaxRanges \in Nat \ {0}
    /\ ByHand \in BOOLEAN

Email == {Collection[i] : i \in 1..Len(Collection)}

\* Emails in the order of the listing: the i-th is the one with i - 1 others ahead of it.
Position(e) == CHOOSE i \in 1..Len(Collection) : Collection[i] = e
Ahead(S, e) == {f \in S : Position(f) < Position(e)}
InOrder(S) == [i \in 1..Cardinality(S) |-> CHOOSE e \in S : Cardinality(Ahead(S, e)) = i - 1]

VARIABLES
    matching,   \* emails that match the caller's filters
    atStart,    \* history: matching when the walk started
    pc,         \* the walker: "fetch", "yield", "done", "stopped" or "failed"
    spec,       \* the next request: its filters, its page and whose origin its URL names
    body,       \* what the walk's last page was decoded from: "page", "emptyObject", or "none" yet
    items,      \* what is left of the page in hand
    link,       \* the page's link to the next one, as a spec, or NoLink
    yielded,    \* what the consumer of this walk got
    ranges      \* walks started

walker == <<pc, spec, body, items, link, yielded, ranges>>
vars == <<matching, atStart, walker>>

Request(filtered, page, own) == [filtered |-> filtered, page |-> page, own |-> own]
NoLink == Request(FALSE, 0, TRUE)

\* listSpec: the filters of the caller, and no page until there is one to name.
FirstSpec == Request(TRUE, 1, TRUE)

Init ==
    /\ matching \in SUBSET Email /\ atStart = matching
    /\ pc = "fetch" /\ spec = FirstSpec
    /\ body = "none" /\ items = <<>> /\ link = NoLink /\ yielded = <<>> /\ ranges = 1

-------------------------------------------------------------------------------
\* The API's listing: page-number pagination of what matches now, and an absolute link with the
\* query in place when there is a following page.
Listing(s) == InOrder(IF s.filtered THEN matching ELSE Email)
PageItems(s) ==
    SubSeq(Listing(s), (s.page - 1) * PageSize + 1,
           IF s.page * PageSize < Len(Listing(s)) THEN s.page * PageSize ELSE Len(Listing(s)))
HasNext(s) == s.page * PageSize < Len(Listing(s))

\* An email is canceled, moved or sent and no longer matches.
Leave(e) ==
    /\ e \in matching
    /\ matching' = matching \ {e}
    /\ UNCHANGED <<atStart, walker>>

-------------------------------------------------------------------------------
\* fetch returns a page.  A link may name a foreign origin; List and All hold it as it came.
FetchPage ==
    /\ pc = "fetch" /\ spec.own
    /\ items' = PageItems(spec)
    /\ link' \in IF HasNext(spec)
                 THEN {Request(spec.filtered, spec.page + 1, own) : own \in BOOLEAN}
                 ELSE {NoLink}
    /\ pc' = "yield" /\ body' = "page"
    /\ UNCHANGED <<matching, atStart, spec, yielded, ranges>>

\* A 2xx body of {} passes isJSONObject and is decoded into a page without items and without a link.
FetchBlankPage ==
    /\ pc = "fetch" /\ spec.own
    /\ items' = <<>> /\ link' = NoLink
    /\ pc' = "yield" /\ body' = "emptyObject"
    /\ UNCHANGED <<matching, atStart, spec, yielded, ranges>>

\* fetch returns an error, at the latest because buildURL refuses a foreign link: All yields it
\* once and returns.
FetchFailsSilently ==
    /\ pc = "fetch"
    /\ pc' = "done"
    /\ UNCHANGED <<matching, atStart, spec, body, items, link, yielded, ranges>>
FetchFailsContinues == pc = "fetch" /\ UNCHANGED vars
FetchFails ==
    /\ pc = "fetch"
    /\ pc' = "failed"
    /\ UNCHANGED <<matching, atStart, spec, body, items, link, yielded, ranges>>

\* The consumer's loop goes on, or breaks when it has seen enough.
Consumer == {"yield", "stopped"}

\* The next item is yielded.
YieldItem ==
    /\ pc = "yield" /\ items # <<>>
    /\ yielded' = Append(yielded, Head(items)) /\ items' = Tail(items)
    /\ pc' \in Consumer
    /\ UNCHANGED <<matching, atStart, spec, body, link, ranges>>

\* nextPageSpec; the loop of the README asks List for the following page number and nothing else.
NextSpecBuiltByHand == Request(FALSE, spec.page + 1, TRUE)
NextSpecRepeats == spec
NextSpecSkipsOne == [link EXCEPT !.page = @ + 1]
NextSpec == IF ByHand THEN Request(FALSE, spec.page + 1, TRUE) ELSE link

NextPageIgnoresTheEnd ==
    /\ pc = "yield" /\ items = <<>>
    /\ pc' = "fetch" /\ spec' = NextSpec
    /\ UNCHANGED <<matching, atStart, body, items, link, yielded, ranges>>
NextPage ==
    /\ pc = "yield" /\ items = <<>>
    /\ IF link = NoLink THEN pc' = "done" /\ UNCHANGED spec
                        ELSE pc' = "fetch" /\ spec' = NextSpec
    /\ UNCHANGED <<matching, atStart, body, items, link, yielded, ranges>>

\* Ranging over what All returned again starts a new walk from listSpec.
RangeAgain ==
    /\ pc \in {"done", "stopped", "failed"} /\ ranges < MaxRanges /\ ~ByHand
    /\ ranges' = ranges + 1 /\ atStart' = matching
    /\ pc' = "fetch" /\ spec' = FirstSpec
    /\ body' = "none" /\ items' = <<>> /\ link' = NoLink /\ yielded' = <<>>
    /\ UNCHANGED matching

Next ==
    \/ FetchPage \/ FetchBlankPage \/ FetchFails \/ YieldItem \/ NextPage \/ RangeAgain
    \/ \E e \in Email : Leave(e)

Spec == Init /\ [][Next]_vars

\* The calling goroutine runs the loop, and a call returns a page or an error: with the client that
\* New builds its timeout sees to that, and an application that injects one or sets none has to.
FairSpec == Spec /\ WF_vars(FetchPage \/ FetchBlankPage \/ FetchFails \/ YieldItem \/ NextPage)

-------------------------------------------------------------------------------
\* Every variable keeps its type.
TypeOK ==
    /\ matching \subseteq Email /\ atStart \subseteq Email
    /\ pc \in {"fetch", "yield", "done", "stopped", "failed"}
    /\ spec.page \in 1..(Len(Collection) + 1)
    /\ body \in {"none", "page", "emptyObject"}
    /\ ToSet(items) \subseteq Email /\ ToSet(yielded) \subseteq Email
    /\ ranges \in 1..MaxRanges

\* A walk that ends by itself over a collection nobody changed yielded every matching email, in
\* the order of the listing: a page that failed, a lost link or an early end never passes for the
\* end of the collection.  Only an answer of {} does.
DoneIsComplete ==
    pc = "done" /\ body # "emptyObject" /\ matching = atStart =>
        yielded = InOrder(atStart)

\* Every email a walk yields matched the filters the caller gave, on every page.
OnlyMatching == ToSet(yielded) \subseteq atStart

\* No walk yields an email twice, though the pages move while it runs: emails only leave, so what
\* is ahead of the walk moves towards it.
NoDuplicates == IsInjective(yielded)

\* Every walk ends: at the end of the collection, by a break or by an error.
WalksEnd == pc = "fetch" ~> pc \in {"done", "stopped", "failed"}

\* The links number pages, so an email that leaves moves a later one onto a page already read, and
\* a walk that ends by itself may have passed over emails that match all along ("every scheduled
\* email matching the filters").  It passes over no more of them than left during the walk: a loop
\* that cancels what it is given and starts again until nothing is yielded comes to an end.  A walk
\* that an answer of {} ended is no measure of anything.
SkipsAreBounded ==
    pc = "done" /\ body # "emptyObject" =>
        Cardinality(matching \ ToSet(yielded)) <= Cardinality(atStart \ matching)
===============================================================================
