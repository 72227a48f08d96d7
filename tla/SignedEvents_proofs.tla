-------------------------- MODULE SignedEvents_proofs --------------------------
(***************************************************************************)
(* Proofs about SignedEvents, for any deliveries, bodies, stamps, secrets, *)
(* tolerances and clock: the verdict on a request is right, and an event   *)
(* stays what was signed.                                                  *)
(***************************************************************************)
EXTENDS SignedEvents, TLAPS

\* The requests the platform signs, and the sequences of whatever they hold.
SentBody == UNION {BodiesOf[d] : d \in Delivery}
Request == [id : Delivery, ts : Stamp, body : SentBody, sig : [prefix : {TRUE}, hex : Hash]]
IsSequence(s) == s \in Seq({s[i] : i \in DOMAIN s})

Signed == \A q \in sent : /\ q \in Request
                          /\ q.sig.hex = signatureMAC(q.id, q.ts, q.body, q.sig.hex.secret)

\* Every event has its own place, none of them the buffer.
Placed ==
    /\ IsSequence(memory) /\ IsSequence(events)
    /\ Len(memory) = Len(events) + 1
    /\ \A i \in 1..Len(events) : events[i].raw = i + 1

tol == IF tolerance <= 0 THEN defaultTolerance ELSE tolerance

\* A request that was signed as it stands with the receiver's secret and read in time.
Valid(r, at) ==
    /\ Missing \notin {r.id, r.ts, r.sig}
    /\ r.ts # Malformed /\ at - tol <= r.ts /\ r.ts <= at + tol
    /\ r.sig.hex = signatureMAC(r.id, r.ts, r.body, Secret)

\* The verdict in hand is on something that was signed, and rests on that request alone.
Judged ==
    last.request # Missing =>
        /\ \E q \in sent : last.request \in Arrivals(q)
        /\ last.err # "ErrSignatureVerification" <=> Valid(last.request, last.at)

Types == /\ clock \in Int /\ tolerance \in Tolerances /\ last.at \in Int
         /\ \A d \in Delivery : body[d] \in SentBody

IInv == Types /\ Signed /\ Placed /\ Judged /\ EventIsWhatWasSigned

-------------------------------------------------------------------------------
\* A sequence over any set is one over the set of its elements.
LEMMA SequenceOfItsOwn ==
    ASSUME NEW S, NEW t \in Seq(S)
    PROVE  IsSequence(t)
<1> DEFINE T == {t[i] : i \in DOMAIN t}
<1>1. \A i \in 1..Len(t) : t[i] \in T
  OBVIOUS
<1>2. t \in Seq(T)
  BY <1>1
<1> QED
  BY <1>2 DEF IsSequence

\* Append keeps a sequence one, and adds its element behind the others.
LEMMA AppendSequence ==
    ASSUME NEW s, NEW e, IsSequence(s)
    PROVE  /\ IsSequence(Append(s, e)) /\ Len(Append(s, e)) = Len(s) + 1 /\ Len(s) \in Nat
           /\ Append(s, e)[Len(s) + 1] = e
           /\ \A i \in 1..Len(s) : Append(s, e)[i] = s[i]
<1> DEFINE S == {s[i] : i \in DOMAIN s} \cup {e}
           t == Append(s, e)
<1>1. s \in Seq(S)
  BY DEF IsSequence
<1>2. t \in Seq(S) /\ Len(t) = Len(s) + 1 /\ Len(s) \in Nat
  BY <1>1
<1>3. t[Len(s) + 1] = e /\ \A i \in 1..Len(s) : t[i] = s[i]
  BY <1>1
<1>4. IsSequence(t)
  BY <1>2, SequenceOfItsOwn
<1> QED
  BY <1>2, <1>3, <1>4

\* Reading a request overwrites the buffer and nothing else.
LEMMA Overwrite ==
    ASSUME NEW s, NEW e, IsSequence(s), Len(s) >= 1
    PROVE  LET t == [s EXCEPT ![1] = e] IN
           /\ IsSequence(t) /\ Len(t) = Len(s)
           /\ \A i \in 2..Len(s) : t[i] = s[i]
<1> DEFINE S == {s[i] : i \in DOMAIN s} \cup {e}
           t == [s EXCEPT ![1] = e]
<1>1. s \in Seq(S)
  BY DEF IsSequence
<1>2. t \in Seq(S) /\ Len(t) = Len(s)
  BY <1>1
<1>3. \A i \in 2..Len(s) : t[i] = s[i]
  BY <1>1
<1>4. IsSequence(t)
  BY <1>2, SequenceOfItsOwn
<1> QED
  BY <1>2, <1>3, <1>4

\* checkFreshness, without the saturating subtraction.
LEMMA Freshness ==
    ASSUME Types, NEW ts \in Stamp
    PROVE  checkFreshness(ts) <=> (clock - tol <= ts /\ ts <= clock + tol)
<1>1. ts \in Int /\ clock \in Int /\ MaxDuration \in Nat /\ tol \in Int /\ tol < MaxDuration
  BY EventsAssumption DEF Types, tol
<1>2. ts # Malformed
  BY EventsAssumption
<1>3. checkFreshness(ts) <=> Abs(Since(ts)) <= tol
  BY <1>2 DEF checkFreshness, tol
<1> QED
  BY <1>1, <1>3 DEF Abs, Since

\* A request that has its three headers, and what is in them.
Arrived == [id : Delivery, ts : Stamp, body : AnyBody,
            sig : [prefix : BOOLEAN, hex : {p.sig.hex : p \in sent} \cup {Malformed}]]

\* What arrives: a request, with the signature of some request that was signed or a broken one.
LEMMA Arriving ==
    ASSUME Types, Signed, NEW q \in sent, NEW r \in Arrivals(q), Missing \notin {r.id, r.ts, r.sig},
           r.ts # Malformed
    PROVE  r \in Arrived
<1>1. ASSUME NEW p \in sent
      PROVE  p.sig \in [prefix : BOOLEAN, hex : {x.sig.hex : x \in sent}]
  BY DEF Signed, Request
<1>2. q \in Request /\ q.body \in AnyBody /\ Encode(q.body) \in AnyBody
  <2>1. q \in Request
    BY DEF Signed
  <2> QED
    BY <2>1 DEF Request, AnyBody, SentBody
<1>3. /\ q.id \in Delivery /\ q.ts \in Stamp
      /\ q = [id |-> q.id, ts |-> q.ts, body |-> q.body, sig |-> q.sig]
      /\ q.sig = [prefix |-> TRUE, hex |-> q.sig.hex]
  BY <1>2 DEF Request
<1>4. CASE \E p \in sent : r = [q EXCEPT !.sig = p.sig]
  BY <1>1, <1>2, <1>3, <1>4 DEF Arrived
<1>5. CASE r \in {[q EXCEPT !.sig.hex = Malformed], [q EXCEPT !.sig.prefix = FALSE]}
  BY <1>1, <1>2, <1>3, <1>5 DEF Arrived
<1>6. CASE \/ r \in {q, [q EXCEPT !.body = Encode(@)]}
           \/ \E d \in Delivery : r = [q EXCEPT !.id = d]
           \/ \E ts \in Stamp : r = [q EXCEPT !.ts = ts]
  BY <1>1, <1>2, <1>3, <1>6 DEF Arrived
<1> QED
  BY <1>3, <1>4, <1>5, <1>6 DEF Arrivals

\* VerifySignature accepts exactly the valid requests.
LEMMA Verdict ==
    ASSUME Types, Signed, NEW q \in sent, NEW r \in Arrivals(q)
    PROVE  VerifySignature(r) <=> Valid(r, clock)
<1>1. CASE Missing \in {r.id, r.ts, r.sig} \/ r.ts = Malformed
  BY <1>1 DEF VerifySignature, Valid, checkFreshness
<1>2. CASE Missing \notin {r.id, r.ts, r.sig} /\ r.ts # Malformed
  <2>1. r.ts \in Stamp
    BY <1>2, Arriving DEF Arrived
  <2> QED
    BY <1>2, <2>1, Freshness DEF VerifySignature, Valid
<1> QED
  BY <1>1, <1>2

\* A valid request is one that was signed, but for the prefix of its signature: whatever was put
\* together from several requests, the hash is that of one of them.
LEMMA ValidWasSigned ==
    ASSUME Types, Signed, NEW q \in sent, NEW r \in Arrivals(q), NEW at, Valid(r, at)
    PROVE  \E p \in sent : /\ p.sig.hex.secret = Secret
                           /\ r \in {p, [p EXCEPT !.sig.prefix = FALSE]}
                           /\ r.id = p.id /\ r.ts = p.ts /\ r.body = p.body
<1>1. r \in Arrived
  BY Arriving DEF Valid
<1>2. r.sig.hex = signatureMAC(r.id, r.ts, r.body, Secret)
  BY Zenon DEF Valid
<1>3. r.sig.hex # Malformed
  <2>1. Secret \in Secrets
    BY EventsAssumption
  <2>2. r.sig.hex \in Hash
    BY <1>1, <1>2, <2>1 DEF Arrived, signatureMAC, Hash
  <2>3. Malformed \notin Hash
    BY EventsAssumption, Zenon
  <2> QED
    BY <2>2, <2>3
<1>4. PICK p \in sent : r.sig.hex = p.sig.hex
  BY <1>1, <1>3 DEF Arrived
<1>5. p \in Request /\ p.sig.hex = signatureMAC(p.id, p.ts, p.body, p.sig.hex.secret)
  BY DEF Signed
<1>6. p.sig.hex.secret = Secret /\ r.id = p.id /\ r.ts = p.ts /\ r.body = p.body
  BY <1>2, <1>4, <1>5 DEF signatureMAC
<1>7. r \in {p, [p EXCEPT !.sig.prefix = FALSE]}
  <2>1. /\ r = [id |-> p.id, ts |-> p.ts, body |-> p.body, sig |-> r.sig]
        /\ r.sig = [prefix |-> r.sig.prefix, hex |-> p.sig.hex] /\ r.sig.prefix \in BOOLEAN
    BY <1>1, <1>4, <1>6 DEF Arrived
  <2>2. /\ p = [id |-> p.id, ts |-> p.ts, body |-> p.body, sig |-> p.sig]
        /\ p.sig = [prefix |-> TRUE, hex |-> p.sig.hex]
    BY <1>5 DEF Request
  <2>3. CASE r.sig.prefix = TRUE
    BY <2>1, <2>2, <2>3
  <2>4. CASE r.sig.prefix = FALSE
    <3>1. r.sig = [p.sig EXCEPT !.prefix = FALSE]
      BY <2>1, <2>2, <2>4
    <3>2. [p EXCEPT !.sig.prefix = FALSE] = [p EXCEPT !.sig = [p.sig EXCEPT !.prefix = FALSE]]
      OBVIOUS
    <3>3. [p EXCEPT !.sig = r.sig] = [id |-> p.id, ts |-> p.ts, body |-> p.body, sig |-> r.sig]
      BY <1>5 DEF Request
    <3> QED
      BY <2>1, <3>1, <3>2, <3>3
  <2> QED
    BY <2>1, <2>3, <2>4
<1> QED
  BY <1>6, <1>7

\* What was signed with the receiver's secret is valid while it is fresh.
LEMMA SignedIsValid ==
    ASSUME Types, Signed, NEW q \in sent, q.sig.hex.secret = Secret,
           NEW r \in {q, [q EXCEPT !.sig.prefix = FALSE]},
           NEW at, at - tol <= q.ts, q.ts <= at + tol
    PROVE  Valid(r, at)
<1>1. q \in Request /\ q.sig.hex = signatureMAC(q.id, q.ts, q.body, q.sig.hex.secret)
  BY DEF Signed
<1>2. /\ r.id = q.id /\ r.ts = q.ts /\ r.body = q.body /\ r.sig.hex = q.sig.hex
      /\ r.sig \in [prefix : BOOLEAN, hex : Hash]
  BY <1>1 DEF Request
<1>3. Missing \notin {r.id, r.ts, r.sig} /\ r.ts # Malformed
  <2>1. r.id \in Delivery /\ r.ts \in Stamp
    BY <1>1, <1>2 DEF Request
  <2>2. /\ Missing \notin Delivery /\ Missing \notin Stamp /\ Malformed \notin Stamp
        /\ Missing \notin [prefix : BOOLEAN, hex : Hash]
    BY EventsAssumption, Zenon
  <2> QED
    BY <1>2, <2>1, <2>2
<1> QED
  BY <1>1, <1>2, <1>3 DEF Valid

-------------------------------------------------------------------------------
\* What holds at first.
LEMMA Initially == Init => IInv
<1> SUFFICES ASSUME Init PROVE IInv
  OBVIOUS
<1>1. Types
  <2>1. clock \in Int /\ tolerance \in Tolerances /\ last.at \in Int
    BY DEF Init
  <2>2. \A d \in Delivery : body[d] \in SentBody
    BY DEF Init, SentBody
  <2> QED
    BY <2>1, <2>2 DEF Types
<1>2. Signed /\ Judged /\ EventIsWhatWasSigned
  BY DEF Init, Signed, Judged, EventIsWhatWasSigned
<1>3. Placed
  <2>1. memory \in Seq({Empty}) /\ events \in Seq({Empty})
    BY DEF Init
  <2>2. IsSequence(memory) /\ IsSequence(events)
    BY <2>1, SequenceOfItsOwn
  <2> QED
    BY <2>2 DEF Init, Placed
<1> QED
  BY <1>1, <1>2, <1>3 DEF IInv

\* Time passing changes no verdict that was given.
LEMMA TickKeeps == IInv /\ Tick => IInv'
<1> SUFFICES ASSUME IInv, Tick PROVE IInv'
  OBVIOUS
<1>1. Types'
  BY DEF IInv, Types, Tick, receiver
<1>2. Signed' /\ Placed'
  BY DEF IInv, Tick, receiver, Signed, Placed, IsSequence
<1>3. EventIsWhatWasSigned'
  BY DEF IInv, Tick, receiver, EventIsWhatWasSigned
<1>4. Judged'
  BY DEF IInv, Tick, receiver, Judged, Arrivals, Valid, tol
<1> QED
  BY <1>1, <1>2, <1>3, <1>4 DEF IInv

\* Signing adds a request, and the others stay what they are.
LEMMA SendKeeps ==
    ASSUME NEW d \in Delivery, NEW ts \in Stamp, NEW secret \in Secrets, IInv, Send(d, ts, secret)
    PROVE  IInv'
<1> DEFINE q == [id |-> d, ts |-> ts, body |-> body[d], sig |-> Sign(d, ts, body[d], secret)]
<1>1. sent' = sent \cup {q} /\ UNCHANGED <<clock, tolerance, body, memory, events, last>>
  BY DEF Send, receiver
<1>2. Types'
  BY <1>1 DEF IInv, Types
<1>3. Signed'
  <2>1. body[d] \in SentBody /\ body[d] \in AnyBody
    BY DEF IInv, Types, SentBody, AnyBody
  <2>2. q \in Request /\ q.sig.hex = signatureMAC(q.id, q.ts, q.body, q.sig.hex.secret)
    BY <2>1 DEF Request, Sign, signatureMAC, Hash
  <2> QED
    BY <1>1, <2>2 DEF IInv, Signed
<1>4. Placed' /\ EventIsWhatWasSigned'
  <2>1. Placed'
    BY <1>1 DEF IInv, Placed, IsSequence
  <2>2. EventIsWhatWasSigned'
    BY <1>1 DEF IInv, EventIsWhatWasSigned
  <2> QED
    BY <2>1, <2>2
<1>5. Judged'
  <2>1. \A p \in sent : p \in sent' /\ Arrivals(p) \subseteq Arrivals(p)'
    BY <1>1 DEF Arrivals
  <2>2. Valid(last.request, last.at)' <=> Valid(last.request, last.at)
    BY <1>1 DEF Valid, tol
  <2>3. last.request # Missing => \E p \in sent' : last.request \in Arrivals(p)'
    BY <2>1 DEF IInv, Judged
  <2> QED
    BY <1>1, <2>2, <2>3 DEF IInv, Judged
<1> QED
  BY <1>2, <1>3, <1>4, <1>5 DEF IInv

\* Receiving judges the request in hand, and an event it yields gets a place of its own.
LEMMA ReceiveKeeps ==
    ASSUME NEW q \in sent, NEW r \in Arrivals(q), IInv, Receive(r)
    PROVE  IInv'
<1> DEFINE m == [memory EXCEPT ![1] = r.body]
           e == [id |-> r.id, ts |-> r.ts, type |-> r.body.type, createdAt |-> r.body.createdAt,
                 data |-> decodeEventData(r.body), raw |-> Len(m) + 1]
           v == Verify(r, m)
<1>1. /\ memory' = v.memory /\ events' = v.events
      /\ last' = [request |-> r, at |-> clock, err |-> v.err]
      /\ UNCHANGED <<clock, tolerance, body, sent>>
  BY DEF Receive, receiver
<1>2. /\ Types /\ Signed /\ Placed /\ EventIsWhatWasSigned
      /\ IsSequence(memory) /\ Len(memory) = Len(events) + 1 /\ Len(events) \in Nat
  BY DEF IInv, Placed, IsSequence
<1>3. /\ IsSequence(m) /\ Len(m) = Len(memory) /\ \A i \in 2..Len(memory) : m[i] = memory[i]
  <2>1. Len(memory) >= 1
    BY <1>2
  <2> QED
    BY <1>2, <2>1, Overwrite
<1>4. VerifySignature(r) <=> Valid(r, clock)
  BY <1>2, Verdict
<1>5. v.err # "ErrSignatureVerification" <=> VerifySignature(r)
  BY DEF Verify
<1>6. Types' /\ Signed'
  BY <1>1, <1>2 DEF Types, Signed
<1>7. Judged'
  <2>1. (\E p \in sent : last.request \in Arrivals(p))'
    BY <1>1 DEF Arrivals
  <2>2. last'.err # "ErrSignatureVerification" <=> Valid(r, clock)
    BY <1>1, <1>4, <1>5
  <2>3. Valid(last.request, last.at)' <=> Valid(r, clock)
    BY <1>1 DEF Valid, tol
  <2> QED
    BY <2>1, <2>2, <2>3 DEF Judged
<1>8. CASE v.err # "none"
  <2>1. memory' = m /\ events' = events
    BY <1>1, <1>8 DEF Verify
  <2>2. Placed'
    BY <1>2, <1>3, <2>1 DEF Placed
  <2>3. EventIsWhatWasSigned'
    <3>1. DOMAIN events = 1..Len(events)
      BY <1>2 DEF Placed, IsSequence
    <3>2. \A i \in DOMAIN events : m[events[i].raw] = memory[events[i].raw]
      BY <1>2, <1>3, <3>1 DEF Placed
    <3>3. \A i \in DOMAIN events : memory'[events[i].raw] = memory[events[i].raw]
      <4> HIDE DEF m
      <4> QED
        BY <2>1, <3>2
    <3>4. events' = events /\ sent' = sent /\ EventIsWhatWasSigned
      BY <1>1, <1>2, <2>1
    <3> QED
      BY <3>3, <3>4 DEF EventIsWhatWasSigned
  <2> QED
    BY <1>6, <1>7, <2>2, <2>3 DEF IInv
<1>9. CASE v.err = "none"
  <2>1. memory' = Append(m, r.body) /\ events' = Append(events, e) /\ VerifySignature(r)
    BY <1>1, <1>9 DEF Verify, Raw
  <2>2. /\ IsSequence(memory') /\ Len(memory') = Len(m) + 1 /\ memory'[Len(m) + 1] = r.body
        /\ \A i \in 1..Len(m) : memory'[i] = m[i]
    BY <1>3, <2>1, AppendSequence
  <2>3. /\ IsSequence(events') /\ Len(events') = Len(events) + 1 /\ events'[Len(events) + 1] = e
        /\ \A i \in 1..Len(events) : events'[i] = events[i]
    BY <1>2, <2>1, AppendSequence DEF Placed
  <2>4. e.raw = Len(events) + 2 /\ e.id = r.id /\ e.ts = r.ts
    BY <1>2, <1>3
  <2>5. Placed'
    BY <1>2, <1>3, <2>2, <2>3, <2>4 DEF Placed
  <2>6. PICK o \in sent : o.sig.hex.secret = Secret /\ r.id = o.id /\ r.ts = o.ts /\ r.body = o.body
    BY <1>2, <1>4, <2>1, ValidWasSigned
  <2>7. EventIsWhatWasSigned'
    <3> SUFFICES ASSUME NEW i \in 1..Len(events')
                 PROVE  \E p \in sent : /\ p.sig.hex.secret = Secret
                                        /\ events'[i].id = p.id /\ events'[i].ts = p.ts
                                        /\ memory'[events'[i].raw] = p.body
      <4>1. DOMAIN events' = 1..Len(events')
        BY <2>3 DEF IsSequence
      <4> QED
        BY <1>1, <4>1 DEF EventIsWhatWasSigned
    <3>1. CASE i \in 1..Len(events)
      <4>1. events'[i] = events[i] /\ events[i].raw = i + 1
        BY <1>2, <2>3, <3>1 DEF Placed
      <4>2. memory'[i + 1] = memory[i + 1]
        BY <1>2, <1>3, <2>2, <3>1
      <4>3. i \in DOMAIN events
        BY <1>2, <3>1 DEF Placed, IsSequence
      <4> QED
        BY <1>2, <4>1, <4>2, <4>3 DEF EventIsWhatWasSigned
    <3>2. CASE i = Len(events) + 1
      BY <1>2, <1>3, <2>2, <2>3, <2>4, <2>6, <3>2
    <3> QED
      BY <1>2, <2>3, <3>1, <3>2
  <2> QED
    BY <1>6, <1>7, <2>5, <2>7 DEF IInv
<1> QED
  BY <1>8, <1>9

\* IInv is inductive.
LEMMA Inductive == IInv /\ [Next]_vars => IInv'
<1> SUFFICES ASSUME IInv, [Next]_vars PROVE IInv'
  OBVIOUS
<1>1. CASE Tick
  BY <1>1, TickKeeps
<1>2. CASE \E d \in Delivery, ts \in Stamp, secret \in Secrets : Send(d, ts, secret)
  BY <1>2, SendKeeps
<1>3. CASE \E q \in sent : \E r \in Arrivals(q) : Receive(r)
  BY <1>3, ReceiveKeeps
<1>4. CASE UNCHANGED vars
  <2>1. Types' /\ Signed' /\ Placed'
    BY <1>4 DEF IInv, vars, receiver, Types, Signed, Placed, IsSequence
  <2>2. EventIsWhatWasSigned'
    BY <1>4 DEF IInv, vars, receiver, EventIsWhatWasSigned
  <2>3. Judged'
    BY <1>4 DEF IInv, vars, receiver, Judged, Arrivals, Valid, tol
  <2> QED
    BY <2>1, <2>2, <2>3 DEF IInv
<1> QED
  BY <1>1, <1>2, <1>3, <1>4 DEF Next

LEMMA Invariance == Spec => []IInv
  BY Initially, Inductive, PTL DEF Spec

\* Every event an application holds stays one delivery that was signed with its secret, whatever
\* the server reads into its buffer afterwards.
THEOREM EventsAreSigned == Spec => []EventIsWhatWasSigned
<1>1. IInv => EventIsWhatWasSigned
  BY DEF IInv
<1> QED
  BY <1>1, Invariance, PTL

\* VerifySignature refuses exactly what was not signed with the receiver's secret within the
\* tolerance, for every tolerance, clock and damage to a request.
THEOREM VerdictsAreRight == Spec => []VerdictIsRight
<1>1. IInv => VerdictIsRight
  <2> SUFFICES ASSUME IInv, last.request # Missing PROVE VerdictIsRight
    BY DEF VerdictIsRight
  <2> DEFINE r == last.request
             at == last.at
  <2>1. PICK q \in sent : r \in Arrivals(q)
    BY DEF IInv, Judged
  <2>2. last.err # "ErrSignatureVerification" <=> Valid(r, at)
    BY DEF IInv, Judged
  <2>3. (IF tolerance > 0 THEN tolerance ELSE defaultTolerance) = tol
    <3>1. tolerance \in Int
      BY EventsAssumption DEF IInv, Types
    <3> QED
      BY <3>1 DEF tol
  <2>4. ASSUME Valid(r, at)
        PROVE  \E p \in sent : /\ p.sig.hex.secret = Secret
                               /\ r \in {p, [p EXCEPT !.sig.prefix = FALSE]}
                               /\ at - tol <= p.ts /\ p.ts <= at + tol
    <3>1. PICK p \in sent : /\ p.sig.hex.secret = Secret
                            /\ r \in {p, [p EXCEPT !.sig.prefix = FALSE]} /\ r.ts = p.ts
      BY <2>1, <2>4, ValidWasSigned DEF IInv
    <3>2. at - tol <= p.ts /\ p.ts <= at + tol
      BY <2>4, <3>1 DEF Valid
    <3> QED
      BY <3>1, <3>2
  <2>5. ASSUME NEW p \in sent, p.sig.hex.secret = Secret,
               r \in {p, [p EXCEPT !.sig.prefix = FALSE]},
               at - tol <= p.ts, p.ts <= at + tol
        PROVE  Valid(r, at)
    BY <2>5, SignedIsValid DEF IInv
  <2> QED
    BY <2>2, <2>3, <2>4, <2>5 DEF VerdictIsRight
<1> QED
  BY <1>1, Invariance, PTL


-------------------------------------------------------------------------------
\* Every registered type decodes into one of the structs.
Structs == DOMAIN payloads
LEMMA Registered == \A t \in DOMAIN eventTypes : eventTypes[t] \in Structs
<1> SUFFICES ASSUME NEW t \in DOMAIN eventTypes PROVE eventTypes[t] \in Structs
  OBVIOUS
<1>1. PICK r \in registered : r[1] = t
  BY DEF eventTypes
<1>2. \A s \in registered : s[2] \in Structs
  BY DEF registered, Structs, payloads
<1>3. (CHOOSE s \in registered : s[1] = t) \in registered
  BY <1>1
<1> QED
  BY <1>2, <1>3 DEF eventTypes

\* A member that is named as the client's address, browser or country is in an engagement block.
Engagement == {"ipAddress", "userAgent", "country"}
LEMMA InBlock ==
    ASSUME NEW name, NEW members, NEW m \in Block(name, members)
    PROVE  m[Len(m)] \in members /\ m # <<"email_id">> /\ (name \in {"open", "click"} /\ m[Len(m)] \in Engagement => m \in OmitEmpty)
<1>1. PICK x \in members : m = <<name, x>>
  BY DEF Block
<1>2. m[Len(m)] = x
  BY <1>1
<1> QED
  BY <1>1, <1>2 DEF OmitEmpty, Engagement

LEMMA InContext ==
    ASSUME NEW m \in messageContext
    PROVE  m[Len(m)] \notin Engagement
<1>1. PICK x \in {"email_id", "created_at", "domain", "subject", "to", "from", "tags"} : m = <<x>>
  BY DEF messageContext
<1>2. m[Len(m)] = x
  BY <1>1
<1> QED
  BY <1>2 DEF Engagement


\* A payload with a message context has all of it, and only engagement blocks name a client.
WellMade(members) ==
    /\ <<"email_id">> \in members => messageContext \subseteq members
    /\ \A m \in members : m[Len(m)] \in Engagement => m \in OmitEmpty

LEMMA EmailStruct ==
    ASSUME NEW name, NEW members, name \in {"open", "click"} \/ members \cap Engagement = {}
    PROVE  WellMade(messageContext \cup Block(name, members))
  BY InBlock, InContext DEF WellMade

LEMMA StatusStruct ==
    ASSUME NEW names, NEW members, "email_id" \notin names, (names \cup members) \cap Engagement = {}
    PROVE  WellMade({<<x>> : x \in names} \cup Block("previous", members))
<1>1. \A m \in {<<x>> : x \in names} : m[Len(m)] \in names /\ m # <<"email_id">>
  OBVIOUS
<1> QED
  BY <1>1, InBlock DEF WellMade

LEMMA StructsWellMade == \A s \in Structs : WellMade(payloads[s])
<1> SUFFICES ASSUME NEW s \in Structs PROVE WellMade(payloads[s])
  OBVIOUS
<1> USE DEF Engagement, deliveryContext, failureContext, engagementContext, clickContext,
            suppressionContext, scheduledContext, sendFailureContext
<1>1. CASE s = "SentData"
  <2>1. payloads[s] = messageContext \cup Block("sent", deliveryContext)
    BY <1>1 DEF payloads
  <2> QED
    BY <2>1, EmailStruct
<1>2. CASE s = "DeliveredData"
  <2>1. payloads[s] = messageContext \cup Block("delivery", deliveryContext)
    BY <1>2 DEF payloads
  <2> QED
    BY <2>1, EmailStruct
<1>3. CASE s = "BouncedData"
  <2>1. payloads[s] = messageContext \cup Block("bounce", failureContext)
    BY <1>3 DEF payloads
  <2> QED
    BY <2>1, EmailStruct
<1>4. CASE s = "DelayedData"
  <2>1. payloads[s] = messageContext \cup Block("delay", failureContext)
    BY <1>4 DEF payloads
  <2> QED
    BY <2>1, EmailStruct
<1>5. CASE s = "SuppressedData"
  <2>1. payloads[s] = messageContext \cup Block("suppression", suppressionContext)
    BY <1>5 DEF payloads
  <2> QED
    BY <2>1, EmailStruct
<1>6. CASE s = "ScheduledData"
  <2>1. payloads[s] = messageContext \cup Block("scheduled", scheduledContext)
    BY <1>6 DEF payloads
  <2> QED
    BY <2>1, EmailStruct
<1>7. CASE s = "FailedData"
  <2>1. payloads[s] = messageContext \cup Block("failed", sendFailureContext)
    BY <1>7 DEF payloads
  <2> QED
    BY <2>1, EmailStruct
<1>8. CASE s = "OpenedData"
  <2>1. payloads[s] = messageContext \cup Block("open", engagementContext)
    BY <1>8 DEF payloads
  <2> QED
    BY <2>1, EmailStruct
<1>9. CASE s = "ClickedData"
  <2>1. payloads[s] = messageContext \cup Block("click", clickContext)
    BY <1>9 DEF payloads
  <2> QED
    BY <2>1, EmailStruct
<1>10. CASE s = "DomainStatusData"
  <2> DEFINE names == {"domain", "status", "onboarding_state"}
             members == {"status", "onboarding_state"}
  <2>1. payloads[s] = {<<x>> : x \in names} \cup Block("previous", members)
    BY <1>10 DEF payloads
  <2> QED
    BY <2>1, StatusStruct
<1>11. CASE s = "WebhookStatusData"
  <2> DEFINE names == {"endpoint_url", "is_active", "is_deleted", "disabled_reason"}
             members == {"is_active", "is_deleted", "disabled_reason"}
  <2>1. payloads[s] = {<<x>> : x \in names} \cup Block("previous", members)
    BY <1>11 DEF payloads
  <2> QED
    BY <2>1, StatusStruct
<1> QED
  BY <1>1, <1>2, <1>3, <1>4, <1>5, <1>6, <1>7, <1>8, <1>9, <1>10, <1>11 DEF Structs, payloads

-------------------------------------------------------------------------------
\* What decoding a body that may arrive yields.
LEMMA BodyMembers ==
    ASSUME NEW b \in SentBody, NEW m \in DOMAIN b.data.members
    PROVE  b.data.members[m] \in {"value", "empty", "null", "misfit"}
<1>1. PICK d \in Delivery : b \in BodiesOf[d]
  BY DEF SentBody
<1>2. \A x \in Delivery : \A c \in BodiesOf[x] : \A n \in DOMAIN c.data.members :
          c.data.members[n] \in {"value", "empty", "null", "misfit"}
  BY EventsAssumption, Zenon
<1> QED
  BY <1>1, <1>2, Zenon


\* What decodeEventData makes of a body it knows the type of: every member that fits shows its
\* value, the others the zero value of their kind.
LEMMA Decoding ==
    ASSUME NEW b, Fits(b)
    PROVE  LET d == decodeEventData(b) IN
           /\ d.as = eventTypes[b.type] /\ d.as \in Structs /\ d.as # "UnknownData"
           /\ DOMAIN d.fields = Members(b.type) /\ WellMade(DOMAIN d.fields)
           /\ \A m \in Members(b.type) :
                  d.fields[m] = IF m \in DOMAIN b.data.members /\ b.data.members[m] \in {"value", "empty"}
                                THEN b.data.members[m] ELSE Zero(b.type, m)
<1>1. b.type \in DOMAIN eventTypes
  BY DEF Fits
<1>2. eventTypes[b.type] \in Structs /\ WellMade(Members(b.type))
  BY <1>1, Registered, StructsWellMade DEF Members
<1>3. eventTypes[b.type] # "UnknownData"
  BY <1>2 DEF Structs, payloads
<1> QED
  BY <1>2, <1>3 DEF decodeEventData

\* What an event shows of the body it was decoded from.
Faithful(d, type, members) ==
    /\ d.as = "UnknownData" => d.fields = members
    /\ d.as # "UnknownData" =>
         /\ d.as = eventTypes[type]
         /\ \A m \in DOMAIN d.fields \cap DOMAIN members : members[m] # "null" => d.fields[m] = members[m]
         /\ <<"email_id">> \in DOMAIN d.fields =>
                \A m \in {<<"domain">>, <<"subject">>, <<"from">>} :
                    d.fields[m] = "nil" <=> ~(m \in DOMAIN members /\ members[m] # "null")

LEMMA DecodingIsFaithful ==
    ASSUME NEW b \in SentBody
    PROVE  Faithful(decodeEventData(b), b.type, b.data.members)
<1> DEFINE d == decodeEventData(b)
           members == b.data.members
<1>1. CASE ~Fits(b)
  BY <1>1 DEF decodeEventData, Faithful
<1>2. CASE Fits(b)
  <2> HIDE DEF d
  <2>1. /\ d.as = eventTypes[b.type] /\ d.as # "UnknownData"
        /\ DOMAIN d.fields = Members(b.type) /\ WellMade(DOMAIN d.fields)
        /\ \A m \in Members(b.type) :
               d.fields[m] = IF m \in DOMAIN members /\ members[m] \in {"value", "empty"}
                             THEN members[m] ELSE Zero(b.type, m)
    BY <1>2, Decoding DEF d
  <2>2. \A m \in DOMAIN members : members[m] \in {"value", "empty", "null", "misfit"}
    BY BodyMembers
  <2>3. \A m \in DOMAIN members \cap Members(b.type) : members[m] # "misfit"
    BY <1>2 DEF Fits, Known
  <2>4. ASSUME <<"email_id">> \in DOMAIN d.fields,
               NEW m \in {<<"domain">>, <<"subject">>, <<"from">>}
        PROVE  d.fields[m] = "nil" <=> ~(m \in DOMAIN members /\ members[m] # "null")
    <3>1. m \in messageContext
      BY DEF messageContext
    <3>2. m \in Members(b.type) /\ <<"email_id">> \in Members(b.type)
      BY <2>1, <2>4, <3>1 DEF WellMade
    <3>3. Zero(b.type, m) = "nil"
      BY <3>2 DEF Zero, Nilable
    <3> HIDE DEF members
    <3> QED
      BY <2>1, <2>2, <2>3, <3>2, <3>3
  <2>5. Faithful(d, b.type, members)
    <3> HIDE DEF members
    <3>1. \A m \in DOMAIN d.fields \cap DOMAIN members :
              members[m] # "null" => d.fields[m] = members[m]
      BY <2>1, <2>2, <2>3
    <3> QED
      BY <2>1, <2>4, <3>1 DEF Faithful
  <2> QED
    BY <2>5 DEF d
<1> QED
  BY <1>1, <1>2

\* Of a client nothing is encoded again that was not there.
LEMMA DecodingInventsNothing ==
    ASSUME NEW b, NEW m \in Encoded(decodeEventData(b)), m[Len(m)] \in Engagement
    PROVE  m \in DOMAIN b.data.members
<1> DEFINE d == decodeEventData(b)
<1>1. CASE ~Fits(b)
  BY <1>1 DEF decodeEventData, Encoded
<1>2. CASE Fits(b)
  <2> HIDE DEF d
  <2>1. /\ DOMAIN d.fields = Members(b.type) /\ WellMade(DOMAIN d.fields)
        /\ \A n \in Members(b.type) :
               d.fields[n] = IF n \in DOMAIN b.data.members /\ b.data.members[n] \in {"value", "empty"}
                             THEN b.data.members[n] ELSE Zero(b.type, n)
    BY <1>2, Decoding DEF d
  <2>2. m \in DOMAIN d.fields /\ (m \in OmitEmpty => d.fields[m] # "empty")
    BY DEF Encoded, d
  <2>3. m \in OmitEmpty
    BY <2>1, <2>2 DEF WellMade
  <2>4. m \notin Nilable(b.type)
    <3>1. PICK x \in {"open", "click"}, y \in {"ipAddress", "userAgent", "country"} : m = <<x, y>>
      BY <2>3 DEF OmitEmpty
    <3> QED
      BY <3>1 DEF Nilable
  <2> QED
    BY <2>1, <2>2, <2>3, <2>4 DEF Zero
<1> QED
  BY <1>1, <1>2


-------------------------------------------------------------------------------
\* What the runs' other invariants need beside IInv: the clock keeps to its bound, a delivery its
\* body, and every event shows the body it has its own place for, decoded.
Kept ==
    /\ clock \in 0..MaxClock
    /\ \A q \in sent : q.body = body[q.id]
    /\ last.err \in {"none", "ErrSignatureVerification", "ErrUnexpectedResponse"}

Shows(e, b) == e.type = b.type /\ e.createdAt = b.createdAt /\ e.data = decodeEventData(b)
Decoded == \A i \in 1..Len(events) : Shows(events[i], memory[i + 1])

\* Receiving leaves the events and their places alone, or puts one more behind them.
LEMMA Received ==
    ASSUME IInv, NEW r, Receive(r)
    PROVE  /\ Len(events) \in Nat
           /\ \A i \in 1..Len(events) : events'[i] = events[i] /\ memory'[i + 1] = memory[i + 1]
           /\ \/ Len(events') = Len(events)
              \/ /\ Len(events') = Len(events) + 1
                 /\ Shows(events'[Len(events')], memory'[Len(events') + 1])
<1> DEFINE m == [memory EXCEPT ![1] = r.body]
           e == [id |-> r.id, ts |-> r.ts, type |-> r.body.type, createdAt |-> r.body.createdAt,
                 data |-> decodeEventData(r.body), raw |-> Len(m) + 1]
           v == Verify(r, m)
<1>1. memory' = v.memory /\ events' = v.events
  BY DEF Receive
<1>2. /\ IsSequence(memory) /\ IsSequence(events)
      /\ Len(memory) = Len(events) + 1 /\ Len(events) \in Nat
  BY DEF IInv, Placed, IsSequence
<1>3. IsSequence(m) /\ Len(m) = Len(memory) /\ \A i \in 2..Len(memory) : m[i] = memory[i]
  <2>1. Len(memory) >= 1
    BY <1>2
  <2> QED
    BY <1>2, <2>1, Overwrite
<1>4. CASE v.err # "none"
  <2>1. memory' = m /\ events' = events
    BY <1>1, <1>4 DEF Verify
  <2> HIDE DEF m
  <2> QED
    BY <1>2, <1>3, <2>1
<1>5. CASE v.err = "none"
  <2>1. memory' = Append(m, r.body) /\ events' = Append(events, e)
    BY <1>1, <1>5 DEF Verify, Raw
  <2>2. /\ Len(memory') = Len(m) + 1 /\ memory'[Len(m) + 1] = r.body
        /\ \A i \in 1..Len(m) : memory'[i] = m[i]
    BY <1>3, <2>1, AppendSequence
  <2>3. /\ Len(events') = Len(events) + 1 /\ events'[Len(events) + 1] = e
        /\ \A i \in 1..Len(events) : events'[i] = events[i]
    BY <1>2, <2>1, AppendSequence
  <2>4. Shows(e, r.body)
    BY DEF Shows
  <2> HIDE DEF m, e
  <2> QED
    BY <1>2, <1>3, <2>2, <2>3, <2>4
<1> QED
  BY <1>4, <1>5

\* Both are kept by every step.
LEMMA DecodedInductive == IInv /\ Kept /\ Decoded /\ [Next]_vars => Kept' /\ Decoded'
<1> SUFFICES ASSUME IInv, Kept, Decoded, [Next]_vars PROVE Kept' /\ Decoded'
  OBVIOUS
<1>1. CASE Tick
  <2>1. clock' \in 0..MaxClock
    <3>1. MaxClock \in Nat
      BY EventsAssumption, Zenon
    <3>2. clock \in 0..MaxClock /\ clock < MaxClock /\ clock' = clock + 1
      BY <1>1 DEF Kept, Tick
    <3> QED
      BY <3>1, <3>2
  <2> QED
    BY <1>1, <2>1 DEF Tick, receiver, Kept, Decoded
<1>2. ASSUME NEW d \in Delivery, NEW ts \in Stamp, NEW secret \in Secrets, Send(d, ts, secret)
      PROVE  Kept' /\ Decoded'
  BY <1>2 DEF Send, receiver, Kept, Decoded
<1>3. ASSUME NEW q \in sent, NEW r \in Arrivals(q), Receive(r)
      PROVE  Kept' /\ Decoded'
  <2>1. Kept'
    <3>1. UNCHANGED <<clock, body, sent>>
      BY <1>3 DEF Receive, receiver
    <3>2. last'.err \in {"none", "ErrSignatureVerification", "ErrUnexpectedResponse"}
      BY <1>3 DEF Receive, Verify
    <3> QED
      BY <3>1, <3>2 DEF Kept
  <2>2. Decoded'
    <3> SUFFICES ASSUME NEW i \in 1..Len(events') PROVE Shows(events'[i], memory'[i + 1])
      BY DEF Decoded, Shows, decodeEventData, Fits, Zero
    <3> QED
      BY <1>3, Received DEF Decoded
  <2> QED
    BY <2>1, <2>2
<1>4. CASE UNCHANGED vars
  BY <1>4 DEF vars, receiver, Kept, Decoded
<1> QED
  BY <1>1, <1>2, <1>3, <1>4 DEF Next

LEMMA DecodedInvariance == Spec => [](IInv /\ Kept /\ Decoded)
<1>1. Init => IInv /\ Kept /\ Decoded
  <2>1. MaxClock \in Nat
    BY EventsAssumption, Zenon
  <2>2. Init => Kept /\ Decoded
    BY <2>1 DEF Init, Kept, Decoded
  <2> QED
    BY <2>2, Initially
<1>2. IInv /\ Kept /\ Decoded /\ [Next]_vars => (IInv /\ Kept /\ Decoded)'
  BY Inductive, DecodedInductive
<1> QED
  BY <1>1, <1>2, PTL DEF Spec

\* The body an event was parsed from, still at its place, is one the platform wrote.
LEMMA PlacesHoldBodies ==
    ASSUME IInv, NEW i \in DOMAIN events
    PROVE  events[i].raw = i + 1 /\ i \in 1..Len(events) /\ memory[events[i].raw] \in SentBody
<1>1. i \in 1..Len(events) /\ events[i].raw = i + 1
  <2>1. DOMAIN events = 1..Len(events)
    BY DEF IInv, Placed, IsSequence
  <2> QED
    BY <2>1 DEF IInv, Placed
<1>2. PICK q \in sent : memory[events[i].raw] = q.body
  BY DEF IInv, EventIsWhatWasSigned
<1>3. q.body \in SentBody
  BY DEF IInv, Signed, Request
<1> QED
  BY <1>1, <1>2, <1>3

\* Every variable keeps its type, and every event has a place of its own in memory.
THEOREM TypeCorrectness == Spec => []EventsTypeOK
<1>1. IInv /\ Kept => EventsTypeOK
  <2> SUFFICES ASSUME IInv, Kept PROVE EventsTypeOK
    OBVIOUS
  <2>1. Len(memory) = Len(events) + 1 /\ \A i \in DOMAIN events : events[i].raw = i + 1
    BY PlacesHoldBodies DEF IInv, Placed
  <2>2. \A q \in sent : q.id \in Delivery /\ q.ts \in Stamp /\ q.body = body[q.id]
    BY DEF IInv, Signed, Request, Kept
  <2> QED
    BY <2>1, <2>2 DEF IInv, Types, Kept, EventsTypeOK
<1> QED
  BY <1>1, DecodedInvariance, PTL

\* ParseEvent shows the receiver what was written, whatever version of the platform wrote it and
\* whatever the server has read into its buffer since.
THEOREM EventsShowBodies == Spec => []DataShowsBody
<1>1. IInv /\ Decoded => DataShowsBody
  <2> SUFFICES ASSUME IInv, Decoded, NEW i \in DOMAIN events
               PROVE  LET e == events[i] IN
                      /\ e.type = memory[e.raw].type /\ e.createdAt = memory[e.raw].createdAt
                      /\ Faithful(e.data, e.type, memory[e.raw].data.members)
    BY DEF DataShowsBody, Faithful
  <2>1. Shows(events[i], memory[events[i].raw]) /\ memory[events[i].raw] \in SentBody
    BY PlacesHoldBodies DEF Decoded
  <2> QED
    BY <2>1, DecodingIsFaithful DEF Shows
<1> QED
  BY <1>1, DecodedInvariance, PTL

\* An event that is encoded again names no address, client or country of a reader that the
\* platform did not send.
THEOREM NothingInvented == Spec => []ForwardInventsNothing
<1>1. IInv /\ Decoded => ForwardInventsNothing
  <2> SUFFICES ASSUME IInv, Decoded, NEW i \in DOMAIN events,
                      NEW m \in Encoded(events[i].data), m[Len(m)] \in Engagement
               PROVE  m \in DOMAIN memory[events[i].raw].data.members
    BY DEF ForwardInventsNothing, Engagement
  <2>1. events[i].data = decodeEventData(memory[events[i].raw])
    BY PlacesHoldBodies DEF Decoded, Shows
  <2> QED
    BY <2>1, DecodingInventsNothing
<1> QED
  BY <1>1, DecodedInvariance, PTL
===============================================================================
