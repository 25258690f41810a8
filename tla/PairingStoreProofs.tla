------------------------- MODULE PairingStoreProofs -------------------------
(***************************************************************************)
(* Proofs about PairingStore, for any codes, sources and sessions, any     *)
(* lifetimes and any limit on attempts.                                    *)
(***************************************************************************)
EXTENDS PairingStore, FiniteSetTheorems, TLAPS

\* The count of a source's bucket is never behind the wrong guesses evaluated.
CountsCover == \A s \in Sources : wrong[s] <= failures[<<"source", s>>].attempts

Enrolled == {d \in Sessions : devices[d] # "none"}

\* Device ids are given out in order.
DevicesInOrder == \E n \in 0..MaxSessions : Enrolled = 1..n

\* A request that has read a device still finds it when it writes.
PendingDevices == \A s \in Sessions : pending[s].op = "revoke" => pending[s].device \in Enrolled

\* A row belongs to one console session, which was issued before.
RowsOfSessions ==
  /\ \A c \in Codes : codes[c] # None => codes[c].console <= issued
  /\ \A c, e \in Codes :
       codes[c] # None /\ codes[e] # None /\ codes[c].console = codes[e].console => c = e

\* A device answered one session, which no other device answered; the row of
\* that session, while it is there, names it.
Origins ==
  /\ \A d \in Sessions : IF d \in Enrolled THEN origin[d] \in 1..issued ELSE origin[d] = None
  /\ \A d, e \in Enrolled : origin[d] = origin[e] => d = e
  /\ \A c \in Codes : codes[c] # None => \A d \in Enrolled :
       (origin[d] = codes[c].console) <=> (codes[c].device = d)

IInv ==
  /\ TypeOK /\ CountsCover /\ RevocationClosesConsole
  /\ DevicesInOrder /\ PendingDevices /\ RowsOfSessions /\ Origins

-----------------------------------------------------------------------------
\* The inductive invariant holds initially.
LEMMA InitInvariant == Init => IInv
<1> SUFFICES ASSUME Init PROVE IInv
  OBVIOUS
<1> USE TimesAssumption DEF Init
<1>1. TypeOK
  BY DEF TypeOK, NoFailure
<1>2. CountsCover /\ RevocationClosesConsole /\ RowsOfSessions /\ PendingDevices
  BY DEF CountsCover, RevocationClosesConsole, RowsOfSessions, PendingDevices, Buckets, NoFailure
<1>3. Enrolled = 1..0
  BY DEF Enrolled
<1>4. DevicesInOrder /\ Origins
  BY <1>3 DEF DevicesInOrder, Origins
<1>5. QED
  BY <1>1, <1>2, <1>4 DEF IInv
-----------------------------------------------------------------------------
(* The failure buckets.                                                    *)

\* Time stamps are natural numbers, and none is ahead of the clock.
LEMMA StampsType == ASSUME TypeOK, NEW t \in Stamps PROVE t \in Nat /\ t <= clock /\ clock \in Nat
BY TimesAssumption DEF Stamps, TypeOK

\* Clearing and counting keep the buckets well formed and within the limit.
LEMMA BucketsType ==
  ASSUME NEW f \in [Buckets -> [expires : Nat, attempts : 0..Attempts]], NEW t \in Nat, NEW bs
  PROVE  /\ Cleared(f, t) \in [Buckets -> [expires : Nat, attempts : 0..Attempts]]
         /\ Bumped(f, bs, t) \in [Buckets -> [expires : Nat, attempts : 0..Attempts]]
BY TimesAssumption DEF Cleared, Bumped, NoFailure

\* Clearing forgets the wrong guesses of a source with its bucket, no sooner.
LEMMA RecountCovers ==
  ASSUME TypeOK, CountsCover, NEW t \in Nat, NEW s \in Sources
  PROVE  /\ Recount(Cleared(failures, t))[s] \in Nat
         /\ Recount(Cleared(failures, t))[s] <= Cleared(failures, t)[<<"source", s>>].attempts
<1>1. <<"source", s>> \in Buckets
  BY DEF Buckets
<1>2. QED
  BY <1>1 DEF Recount, Cleared, NoFailure, TypeOK, CountsCover
-----------------------------------------------------------------------------
(* The actions, one by one.                                                *)

\* What the sweep leaves is what was there before.
LEMMA SweptRows ==
  ASSUME TypeOK, NEW t \in Nat, NEW c \in Codes
  PROVE  /\ Swept(t) \in [Codes -> Row \cup {None}]
         /\ Swept(t)[c] \in {codes[c], None}
BY DEF Swept, TypeOK

\* A code is offered.
LEMMA CreateInvariant ==
  ASSUME IInv, NEW source \in Sources, NEW t \in Stamps, CreateCode(source, t)
  PROVE  IInv'
<1> USE TimesAssumption, NoneIsNoRow DEF IInv
<1> DEFINE f == Cleared(failures, t)
           bucket == {<<"create", source>>}
<1>1. t \in Nat /\ issued \in Nat
  BY StampsType DEF TypeOK
<1>2. /\ failures' = Bumped(f, bucket, t) /\ wrong' = Recount(f)
      /\ UNCHANGED <<devices, pending, clock, origin>>
      /\ issued' \in {issued, issued + 1} /\ issued' \in 0..MaxSessions
  BY DEF CreateCode, TypeOK
<1>3. \A c \in Codes : \/ codes'[c] \in {codes[c], None}
                       \/ codes'[c] = NewRow(t) /\ issued' = issued + 1
                          /\ \A e \in Codes \ {c} : codes'[e] \in {codes[e], None}
  BY <1>1, SweptRows DEF CreateCode
<1>4. codes' \in [Codes -> Row \cup {None}]
  <2>1. issued < MaxSessions => NewRow(t) \in Row
    BY <1>1 DEF NewRow, Row, Sessions
  <2>2. QED
    BY <1>1, <2>1, SweptRows DEF CreateCode
<1>5. NewRow(t).device = None /\ NewRow(t).console = issued + 1 /\ NewRow(t) # None
  <2>1. NewRow(t).device = None /\ NewRow(t).console = issued + 1
    BY DEF NewRow
  <2>2. CASE issued < MaxSessions
    <3>1. NewRow(t) \in Row
      BY <1>1, <2>2 DEF NewRow, Row, Sessions
    <3>2. QED
      BY <2>1, <3>1
  <2>3. CASE ~(issued < MaxSessions)
    BY <2>3 DEF CreateCode
  <2>4. QED
    BY <2>1, <2>2, <2>3
<1>6. TypeOK'
  <2>1. failures' \in [Buckets -> [expires : Nat, attempts : 0..Attempts]]
    BY <1>1, <1>2, BucketsType DEF TypeOK
  <2>2. wrong' \in [Sources -> Nat]
    BY <1>1, <1>2, RecountCovers DEF Recount
  <2>3. \A c \in Codes : codes'[c] # None /\ codes'[c].device # None =>
          devices'[codes'[c].device] # "none"
    BY <1>2, <1>3, <1>5 DEF TypeOK
  <2>4. QED
    BY <1>2, <1>4, <2>1, <2>2, <2>3 DEF TypeOK
<1>7. CountsCover'
  <2> SUFFICES ASSUME NEW s \in Sources
               PROVE  wrong'[s] <= failures'[<<"source", s>>].attempts
    BY DEF CountsCover
  <2>1. <<"source", s>> \in Buckets /\ <<"source", s>> \notin bucket
    BY DEF Buckets
  <2>2. failures'[<<"source", s>>] = f[<<"source", s>>]
    BY <1>2, <2>1 DEF Bumped
  <2>3. QED
    BY <1>1, <1>2, <2>2, RecountCovers
<1>8. RevocationClosesConsole'
  BY <1>2, <1>3, <1>5 DEF RevocationClosesConsole
<1>9. DevicesInOrder' /\ PendingDevices'
  BY <1>2 DEF DevicesInOrder, PendingDevices, Enrolled
<1>10. RowsOfSessions'
  <2>1. \A c \in Codes : codes'[c] # None =>
          \/ codes[c] # None /\ codes'[c] = codes[c] /\ codes[c].console <= issued
          \/ codes'[c].console = issued + 1 /\ issued' = issued + 1
             /\ \A e \in Codes \ {c} : codes'[e] \in {codes[e], None}
    BY <1>3, <1>5 DEF RowsOfSessions
  <2>2. \A c \in Codes : codes[c] # None => codes[c].console \in Nat
    BY DEF TypeOK, Row, Sessions
  <2>3. \A c \in Codes : codes'[c] # None => codes'[c].console <= issued'
    BY <1>1, <1>2, <2>1, <2>2
  <2>4. ASSUME NEW c \in Codes, NEW e \in Codes, codes'[c] # None, codes'[e] # None,
               codes'[c].console = codes'[e].console
        PROVE  c = e
    BY <1>1, <2>1, <2>2, <2>4 DEF RowsOfSessions
  <2>5. QED
    BY <2>3, <2>4 DEF RowsOfSessions
<1>11. Origins'
  <2>1. Enrolled' = Enrolled /\ origin' = origin /\ issued' >= issued
    BY <1>1, <1>2 DEF Enrolled
  <2>2. \A d \in Sessions : IF d \in Enrolled' THEN origin'[d] \in 1..issued' ELSE origin'[d] = None
    BY <1>1, <1>2, <2>1 DEF Origins
  <2>3. \A c \in Codes : codes'[c] # None => \A d \in Enrolled' :
          (origin'[d] = codes'[c].console) <=> (codes'[c].device = d)
    BY <1>1, <1>3, <1>5, <2>1 DEF Origins, Enrolled
  <2>4. QED
    BY <2>1, <2>2, <2>3 DEF Origins
<1>12. QED
  BY <1>6, <1>7, <1>8, <1>9, <1>10, <1>11

\* A wrong guess is counted; the bucket of its source is not yet full, so the
\* count it saturates at is not reached unseen.
LEMMA InvalidInvariant ==
  ASSUME IInv, NEW source \in Sources, NEW g \in Guesses, NEW t \in Stamps,
         ExchangeInvalid(source, g, t)
  PROVE  IInv'
<1> USE TimesAssumption DEF IInv
<1> DEFINE f == Cleared(failures, t)
           bs == GuessBuckets(source, g)
<1>1. t \in Nat
  BY StampsType
<1>2. /\ ~Limited(f, bs) /\ failures' = Bumped(f, bs, t)
      /\ wrong' = [Recount(f) EXCEPT ![source] = @ + 1]
      /\ UNCHANGED <<codes, devices, issued, pending, clock, origin>>
  BY DEF ExchangeInvalid
<1>3. f \in [Buckets -> [expires : Nat, attempts : 0..Attempts]]
  BY <1>1, BucketsType DEF TypeOK
<1>4. TypeOK'
  <2>1. failures' \in [Buckets -> [expires : Nat, attempts : 0..Attempts]]
    BY <1>1, <1>2, <1>3, BucketsType
  <2>2. Recount(f) \in [Sources -> Nat]
    BY <1>1, RecountCovers DEF Recount
  <2>3. wrong' \in [Sources -> Nat]
    BY <1>2, <2>2
  <2>4. QED
    BY <1>2, <2>1, <2>3 DEF TypeOK
<1>5. CountsCover'
  <2> SUFFICES ASSUME NEW s \in Sources
               PROVE  wrong'[s] <= failures'[<<"source", s>>].attempts
    BY DEF CountsCover
  <2> DEFINE b == <<"source", s>>
  <2>1. b \in Buckets /\ (s = source => b \in bs)
    BY DEF Buckets, GuessBuckets
  <2>2. Recount(f)[s] \in Nat /\ Recount(f)[s] <= f[b].attempts
    BY <1>1, RecountCovers
  <2>3. f[b].attempts \in 0..Attempts /\ f[b] \in [expires : Nat, attempts : 0..Attempts]
    BY <1>3, <2>1
  <2>4. CASE s = source
    <3>1. f[b].attempts < Attempts
      BY <1>2, <2>1, <2>3, <2>4 DEF Limited
    <3>2. failures'[b].attempts = f[b].attempts + 1
      BY <1>2, <2>1, <2>3, <2>4, <3>1 DEF Bumped
    <3>3. wrong'[s] = Recount(f)[s] + 1
      BY <1>2, <2>4 DEF Recount
    <3>4. QED
      BY <2>2, <2>3, <3>2, <3>3
  <2>5. CASE s # source
    <3>1. b \notin bs
      BY <2>5 DEF GuessBuckets
    <3>2. failures'[b] = f[b] /\ wrong'[s] = Recount(f)[s]
      BY <1>2, <2>1, <2>5, <3>1 DEF Bumped, Recount
    <3>3. QED
      BY <2>2, <3>2
  <2>6. QED
    BY <2>4, <2>5
<1>6. QED
  BY <1>2, <1>4, <1>5 DEF RevocationClosesConsole, DevicesInOrder, PendingDevices,
     RowsOfSessions, Origins, Enrolled
\* The next device id is the one after those given out.
LEMMA NextDevice ==
  ASSUME DevicesInOrder, NewDevice \in Sessions
  PROVE  /\ NewDevice \notin Enrolled
         /\ Enrolled \cup {NewDevice} = 1..NewDevice
<1>1. PICK n \in 0..MaxSessions : Enrolled = 1..n
  BY DEF DevicesInOrder
<1>2. Cardinality(Enrolled) = n
  BY <1>1, TimesAssumption, FS_Interval
<1>3. NewDevice = n + 1
  BY <1>2 DEF NewDevice, Enrolled
<1>4. QED
  BY <1>1, <1>3, TimesAssumption

\* A plugin answers a code.
LEMMA ExchangeInvariant ==
  ASSUME IInv, NEW source \in Sources, NEW g \in Guesses, NEW t \in Stamps,
         Exchange(source, g, t)
  PROVE  IInv'
<1> USE TimesAssumption, NoneIsNoRow DEF IInv
<1> DEFINE d == NewDevice
           s == codes[g].console
           f == Cleared(failures, t)
<1>1. /\ t \in Nat /\ g \in Codes /\ codes[g] # None /\ codes[g] \in Row
      /\ codes[g].device = None /\ ~codes[g].cancelled /\ s \in Sessions /\ s \in 1..issued
  <2>1. g \in Codes /\ codes[g] # None /\ codes[g].device = None /\ ~codes[g].cancelled
    BY DEF Exchange, Answerable
  <2>2. codes[g] \in Row
    BY <2>1 DEF TypeOK
  <2>3. QED
    BY <2>1, <2>2, StampsType DEF RowsOfSessions, Row, Sessions
<1>2. /\ d \in Sessions /\ codes' = [codes EXCEPT ![g].device = d]
      /\ devices' = [devices EXCEPT ![d] = "live"] /\ origin' = [origin EXCEPT ![d] = s]
      /\ failures' = f /\ wrong' = Recount(f)
      /\ UNCHANGED <<issued, pending, clock>>
  BY DEF Exchange, EnrolsDevice
<1>3. d \notin Enrolled /\ Enrolled \cup {d} = 1..d /\ Enrolled' = Enrolled \cup {d}
      /\ devices[d] = "none"
  BY <1>2, NextDevice DEF Enrolled, TypeOK
<1>4. \A c \in Codes : IF c = g THEN codes'[c] = [codes[g] EXCEPT !.device = d]
                       ELSE codes'[c] = codes[c]
  BY <1>1, <1>2 DEF TypeOK
<1>5. [codes[g] EXCEPT !.device = d] \in Row
  BY <1>1, <1>2 DEF Row
<1>6. codes'[g] # None /\ codes'[g].device = d /\ codes'[g].console = s
  BY <1>1, <1>4, <1>5 DEF Row
<1>7. TypeOK'
  <2>1. codes' \in [Codes -> Row \cup {None}]
    BY <1>2, <1>4, <1>5 DEF TypeOK
  <2>2. devices' \in [Sessions -> {"none", "live", "revoked"}]
        /\ origin' \in [Sessions -> Sessions \cup {None}]
    BY <1>1, <1>2 DEF TypeOK
  <2>3. failures' \in [Buckets -> [expires : Nat, attempts : 0..Attempts]]
    BY <1>1, <1>2, BucketsType DEF TypeOK
  <2>4. wrong' \in [Sources -> Nat]
    BY <1>1, <1>2, RecountCovers DEF Recount
  <2>5. \A c \in Codes : codes'[c] # None /\ codes'[c].device # None =>
          devices'[codes'[c].device] # "none"
    <3> SUFFICES ASSUME NEW c \in Codes, codes'[c] # None, codes'[c].device # None
                 PROVE  devices'[codes'[c].device] # "none"
      OBVIOUS
    <3>1. CASE c = g
      BY <1>2, <1>6, <3>1 DEF TypeOK
    <3>2. CASE c # g
      <4>1. codes'[c] = codes[c] /\ codes[c] \in Row /\ codes[c].device \in Sessions
        BY <1>4, <3>2 DEF TypeOK, Row
      <4>2. QED
        BY <1>2, <4>1 DEF TypeOK
    <3>3. QED
      BY <3>1, <3>2
  <2>6. QED
    BY <1>2, <2>1, <2>2, <2>3, <2>4, <2>5 DEF TypeOK
<1>8. CountsCover'
  BY <1>1, <1>2, RecountCovers DEF CountsCover
<1>9. RevocationClosesConsole'
  <2> SUFFICES ASSUME NEW c \in Codes, codes'[c] # None, codes'[c].device # None,
                      devices'[codes'[c].device] = "revoked"
               PROVE  codes'[c].cancelled
    BY DEF RevocationClosesConsole
  <2>1. c # g
    BY <1>2, <1>6 DEF TypeOK
  <2>2. codes'[c] = codes[c] /\ codes[c].device \in Sessions
    BY <1>4, <2>1 DEF TypeOK, Row
  <2>3. QED
    BY <1>2, <2>2 DEF TypeOK, RevocationClosesConsole
<1>10. DevicesInOrder'
  BY <1>2, <1>3 DEF DevicesInOrder, Sessions
<1>11. PendingDevices'
  BY <1>2, <1>3 DEF PendingDevices
<1>12. RowsOfSessions'
  <2>1. \A c \in Codes : codes'[c] # None => codes[c] # None /\ codes'[c].console = codes[c].console
    BY <1>1, <1>4, <1>6
  <2>2. QED
    BY <1>2, <2>1 DEF RowsOfSessions
<1>13. \A e \in Enrolled : origin'[e] = origin[e] /\ origin[e] # s
  BY <1>1, <1>2, <1>3 DEF Origins, Enrolled, TypeOK
<1>14. origin'[d] = s
  BY <1>2 DEF TypeOK
<1>15. Origins'
  <2>1. \A e \in Sessions : IF e \in Enrolled' THEN origin'[e] \in 1..issued' ELSE origin'[e] = None
    BY <1>1, <1>2, <1>3, <1>13, <1>14 DEF Origins, Enrolled, TypeOK
  <2>2. \A e, h \in Enrolled' : origin'[e] = origin'[h] => e = h
    BY <1>3, <1>13, <1>14 DEF Origins
  <2>3. ASSUME NEW c \in Codes, codes'[c] # None, NEW e \in Enrolled'
        PROVE  (origin'[e] = codes'[c].console) <=> (codes'[c].device = e)
    <3>1. CASE c = g
      BY <1>3, <1>6, <1>13, <1>14, <3>1
    <3>2. CASE c # g
      <4>1. codes'[c] = codes[c] /\ codes[c].console # s
        BY <1>1, <1>4, <2>3, <3>2 DEF RowsOfSessions
      <4>2. codes[c].device # d
        BY <1>2, <1>3, <2>3, <4>1 DEF TypeOK, Row
      <4>3. QED
        BY <1>3, <1>13, <1>14, <2>3, <4>1, <4>2 DEF Origins
    <3>3. QED
      BY <3>1, <3>2
  <2>4. QED
    BY <2>1, <2>2, <2>3 DEF Origins
<1>16. QED
  BY <1>7, <1>8, <1>9, <1>10, <1>11, <1>12, <1>15
\* Rows are cancelled or go, and change in no other way.
OnlyCancels ==
  \A c \in Codes : codes'[c] # None =>
    /\ codes[c] # None
    /\ codes'[c].console = codes[c].console /\ codes'[c].device = codes[c].device
    /\ codes[c].cancelled => codes'[c].cancelled

\* This leaves sessions and devices as they were related.
LEMMA CancelledRows ==
  ASSUME RowsOfSessions, Origins, OnlyCancels, Enrolled' = Enrolled, issued' = issued, origin' = origin
  PROVE  RowsOfSessions' /\ Origins'
BY DEF RowsOfSessions, Origins, OnlyCancels

\* The console's requests read,
LEMMA ReadsInvariant ==
  ASSUME IInv, NEW s \in Sessions, NEW t \in Stamps, CancelReads(s, t) \/ RevokeReads(s, t)
  PROVE  IInv'
<1> USE DEF IInv
<1>1. UNCHANGED <<codes, devices, failures, origin, wrong, issued, clock>>
  BY DEF CancelReads, RevokeReads, storeVars
<1>2. PICK p : /\ pending' = [pending EXCEPT ![s] = p]
               /\ \/ p \in [op : {"cancel"}, code : Codes]
                  \/ p \in [op : {"revoke"}, device : Enrolled]
  <2>1. CASE CancelReads(s, t)
    <3>1. PICK c \in Codes : pending' = [pending EXCEPT ![s] = [op |-> "cancel", code |-> c]]
      BY <2>1 DEF CancelReads
    <3>2. [op |-> "cancel", code |-> c] \in [op : {"cancel"}, code : Codes]
      OBVIOUS
    <3>3. QED
      BY <3>1, <3>2
  <2>2. CASE RevokeReads(s, t)
    <3>1. PICK c \in Codes :
            /\ Opens(s, c, t) /\ codes[c].device # None /\ devices[codes[c].device] = "live"
            /\ pending' = [pending EXCEPT ![s] = [op |-> "revoke", device |-> codes[c].device]]
      BY <2>2 DEF RevokeReads
    <3>2. codes[c].device \in Enrolled
      BY <3>1 DEF Opens, TypeOK, Row, Enrolled
    <3>3. [op |-> "revoke", device |-> codes[c].device] \in [op : {"revoke"}, device : Enrolled]
      BY <3>2
    <3>4. QED
      BY <3>1, <3>3
  <2>3. QED
    BY <2>1, <2>2
<1>3. TypeOK'
  BY <1>1, <1>2 DEF TypeOK, Enrolled
<1>4. PendingDevices'
  BY <1>1, <1>2 DEF PendingDevices, TypeOK, Enrolled
<1>5. QED
  BY <1>1, <1>3, <1>4 DEF CountsCover, RevocationClosesConsole, DevicesInOrder, RowsOfSessions,
     Origins, Enrolled

\* and write later, a cancellation whatever row has the digits by then,
LEMMA CancelInvariant ==
  ASSUME IInv, NEW s \in Sessions, CancelWrites(s)
  PROVE  IInv'
<1> USE NoneIsNoRow DEF IInv
<1> DEFINE g == pending[s].code
<1>1. /\ g \in Codes /\ pending' = [pending EXCEPT ![s] = [op |-> "none"]]
      /\ codes' = IF codes[g] = None THEN codes ELSE [codes EXCEPT ![g].cancelled = TRUE]
      /\ UNCHANGED <<devices, failures, issued, clock, origin, wrong>>
  BY DEF CancelWrites, TypeOK
<1>2. codes' \in [Codes -> Row \cup {None}] /\ OnlyCancels
  <2>1. ASSUME codes[g] # None
        PROVE  /\ [codes[g] EXCEPT !.cancelled = TRUE] \in Row
               /\ [codes[g] EXCEPT !.cancelled = TRUE].console = codes[g].console
               /\ [codes[g] EXCEPT !.cancelled = TRUE].device = codes[g].device
               /\ [codes[g] EXCEPT !.cancelled = TRUE].cancelled
    <3>1. codes[g] \in Row
      BY <1>1, <2>1 DEF TypeOK
    <3>2. QED
      BY <3>1 DEF Row
  <2>2. QED
    BY <1>1, <2>1 DEF TypeOK, OnlyCancels
<1>3. TypeOK'
  BY <1>1, <1>2 DEF TypeOK, OnlyCancels
<1>4. CountsCover' /\ DevicesInOrder' /\ PendingDevices'
  BY <1>1 DEF CountsCover, DevicesInOrder, PendingDevices, TypeOK, Enrolled
<1>5. RevocationClosesConsole'
  BY <1>1, <1>2 DEF RevocationClosesConsole, OnlyCancels
<1>6. Enrolled' = Enrolled
  BY <1>1 DEF Enrolled
<1>7. RowsOfSessions' /\ Origins'
  BY <1>1, <1>2, <1>6, CancelledRows
<1>8. QED
  BY <1>3, <1>4, <1>5, <1>7

\* a revocation the device and every row that names it.
LEMMA RevokeInvariant ==
  ASSUME IInv, NEW s \in Sessions, RevokeWrites(s)
  PROVE  IInv'
<1> USE NoneIsNoRow DEF IInv
<1> DEFINE d == pending[s].device
<1>1. /\ d \in Enrolled /\ pending' = [pending EXCEPT ![s] = [op |-> "none"]]
      /\ devices' = [devices EXCEPT ![d] = "revoked"]
      /\ codes' = [c \in Codes |->
                     IF codes[c] # None /\ codes[c].device = d /\ devices[d] = "live"
                     THEN [codes[c] EXCEPT !.cancelled = TRUE] ELSE codes[c]]
      /\ UNCHANGED <<failures, issued, clock, origin, wrong>>
  BY DEF RevokeWrites, Revoked, PendingDevices
<1>2. Enrolled' = Enrolled
  BY <1>1 DEF Enrolled, TypeOK
<1>3. /\ OnlyCancels
      /\ \A c \in Codes : codes'[c] # None =>
           /\ codes'[c] \in Row
           /\ codes'[c].cancelled \/ (codes'[c] = codes[c] /\ ~(codes[c].device = d /\ devices[d] = "live"))
  <2> SUFFICES ASSUME NEW c \in Codes, codes'[c] # None
               PROVE  /\ codes[c] # None /\ codes'[c].console = codes[c].console
                      /\ codes'[c].device = codes[c].device
                      /\ codes[c].cancelled => codes'[c].cancelled
                      /\ codes'[c] \in Row
                      /\ \/ codes'[c].cancelled
                         \/ codes'[c] = codes[c] /\ ~(codes[c].device = d /\ devices[d] = "live")
    BY DEF OnlyCancels
  <2>1. codes[c] # None
    BY <1>1
  <2>2. codes[c] \in Row
    BY <2>1 DEF TypeOK
  <2>3. QED
    BY <1>1, <2>1, <2>2 DEF Row
<1>4. TypeOK'
  <2>1. codes' \in [Codes -> Row \cup {None}]
    BY <1>1, <1>3
  <2>2. devices' \in [Sessions -> {"none", "live", "revoked"}]
    BY <1>1 DEF TypeOK
  <2>3. \A c \in Codes : codes'[c] # None /\ codes'[c].device # None =>
          devices'[codes'[c].device] # "none"
    BY <1>1, <1>3 DEF TypeOK, OnlyCancels
  <2>4. pending' \in [Sessions -> [op : {"none"}] \cup [op : {"cancel"}, code : Codes]
                                \cup [op : {"revoke"}, device : Sessions]]
    BY <1>1 DEF TypeOK
  <2>5. QED
    BY <1>1, <2>1, <2>2, <2>3, <2>4 DEF TypeOK
<1>5. RevocationClosesConsole'
  <2> SUFFICES ASSUME NEW c \in Codes, codes'[c] # None, codes'[c].device # None,
                      devices'[codes'[c].device] = "revoked", ~codes'[c].cancelled
               PROVE  FALSE
    BY DEF RevocationClosesConsole
  <2>1. codes'[c] = codes[c] /\ ~(codes[c].device = d /\ devices[d] = "live")
    BY <1>3
  <2>2. codes[c].device \in Sessions /\ codes[c] # None
    BY <1>3 DEF Row
  <2>3. CASE codes[c].device = d
    BY <1>1, <2>1, <2>2, <2>3 DEF RevocationClosesConsole, Enrolled, TypeOK
  <2>4. CASE codes[c].device # d
    BY <1>1, <2>1, <2>2, <2>4 DEF RevocationClosesConsole, TypeOK
  <2>5. QED
    BY <2>3, <2>4
<1>6. CountsCover' /\ DevicesInOrder' /\ PendingDevices'
  BY <1>1, <1>2 DEF CountsCover, DevicesInOrder, PendingDevices, TypeOK
<1>7. RowsOfSessions' /\ Origins'
  BY <1>1, <1>2, <1>3, CancelledRows
<1>8. QED
  BY <1>4, <1>5, <1>6, <1>7

\* Time passes, or nothing happens.
LEMMA IdleInvariant == IInv /\ (Tick \/ UNCHANGED vars) => IInv'
<1> SUFFICES ASSUME IInv, Tick \/ UNCHANGED vars PROVE IInv'
  OBVIOUS
<1>1. /\ UNCHANGED <<codes, devices, failures, origin, wrong, issued, pending>>
      /\ clock' \in 0..MaxClock
  BY TimesAssumption DEF Tick, vars, storeVars, IInv, TypeOK
<1>2. QED
  BY <1>1 DEF IInv, TypeOK, CountsCover, RevocationClosesConsole, DevicesInOrder,
     PendingDevices, RowsOfSessions, Origins, Enrolled

\* Every step preserves the invariant.
LEMMA StepInvariant == IInv /\ [Next]_vars => IInv'
BY CreateInvariant, InvalidInvariant, ExchangeInvariant, ReadsInvariant, CancelInvariant,
   RevokeInvariant, IdleInvariant DEF Next

\* The inductive invariant holds in every reachable state.
THEOREM Invariance == Spec => []IInv
BY InitInvariant, StepInvariant, PTL DEF Spec
-----------------------------------------------------------------------------
\* The tables are well formed, for any number of codes, sources and sessions.
THEOREM TypeCorrectness == Spec => []TypeOK
BY Invariance, PTL DEF IInv

\* No source gets more than Attempts wrong guesses out of one window.
THEOREM GuessesAreLimited == Spec => []GuessesPerWindow
<1>1. IInv => GuessesPerWindow
  <2> SUFFICES ASSUME IInv, NEW s \in Sources PROVE wrong[s] <= Attempts
    BY DEF GuessesPerWindow
  <2>1. <<"source", s>> \in Buckets
    BY DEF Buckets
  <2>2. failures[<<"source", s>>].attempts \in 0..Attempts /\ wrong[s] \in Nat
    BY <2>1 DEF IInv, TypeOK
  <2>3. QED
    BY <2>2, TimesAssumption DEF IInv, CountsCover
<1>2. QED
  BY <1>1, Invariance, PTL

\* A revoked device leaves no console session that shows it.
THEOREM RevocationIsComplete == Spec => []RevocationClosesConsole
BY Invariance, PTL DEF IInv

\* Further attempts do not lengthen a lockout.
THEOREM LockoutEnds == Spec => LockoutIsNotExtended
<1>1. ASSUME IInv, Next, NEW b \in Buckets, failures[b].attempts > 0, failures'[b].attempts > 0,
             failures'[b].expires # failures[b].expires
      PROVE  failures[b].expires <= clock
  <2>1. ASSUME NEW t \in Stamps, NEW bs,
               failures' = Bumped(Cleared(failures, t), bs, t) \/ failures' = Cleared(failures, t)
        PROVE  failures[b].expires <= clock
    <3>1. t \in Nat /\ t <= clock /\ clock \in Nat
      BY <1>1, StampsType DEF IInv
    <3>2. failures[b] \in [expires : Nat, attempts : 0..Attempts]
      BY <1>1 DEF IInv, TypeOK
    <3>3. CASE failures[b].expires <= t
      BY <3>1, <3>2, <3>3
    <3>4. CASE ~(failures[b].expires <= t)
      <4>1. Cleared(failures, t)[b] = failures[b]
        BY <3>4 DEF Cleared
      <4>2. QED
        BY <1>1, <2>1, <3>2, <4>1 DEF Bumped
    <3>5. QED
      BY <3>3, <3>4
  <2>2. QED
    BY <1>1, <2>1 DEF Next, CreateCode, ExchangeInvalid, Exchange, CancelReads, RevokeReads,
       CancelWrites, RevokeWrites, Tick, storeVars
<1>2. IInv /\ [Next]_vars =>
        [\A b \in Buckets :
           failures[b].attempts > 0 /\ failures'[b].attempts > 0
             /\ failures'[b].expires # failures[b].expires => failures[b].expires <= clock]_vars
  BY <1>1
<1>3. QED
  BY <1>2, Invariance, PTL DEF Spec, LockoutIsNotExtended-----------------------------------------------------------------------------
(* The refinement.                                                         *)

PhaseView == [s \in Sessions |-> Phase(s)]
AnswersView == [s \in Sessions |-> Cardinality(DevicesOf(s))]

\* A step in which no plugin answers: offers are made, cancelled and swept,
\* devices are revoked.
NobodyAnswers ==
  /\ origin' = origin
  /\ issued' \in {issued, issued + 1}
  /\ issued' = issued + 1 => \E c \in Codes : codes'[c] # None /\ codes'[c].console = issued + 1
                                             /\ ~codes'[c].cancelled
  /\ \A c \in Codes : codes'[c] # None /\ ~codes'[c].cancelled =>
       \/ codes[c] # None /\ ~codes[c].cancelled /\ codes'[c].console = codes[c].console
       \/ codes'[c].console = issued + 1
  /\ \A d \in Sessions : devices[d] = "revoked" => devices'[d] = "revoked"

\* Every action but exchange is such a step.
LEMMA OthersDoNotAnswer ==
  ASSUME IInv, Next, ~(\E source \in Sources, g \in Guesses, t \in Stamps : Exchange(source, g, t))
  PROVE  NobodyAnswers
<1> USE DEF IInv
<1>1. ASSUME NEW source \in Sources, NEW t \in Stamps, CreateCode(source, t)
      PROVE  NobodyAnswers
  <2>1. t \in Nat /\ issued \in Nat /\ issued < MaxSessions
    BY <1>1, StampsType DEF TypeOK, CreateCode
  <2>2. NewRow(t) \in Row /\ NewRow(t).console = issued + 1 /\ ~NewRow(t).cancelled
    BY <2>1, TimesAssumption DEF NewRow, Row, Sessions
  <2>3. NewRow(t) # None
    BY <2>2, NoneIsNoRow
  <2>4. UNCHANGED <<devices, origin>>
    BY <1>1 DEF CreateCode
  <2>5. CASE codes' = Swept(t) /\ issued' = issued
    BY <2>1, <2>4, <2>5, SweptRows DEF NobodyAnswers
  <2>6. ASSUME NEW c \in Codes, codes' = [Swept(t) EXCEPT ![c] = NewRow(t)], issued' = issued + 1
        PROVE  NobodyAnswers
    <3>1. codes'[c] = NewRow(t) /\ \A e \in Codes \ {c} : codes'[e] \in {codes[e], None}
      BY <2>1, <2>6, SweptRows
    <3>2. QED
      BY <2>1, <2>2, <2>3, <2>4, <2>6, <3>1 DEF NobodyAnswers
  <2>7. QED
    BY <1>1, <2>5, <2>6 DEF CreateCode
<1>2. ASSUME NEW s \in Sessions, CancelWrites(s)
      PROVE  NobodyAnswers
  <2>1. UNCHANGED <<devices, issued, origin>> /\ pending[s].code \in Codes
    BY <1>2 DEF CancelWrites, TypeOK
  <2>2. \A c \in Codes : codes'[c] # None /\ ~codes'[c].cancelled => codes'[c] = codes[c]
    <3>1. CASE codes[pending[s].code] = None
      BY <1>2, <3>1 DEF CancelWrites
    <3>2. CASE codes[pending[s].code] # None
      <4>1. codes[pending[s].code] \in Row
        BY <2>1, <3>2 DEF TypeOK
      <4>2. QED
        BY <1>2, <2>1, <3>2, <4>1 DEF CancelWrites, TypeOK, Row
    <3>3. QED
      BY <3>1, <3>2
  <2>3. QED
    BY <2>1, <2>2 DEF NobodyAnswers, TypeOK
<1>3. ASSUME NEW s \in Sessions, RevokeWrites(s)
      PROVE  NobodyAnswers
  <2>1. /\ UNCHANGED <<issued, origin>>
        /\ \A d \in Sessions : devices'[d] \in {devices[d], "revoked"}
    BY <1>3 DEF RevokeWrites, Revoked, TypeOK
  <2>2. \A c \in Codes : codes'[c] # None /\ ~codes'[c].cancelled => codes'[c] = codes[c]
    <3> SUFFICES ASSUME NEW c \in Codes, codes'[c] # None, ~codes'[c].cancelled, codes'[c] # codes[c]
                 PROVE  FALSE
      OBVIOUS
    <3>1. codes[c] # None /\ codes'[c] = [codes[c] EXCEPT !.cancelled = TRUE]
      BY <1>3 DEF RevokeWrites, Revoked
    <3>2. codes[c] \in Row
      BY <3>1 DEF TypeOK
    <3>3. QED
      BY <3>1, <3>2 DEF Row
  <2>3. QED
    BY <2>1, <2>2 DEF NobodyAnswers, TypeOK
<1>4. ASSUME UNCHANGED <<codes, devices, issued, origin>>
      PROVE  NobodyAnswers
  BY <1>4 DEF NobodyAnswers, TypeOK
<1>5. QED
  BY <1>1, <1>2, <1>3, <1>4 DEF Next, ExchangeInvalid, CancelReads, RevokeReads, Tick, storeVars

\* In it every session moves as the promise allows, and none becomes paired.
LEMMA NobodyAnswersMoves ==
  ASSUME IInv, IInv', NobodyAnswers
  PROVE  Promise!Next
<1> USE DEF IInv
<1>1. issued \in Nat /\ issued' \in Nat
  BY DEF TypeOK
<1>2. \A s \in Sessions : DevicesOf(s)' = DevicesOf(s)
  BY DEF NobodyAnswers, DevicesOf
<1>3. AnswersView' = AnswersView
  BY <1>2 DEF AnswersView
<1>4. ASSUME NEW s \in Sessions
      PROVE  /\ Phase(s)' = Phase(s) \/ <<Phase(s), Phase(s)'>> \in Promise!Moves
             /\ Phase(s)' = "paired" => Phase(s) = "paired"
             /\ Phase(s)' \in Promise!Phases
  <2> USE <1>1 DEF Promise!Moves, Promise!Phases
  <2>1. s \in Nat
    BY DEF Sessions
  <2>2. \A d \in DevicesOf(s) : d \in Sessions /\ d \in Enrolled /\ s <= issued
    BY NoneIsNoRow DEF DevicesOf, Origins, Enrolled
  <2>3. CASE s > issued
    <3>1. Phase(s) = "none"
      BY <2>3 DEF Phase
    <3>2. CASE s > issued'
      BY <3>1, <3>2 DEF Phase
    <3>3. CASE s <= issued'
      <4>1. s = issued + 1 /\ issued' = issued + 1
        BY <2>1, <2>3, <3>3 DEF NobodyAnswers
      <4>2. DevicesOf(s)' = {}
        BY <1>2, <2>1, <2>2, <2>3
      <4>3. \E c \in Codes : codes'[c] # None /\ codes'[c].console = s /\ ~codes'[c].cancelled
        BY <4>1 DEF NobodyAnswers
      <4>4. Phase(s)' = "waiting"
        BY <3>3, <4>1, <4>2, <4>3 DEF Phase
      <4>5. QED
        BY <3>1, <4>4
    <3>4. QED
      BY <2>1, <3>2, <3>3
  <2>4. CASE s <= issued /\ DevicesOf(s) # {}
    <3>1. s <= issued'
      BY <2>1, <2>4 DEF NobodyAnswers
    <3>2. Phase(s) = IF \E d \in DevicesOf(s) : devices[d] = "revoked" THEN "revoked" ELSE "paired"
      BY <2>1, <2>4 DEF Phase
    <3>3. Phase(s)' = IF \E d \in DevicesOf(s) : devices'[d] = "revoked" THEN "revoked" ELSE "paired"
      BY <1>2, <2>1, <2>4, <3>1 DEF Phase
    <3>4. QED
      BY <2>2, <3>2, <3>3 DEF NobodyAnswers
  <2>5. CASE s <= issued /\ DevicesOf(s) = {}
    <3>1. s <= issued' /\ s # issued + 1
      BY <2>1, <2>5 DEF NobodyAnswers
    <3>2. Phase(s) = IF \E c \in Codes : codes[c] # None /\ codes[c].console = s /\ ~codes[c].cancelled
                     THEN "waiting" ELSE "closed"
      BY <2>1, <2>5 DEF Phase
    <3>3. Phase(s)' = IF \E c \in Codes : codes'[c] # None /\ codes'[c].console = s /\ ~codes'[c].cancelled
                      THEN "waiting" ELSE "closed"
      BY <1>2, <2>1, <2>5, <3>1 DEF Phase
    <3>4. QED
      BY <3>1, <3>2, <3>3 DEF NobodyAnswers
  <2>6. QED
    BY <2>1, <2>3, <2>4, <2>5
<1>5. QED
  BY <1>3, <1>4 DEF Promise!Next, PhaseView, AnswersView

\* An answer moves its own session, from waiting to paired, and no other.
LEMMA AnswerMoves ==
  ASSUME IInv, IInv', NEW source \in Sources, NEW g \in Guesses, NEW t \in Stamps,
         Exchange(source, g, t)
  PROVE  Promise!Next
<1> USE NoneIsNoRow DEF IInv
<1>0. PICK d \in Sessions, s0 \in Sessions : d = NewDevice /\ s0 = codes[g].console
  BY DEF Exchange, Answerable, TypeOK, Row
<1>1. /\ g \in Codes /\ codes[g] # None /\ codes[g].device = None /\ ~codes[g].cancelled
      /\ d \in Sessions /\ codes' = [codes EXCEPT ![g].device = d]
      /\ devices' = [devices EXCEPT ![d] = "live"] /\ origin' = [origin EXCEPT ![d] = s0]
      /\ issued' = issued /\ issued \in Nat
  BY <1>0 DEF Exchange, Answerable, EnrolsDevice, TypeOK
<1>2. s0 \in Sessions /\ s0 <= issued /\ s0 \in Nat /\ codes[g] \in Row
  BY <1>0, <1>1 DEF RowsOfSessions, TypeOK, Row, Sessions
<1>3. d \notin Enrolled /\ devices[d] = "none" /\ origin[d] = None
  BY <1>0, <1>1, NextDevice DEF Enrolled, Origins
<1>4. DevicesOf(s0) = {}
  BY <1>0, <1>1, <1>2 DEF DevicesOf, Origins
<1>5. DevicesOf(s0)' = {d}
  BY <1>1, <1>2, <1>4 DEF DevicesOf, TypeOK
<1>6. \A s \in Sessions \ {s0} : DevicesOf(s)' = DevicesOf(s) /\ d \notin DevicesOf(s)
  BY <1>1, <1>3 DEF DevicesOf, TypeOK
<1>7. \A s \in Sessions \ {s0} : Phase(s)' = Phase(s)
  <2> SUFFICES ASSUME NEW s \in Sessions \ {s0} PROVE Phase(s)' = Phase(s)
    OBVIOUS
  <2>1. (\E e \in DevicesOf(s)' : devices'[e] = "revoked") <=> (\E e \in DevicesOf(s) : devices[e] = "revoked")
    BY <1>1, <1>6 DEF DevicesOf, TypeOK
  <2>2. codes'[g].console = s0
    BY <1>0, <1>1, <1>2 DEF TypeOK, Row
  <2>3. (\E c \in Codes : codes'[c] # None /\ codes'[c].console = s /\ ~codes'[c].cancelled)
        <=> (\E c \in Codes : codes[c] # None /\ codes[c].console = s /\ ~codes[c].cancelled)
    BY <1>0, <1>1, <2>2 DEF TypeOK
  <2>4. QED
    BY <1>1, <1>6, <2>1, <2>3 DEF Phase
<1>8. Phase(s0) = "waiting"
  BY <1>0, <1>1, <1>2, <1>4 DEF Phase
<1>9. Phase(s0)' = "paired"
  BY <1>1, <1>2, <1>5 DEF Phase, TypeOK
<1>10. PhaseView' = [PhaseView EXCEPT ![s0] = "paired"] /\ PhaseView[s0] = "waiting"
  BY <1>2, <1>7, <1>8, <1>9 DEF PhaseView
<1>11. Cardinality(DevicesOf(s0)) = 0 /\ Cardinality(DevicesOf(s0)') = 1
  BY <1>4, <1>5, FS_EmptySet, FS_Singleton
<1>12. AnswersView' = [AnswersView EXCEPT ![s0] = @ + 1]
  <2>1. AnswersView'[s0] = AnswersView[s0] + 1
    BY <1>11 DEF AnswersView
  <2>2. \A s \in Sessions \ {s0} : AnswersView'[s] = AnswersView[s]
    BY <1>6 DEF AnswersView
  <2>3. QED
    BY <2>1, <2>2 DEF AnswersView
<1>13. \A s \in Sessions : PhaseView[s] \in Promise!Phases /\ PhaseView'[s] \in Promise!Phases
                         /\ (PhaseView'[s] = PhaseView[s] \/ <<PhaseView[s], PhaseView'[s]>> \in Promise!Moves)
  BY <1>2, <1>7, <1>8, <1>9 DEF PhaseView, Phase, Promise!Phases, Promise!Moves
<1>14. QED
  BY <1>2, <1>10, <1>12, <1>13 DEF Promise!Next, PhaseView, AnswersView

\* Every step of the store is a step of the promise, or none.
LEMMA StepKeepsPromise ==
  IInv /\ IInv' /\ [Next]_vars => [Promise!Next]_<<PhaseView, AnswersView>>
<1> SUFFICES ASSUME IInv, IInv', [Next]_vars
             PROVE  Promise!Next \/ UNCHANGED <<PhaseView, AnswersView>>
  OBVIOUS
<1>1. CASE UNCHANGED vars
  BY <1>1 DEF vars, storeVars, PhaseView, AnswersView, Phase, DevicesOf
<1>2. CASE Next
  BY <1>2, OthersDoNotAnswer, NobodyAnswersMoves, AnswerMoves
<1>3. QED
  BY <1>1, <1>2

\* However requests, sweeps and clocks interleave, a session's code is answered
\* by one device at most and never again once it is gone, and a revoked device
\* stays revoked.
THEOREM Refinement == Spec => ImplementsPromise
<1>1. Init => Promise!Init
  <2> SUFFICES ASSUME Init PROVE Promise!Init
    OBVIOUS
  <2>1. \A s \in Sessions : Phase(s) = "none"
    BY DEF Init, Phase, Sessions
  <2>2. \A s \in Sessions : DevicesOf(s) = {}
    BY NoneIsNoRow DEF Init, DevicesOf
  <2>3. \A s \in Sessions : Cardinality(DevicesOf(s)) = 0
    BY <2>2, FS_EmptySet
  <2>4. QED
    BY <2>1, <2>3 DEF Promise!Init
<1>2. IInv /\ IInv' /\ [Next]_vars => [Promise!Next]_<<PhaseView, AnswersView>>
  BY StepKeepsPromise
<1>3. QED
  BY <1>1, <1>2, Invariance, PTL DEF Spec, ImplementsPromise, Promise!Spec, PhaseView, AnswersView
=============================================================================
