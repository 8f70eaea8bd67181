------------------------- MODULE UsageLedgerProofs --------------------------
(***************************************************************************)
(* Theorems about UsageLedger.  An archive can only clash with a summary   *)
(* line when rows as old as that line are still there, or come; a report   *)
(* can only tell a client of another's request when ids are used twice;    *)
(* and a line of the summary counts just the stored records of its group   *)
(* that are neither in the table any more nor deleted.                     *)
(***************************************************************************)
EXTENDS UsageLedger, FiniteSetTheorems, SequenceTheorems, TLAPS

Record == [id : Requests, client : Clients, status : Statuses, cost : {0, 1},
           traced : Nat, day : Nat]

Line == [day : Nat, client : Clients, requests : Nat, errors : Nat, cost : Nat]

Report == [caller : Clients \cup {All}, filter : Clients \cup {All}, total : SUBSET Requests,
           breakdown : SUBSET Requests, step : {"none", "total", "done"}]

\* TypeOK, with records, lines and reports typed as a whole.
Typed ==
    /\ TypeOK
    /\ buf \in Seq(Record) /\ hand \in Seq(Record)
    /\ rows \subseteq Record /\ IsFiniteSet(rows) /\ kept \subseteq Record
    /\ summary \subseteq Line /\ report \in Report
    /\ early \in BOOLEAN /\ refused \in BOOLEAN

KeptIds == {x.id : x \in kept}

\* Every request has one record, waiting, with consume or stored; a row that is left
\* came from one that was stored, and belongs to the same client.
Distinct ==
    /\ Buffered \cup InHand \cup KeptIds \subseteq sent
    /\ Buffered \cap InHand = {} /\ (Buffered \cup InHand) \cap KeptIds = {}
    /\ \A i, j \in DOMAIN buf : buf[i].id = buf[j].id => i = j
    /\ \A x, y \in kept : x.id = y.id => x = y
    /\ \A y \in rows : \E x \in kept : x.id = y.id /\ x.client = y.client

\* Reports count requests that were stored when the report was made.
Reported ==
    /\ report.total \cup report.breakdown \subseteq KeptIds
    /\ report.caller \in Outsiders => report.filter = report.caller
    /\ OwnUsageOnly

\* Records have no date before insert works on them, and then one that is past or present.
Dating ==
    /\ \A i \in DOMAIN buf : buf[i].day = 0
    /\ Dated => hand[1].day \in 1..today

\* Until an archive comes too early, everything in the summary is older than every row there
\* is or can come: than the day that is not over, and than the date of the record consume
\* has in its hand.
InOrder ==
    /\ refused => early
    /\ ~early => \A s \in summary : s.day < today /\ \A x \in rows : s.day < x.day
    /\ ~early /\ Dated => \A s \in summary : s.day < hand[1].day

LedgerInv == Typed /\ Dating /\ Distinct /\ Reported /\ InOrder

\* A stored record as it is in the table now.
Row(x) == [x EXCEPT !.cost = IF x.id \in waived THEN 0 ELSE x.cost]

\* The stored records that are neither in the table nor deleted, and those of a group.
Gone == {x \in kept : x.id \notin erased \cup Stored}
GoneOf(s) == {x \in Gone : SameGroup(s, x)}

\* The table holds stored records, without the costs that were reset; every record that
\* went was archived, and each line of the summary counts the records of its group that
\* went.
Accounts ==
    /\ IsFiniteSet(kept)
    /\ erased \cup waived \subseteq KeptIds /\ erased \cap Stored = {}
    /\ \A y \in rows : \E x \in kept : y = Row(x)
    /\ \A s, t \in summary : SameGroup(s, t) => s = t
    /\ \A x \in Gone : \E s \in summary : SameGroup(s, x)
    /\ \A s \in summary :
          /\ s.requests = Cardinality(GoneOf(s))
          /\ s.errors = Cardinality({x \in GoneOf(s) : x.status = "error"})
          /\ s.cost = Cardinality({x \in GoneOf(s) : x.cost = 1 /\ x.id \notin waived})

-----------------------------------------------------------------------------
\* The channel.

\* A send adds its record behind the others.
LEMMA RecordSent ==
    ASSUME NEW s \in Seq(Record), NEW x \in Record
    PROVE  /\ Append(s, x) \in Seq(Record) /\ Len(Append(s, x)) = Len(s) + 1
           /\ DOMAIN Append(s, x) = DOMAIN s \cup {Len(s) + 1} /\ Len(s) + 1 \notin DOMAIN s
           /\ \A i \in DOMAIN s : Append(s, x)[i] = s[i]
           /\ Append(s, x)[Len(s) + 1] = x
<1>1. /\ Append(s, x) \in Seq(Record) /\ Len(Append(s, x)) = Len(s) + 1
      /\ \A i \in 1..Len(s) : Append(s, x)[i] = s[i]
      /\ Append(s, x)[Len(s) + 1] = x
  BY AppendProperties
<1>2. Len(s) \in Nat /\ DOMAIN s = 1..Len(s) /\ DOMAIN Append(s, x) = 1..(Len(s) + 1)
  BY <1>1, LenProperties
<1>3. QED
  BY <1>1, <1>2

\* A receive takes the first record and moves the others up.
LEMMA RecordReceived ==
    ASSUME NEW s \in Seq(Record), s # <<>>
    PROVE  /\ Tail(s) \in Seq(Record) /\ Len(Tail(s)) = Len(s) - 1 /\ Len(s) \in Nat
           /\ Head(s) = s[1] /\ Head(s) \in Record /\ 1 \in DOMAIN s
           /\ \A i \in DOMAIN Tail(s) : /\ i \in Nat /\ i + 1 \in DOMAIN s /\ i + 1 # 1
                                        /\ Tail(s)[i] = s[i + 1]
<1>1. /\ Tail(s) \in Seq(Record) /\ Len(Tail(s)) = Len(s) - 1 /\ Head(s) \in Record
      /\ \A i \in 1..Len(Tail(s)) : Tail(s)[i] = s[i + 1]
  BY HeadTailProperties
<1>2. Len(s) \in Nat \ {0} /\ DOMAIN s = 1..Len(s) /\ DOMAIN Tail(s) = 1..(Len(s) - 1)
  BY <1>1, LenProperties, EmptySeq
<1>3. QED
  BY <1>1, <1>2

\* The hand of consume holds at most one record.
LEMMA HandHoldsOne ==
    ASSUME NEW s \in Seq(Record), s # <<>>, Len(s) <= 1
    PROVE  DOMAIN s = {1} /\ s[1] \in Record
<1>1. Len(s) = 1
  <2>1. Len(s) \in Nat /\ Len(s) # 0
    BY EmptySeq
  <2>2. \A n \in Nat : n # 0 /\ n <= 1 => n = 1
    OBVIOUS
  <2>3. QED
    BY <2>1, <2>2
<1>2. DOMAIN s = 1..1 /\ s[1] \in Record
  BY <1>1, LenProperties, ElementOfSeq
<1>3. QED
  BY <1>1, <1>2

\* The hand is empty, or holds one record.
LEMMA HandCases ==
    ASSUME NEW x \in Record
    PROVE  /\ <<x>> \in Seq(Record) /\ Len(<<x>>) = 1 /\ DOMAIN <<x>> = {1} /\ <<x>>[1] = x
           /\ <<>> \in Seq(Record) /\ Len(<<>>) = 0
BY EmptySeq

-----------------------------------------------------------------------------
\* The steps of the log.

LEMMA ServeStep ==
    ASSUME LedgerInv, NEW r \in Requests, NEW c \in Clients, NEW st \in Statuses,
           NEW cost \in {0, 1}, Serve(r, c, st, cost)
    PROVE  LedgerInv'
<1> DEFINE rec == [id |-> r, client |-> c, status |-> st, cost |-> cost, traced |-> today, day |-> 0]
<1>0. Typed /\ TypeOK /\ RequestLogTypeOK /\ Dating /\ Distinct /\ Reported /\ InOrder
  BY DEF LedgerInv, Typed, TypeOK
<1>1. rec \in Record /\ rec.id = r /\ rec.day = 0 /\ r \notin Buffered \cup InHand \cup KeptIds
  BY <1>0 DEF Record, RequestLogTypeOK, Serve, Distinct
<1> HIDE DEF rec
<1>2. /\ UNCHANGED <<open, hand, done, rows, dbOpen, today, dbErrors, failed, summary, refused,
                     early, kept, report>>
      /\ sent' = sent \cup {r} /\ Write(rec)
  BY DEF Serve, Write, adminVars, rec
<1>3. InHand' = InHand /\ Stored' = Stored /\ KeptIds' = KeptIds
  BY <1>2 DEF InHand, Stored, KeptIds
<1>4. CASE buf' = Append(buf, rec) /\ UNCHANGED dropped /\ Len(buf) < BufSize
  <2>1. /\ buf' \in Seq(Record) /\ Len(buf') = Len(buf) + 1 /\ Len(buf) \in Nat
        /\ DOMAIN buf' = DOMAIN buf \cup {Len(buf) + 1} /\ Len(buf) + 1 \notin DOMAIN buf
        /\ \A i \in DOMAIN buf : buf'[i] = buf[i]
        /\ buf'[Len(buf) + 1] = rec
    BY <1>0, <1>1, <1>4, RecordSent DEF Typed
  <2>2. Buffered' = Buffered \cup {r}
    BY <1>1, <2>1 DEF Buffered
  <2>3. Len(buf') <= BufSize
    BY <1>4, <2>1, RequestLogConfig
  <2>4. Typed'
    BY <1>0, <1>2, <1>3, <1>4, <2>1, <2>2, <2>3 DEF Typed, TypeOK, RequestLogTypeOK
  <2>5. \A i, j \in DOMAIN buf' : buf'[i].id = buf'[j].id => i = j
    <3>1. \A i \in DOMAIN buf : buf[i].id # r
      BY <1>1 DEF Buffered
    <3>2. QED
      BY <1>0, <1>1, <2>1, <3>1 DEF Distinct
  <2>6. Distinct'
    BY <1>0, <1>1, <1>2, <1>3, <2>2, <2>5 DEF Distinct
  <2>7. Dating'
    BY <1>0, <1>1, <1>2, <2>1 DEF Dating, Dated
  <2>8. Reported' /\ InOrder'
    BY <1>0, <1>2, <1>3 DEF Reported, OwnUsageOnly, InOrder, Dated
  <2>9. QED
    BY <2>4, <2>6, <2>7, <2>8 DEF LedgerInv
<1>5. CASE dropped' = dropped \cup {rec.id} /\ UNCHANGED buf
  <2>1. Buffered' = Buffered
    BY <1>5 DEF Buffered
  <2>2. Typed'
    BY <1>0, <1>1, <1>2, <1>3, <1>5, <2>1 DEF Typed, TypeOK, RequestLogTypeOK
  <2>3. Distinct'
    BY <1>0, <1>2, <1>3, <1>5, <2>1 DEF Distinct
  <2>4. Dating'
    BY <1>0, <1>2, <1>5 DEF Dating, Dated
  <2>5. Reported' /\ InOrder'
    BY <1>0, <1>2, <1>3 DEF Reported, OwnUsageOnly, InOrder, Dated
  <2>6. QED
    BY <2>2, <2>3, <2>4, <2>5 DEF LedgerInv
<1>6. QED
  BY <1>2, <1>4, <1>5 DEF Write

LEMMA StoreStep == LedgerInv /\ Store => LedgerInv'
<1> SUFFICES ASSUME LedgerInv, Store PROVE LedgerInv'
  OBVIOUS
<1>0. Typed /\ TypeOK /\ RequestLogTypeOK /\ Dating /\ Distinct /\ Reported /\ InOrder
  BY DEF LedgerInv, Typed, TypeOK
<1>1. UNCHANGED <<summary, refused, early, sent, report>> /\ kept' = kept \cup (rows' \ rows)
  BY DEF Store, adminVars
<1>2. CASE Take
  <2>1. /\ hand = <<>> /\ hand' = <<Head(buf)>> /\ buf' = Tail(buf) /\ buf # <<>>
        /\ UNCHANGED <<open, done, rows, dbOpen, today, dbErrors, dropped, failed>>
    BY <1>2 DEF Take
  <2>2. kept' = kept
    BY <1>1, <2>1
  <2>3. /\ buf' \in Seq(Record) /\ Len(buf') = Len(buf) - 1 /\ Len(buf) \in Nat
        /\ Head(buf) = buf[1] /\ Head(buf) \in Record /\ 1 \in DOMAIN buf
        /\ \A i \in DOMAIN buf' : i \in Nat /\ i + 1 \in DOMAIN buf /\ i + 1 # 1
        /\ \A i \in DOMAIN buf' : buf'[i] = buf[i + 1]
    BY <1>0, <2>1, RecordReceived DEF Typed
  <2>4. hand' \in Seq(Record) /\ Len(hand') = 1 /\ DOMAIN hand' = {1} /\ hand'[1] = buf[1]
    BY <2>1, <2>3, HandCases
  <2>5. InHand' = {buf[1].id} /\ buf[1].id \in Buffered
    BY <2>3, <2>4 DEF InHand, Buffered
  <2>6. Buffered' \subseteq Buffered \ {buf[1].id}
    BY <1>0, <2>3 DEF Buffered, Distinct
  <2>7. Len(buf') <= BufSize
    BY <1>0, <2>3, RequestLogConfig DEF RequestLogTypeOK
  <2>8. Stored' = Stored /\ KeptIds' = KeptIds
    BY <2>1, <2>2 DEF Stored, KeptIds
  <2>9. Typed'
    <3>1. RequestLogTypeOK'
      BY <1>0, <2>1, <2>4, <2>5, <2>6, <2>7, <2>8 DEF RequestLogTypeOK
    <3>2. QED
      BY <1>0, <1>1, <2>1, <2>2, <2>3, <2>4, <3>1 DEF Typed, TypeOK
  <2>10. \A i, j \in DOMAIN buf' : buf'[i].id = buf'[j].id => i = j
    <3> SUFFICES ASSUME NEW i \in DOMAIN buf', NEW j \in DOMAIN buf', buf'[i].id = buf'[j].id
                 PROVE  i = j
      OBVIOUS
    <3>1. i + 1 = j + 1
      BY <1>0, <2>3 DEF Distinct
    <3>2. QED
      BY <2>3, <3>1
  <2>11. Distinct'
    BY <1>0, <1>1, <2>1, <2>2, <2>5, <2>6, <2>8, <2>10 DEF Distinct
  <2>12. Dating' /\ ~Dated'
    BY <1>0, <2>1, <2>3, <2>4 DEF Dating, Dated
  <2>13. Reported' /\ InOrder'
    BY <1>0, <1>1, <2>1, <2>2, <2>8, <2>12 DEF Reported, OwnUsageOnly, InOrder
  <2>14. QED
    BY <2>9, <2>11, <2>12, <2>13 DEF LedgerInv
<1>3. CASE Insert
  <2> DEFINE x == hand[1]
  <2>1. /\ hand # <<>> /\ rows' = rows \cup {x} /\ hand' = <<>>
        /\ UNCHANGED <<buf, open, done, dbOpen, today, dbErrors, dropped, failed>>
    BY <1>3 DEF Insert, Dated
  <2>2. DOMAIN hand = {1} /\ hand[1] \in Record
    BY <1>0, <2>1, HandHoldsOne DEF Typed, RequestLogTypeOK
  <2>3. /\ x \in Record /\ x.day \in 1..today /\ Dated
        /\ x.client \in Clients /\ x.status \in Statuses /\ x.id \in Requests
        /\ ~early => \A s \in summary : s.day < x.day
    BY <1>0, <1>3, <2>2 DEF Record, Dating, InOrder, Insert
  <2> HIDE DEF x
  <2>4. InHand = {x.id} /\ Buffered' = Buffered /\ InHand' = {}
    <3>1. InHand = {x.id}
      BY <2>2 DEF InHand, x
    <3>2. DOMAIN hand' = {}
      BY <2>1
    <3>3. QED
      BY <2>1, <3>1, <3>2 DEF InHand, Buffered
  <2>5. x.id \notin KeptIds /\ \A y \in rows : y.id \in KeptIds
    BY <1>0, <2>4 DEF Distinct, KeptIds
  <2>6. x \notin rows /\ kept' = kept \cup {x}
    BY <1>1, <2>1, <2>5
  <2>7. KeptIds' = KeptIds \cup {x.id} /\ Stored' = Stored \cup {x.id}
    BY <2>1, <2>6 DEF KeptIds, Stored
  <2>8. Typed'
    <3>1. hand' \in Seq(Record) /\ Len(hand') <= 1
      BY <2>1, <2>3, HandCases
    <3>2. IsFiniteSet(rows')
      BY <1>0, <2>1, FS_AddElement DEF Typed
    <3>3. RequestLogTypeOK'
      BY <1>0, <2>1, <2>3, <2>4, <2>7, <3>1 DEF RequestLogTypeOK
    <3>4. TypeOK'
      BY <1>0, <1>1, <2>1, <2>3, <3>3 DEF TypeOK
    <3>5. QED
      BY <1>0, <1>1, <2>1, <2>3, <2>6, <3>1, <3>2, <3>4 DEF Typed
  <2>9. Distinct'
    <3>1. \A y, z \in kept' : y.id = z.id => y = z
      BY <1>0, <2>5, <2>6 DEF Distinct, KeptIds
    <3>2. \A y \in rows' : \E z \in kept' : z.id = y.id /\ z.client = y.client
      BY <1>0, <2>1, <2>6 DEF Distinct
    <3>3. x.id \in sent /\ x.id \notin Buffered
      BY <1>0, <2>4 DEF Distinct
    <3>4. QED
      BY <1>0, <1>1, <2>1, <2>4, <2>7, <3>1, <3>2, <3>3 DEF Distinct
  <2>10. Reported'
    BY <1>0, <1>1, <2>5, <2>6, <2>7 DEF Reported, OwnUsageOnly
  <2>11. Dating' /\ ~Dated'
    BY <1>0, <2>1 DEF Dating, Dated
  <2>12. InOrder'
    BY <1>0, <1>1, <2>1, <2>3, <2>11 DEF InOrder
  <2>13. QED
    BY <2>8, <2>9, <2>10, <2>11, <2>12 DEF LedgerInv
<1>4. CASE InsertFails
  <2>1. /\ hand # <<>> /\ failed' = failed \cup {hand[1].id} /\ hand' = <<>>
        /\ UNCHANGED <<buf, open, done, rows, dbOpen, today, dropped>>
        /\ dbErrors' = dbErrors \/ (dbErrors < MaxDbErrors /\ dbErrors' = dbErrors + 1)
    BY <1>4 DEF InsertFails, Dated
  <2>2. DOMAIN hand = {1} /\ hand[1] \in Record
    BY <1>0, <2>1, HandHoldsOne DEF Typed, RequestLogTypeOK
  <2>3. kept' = kept /\ hand[1].id \in Requests
    BY <1>1, <2>1, <2>2 DEF Record
  <2>4. Buffered' = Buffered /\ InHand' = {} /\ Stored' = Stored /\ KeptIds' = KeptIds
    <3>1. DOMAIN hand' = {}
      BY <2>1
    <3>2. QED
      BY <2>1, <2>3, <3>1 DEF InHand, Buffered, Stored, KeptIds
  <2>5. Typed'
    <3>1. hand' \in Seq(Record) /\ Len(hand') <= 1
      BY <2>1, <2>2, HandCases
    <3>2. dbErrors' \in 0..MaxDbErrors
      BY <1>0, <2>1, RequestLogConfig DEF RequestLogTypeOK
    <3>3. RequestLogTypeOK'
      BY <1>0, <2>1, <2>3, <2>4, <3>1, <3>2 DEF RequestLogTypeOK
    <3>4. QED
      BY <1>0, <1>1, <2>1, <2>3, <3>1, <3>3 DEF Typed, TypeOK
  <2>6. Distinct'
    BY <1>0, <1>1, <2>1, <2>3, <2>4 DEF Distinct
  <2>7. Dating' /\ ~Dated'
    BY <1>0, <2>1 DEF Dating, Dated
  <2>8. Reported' /\ InOrder'
    BY <1>0, <1>1, <2>1, <2>3, <2>4, <2>7 DEF Reported, OwnUsageOnly, InOrder
  <2>9. QED
    BY <2>5, <2>6, <2>7, <2>8 DEF LedgerInv
<1>5. CASE Stamp
  <2> DEFINE x == RowOf(hand[1])
  <2>1. /\ hand # <<>> /\ hand' = <<x>>
        /\ UNCHANGED <<buf, open, done, rows, dbOpen, today, dbErrors, dropped, failed>>
    BY <1>5 DEF Stamp
  <2>2. DOMAIN hand = {1} /\ hand[1] \in Record
    BY <1>0, <2>1, HandHoldsOne DEF Typed, RequestLogTypeOK
  <2>3. x \in Record /\ x.id = hand[1].id /\ x.day = today /\ today \in 1..today
    BY <1>0, <2>2 DEF RowOf, Record, RequestLogTypeOK
  <2> HIDE DEF x
  <2>4. hand' \in Seq(Record) /\ Len(hand') = 1 /\ DOMAIN hand' = {1} /\ hand'[1] = x
    BY <2>1, <2>3, HandCases
  <2>5. kept' = kept
    BY <1>1, <2>1
  <2>6. Buffered' = Buffered /\ InHand' = InHand /\ Stored' = Stored /\ KeptIds' = KeptIds
    BY <2>1, <2>2, <2>3, <2>4, <2>5 DEF InHand, Buffered, Stored, KeptIds
  <2>7. Typed'
    <3>1. RequestLogTypeOK'
      BY <1>0, <2>1, <2>4, <2>6 DEF RequestLogTypeOK
    <3>2. QED
      BY <1>0, <1>1, <2>1, <2>4, <2>5, <3>1 DEF Typed, TypeOK
  <2>8. Distinct'
    BY <1>0, <1>1, <2>1, <2>5, <2>6 DEF Distinct
  <2>9. Dating'
    BY <1>0, <2>1, <2>3, <2>4 DEF Dating
  <2>10. Reported' /\ InOrder'
    BY <1>0, <1>1, <2>1, <2>3, <2>4, <2>5, <2>6 DEF Reported, OwnUsageOnly, InOrder
  <2>11. QED
    BY <2>7, <2>8, <2>9, <2>10 DEF LedgerInv
<1>6. QED
  BY <1>2, <1>3, <1>4, <1>5 DEF Store, Consume

LEMMA TickStep == LedgerInv /\ Tick => LedgerInv'
<1> SUFFICES ASSUME LedgerInv, Tick PROVE LedgerInv'
  OBVIOUS
<1>0. Typed /\ TypeOK /\ RequestLogTypeOK /\ Dating /\ Distinct /\ Reported /\ InOrder
  BY DEF LedgerInv, Typed, TypeOK
<1>1. /\ UNCHANGED <<buf, open, hand, done, rows, dbOpen, dbErrors, dropped, failed, summary,
                     refused, early, sent, kept, report>>
      /\ today' = today + 1 /\ today < MaxDay
  BY DEF Tick, adminVars
<1>2. Buffered' = Buffered /\ InHand' = InHand /\ Stored' = Stored /\ KeptIds' = KeptIds
  BY <1>1 DEF Buffered, InHand, Stored, KeptIds
<1>3. /\ today \in Nat \ {0} /\ today' \in 1..MaxDay /\ today' \in Nat \ {0}
      /\ \A d \in 1..today : d \in 1..today'
      /\ \A d \in Nat : d < today => d < today'
  BY <1>0, <1>1, LedgerConfig DEF RequestLogTypeOK, TypeOK
<1>4. Typed'
  <2>1. RequestLogTypeOK'
    BY <1>0, <1>1, <1>2, <1>3 DEF RequestLogTypeOK
  <2>2. TypeOK'
    BY <1>0, <1>1, <1>3, <2>1 DEF TypeOK
  <2>3. QED
    BY <1>0, <1>1, <2>2 DEF Typed
<1>5. Distinct' /\ Reported'
  BY <1>0, <1>1, <1>2 DEF Distinct, Reported, OwnUsageOnly
<1>6. InOrder'
  <2>1. \A s \in summary : s.day \in Nat
    BY <1>0 DEF Typed, Line
  <2>2. QED
    BY <1>0, <1>1, <1>3, <2>1 DEF InOrder, Dated
<1>7. Dating'
  BY <1>0, <1>1, <1>3 DEF Dating, Dated
<1>8. QED
  BY <1>4, <1>5, <1>6, <1>7 DEF LedgerInv

-----------------------------------------------------------------------------
\* Administration.

\* The rows left over are rows there were, but for their costs.
LEMMA LeftOver ==
    ASSUME LedgerInv, NEW new, Replace(new), IsFiniteSet(new), new \subseteq Record,
           \A y \in new : \E x \in rows : /\ x.id = y.id /\ x.client = y.client
                                          /\ x.status = y.status /\ x.day = y.day,
           summary' \subseteq Line,
           \A s \in summary' : s.day \in 1..today /\ s.errors <= s.requests,
           early' \in BOOLEAN, refused' \in BOOLEAN
    PROVE  Typed' /\ Dating' /\ Distinct' /\ Reported'
<1>0. Typed /\ TypeOK /\ RequestLogTypeOK /\ Dating /\ Distinct /\ Reported
  BY DEF LedgerInv, Typed, TypeOK
<1>1. /\ rows' = new
      /\ UNCHANGED <<buf, open, hand, done, dbOpen, today, dbErrors, dropped, failed, sent, kept,
                     report>>
  BY DEF Replace
<1>2. Buffered' = Buffered /\ InHand' = InHand /\ KeptIds' = KeptIds
  BY <1>1 DEF Buffered, InHand, KeptIds
<1>3. Stored' \subseteq Requests
  BY <1>1 DEF Stored, Record
<1>4. RequestLogTypeOK'
  BY <1>0, <1>1, <1>2, <1>3 DEF RequestLogTypeOK
<1>5. \A x \in rows' : x.client \in Clients /\ x.status \in Statuses /\ x.day \in 1..today'
  BY <1>0, <1>1 DEF TypeOK
<1>6. \A s \in summary' : s.client \in Clients /\ s.day \in 1..today' /\ s.errors <= s.requests
  BY <1>1 DEF Line
<1>7. TypeOK'
  BY <1>0, <1>1, <1>4, <1>5, <1>6 DEF TypeOK
<1>8. Typed'
  BY <1>0, <1>1, <1>7 DEF Typed
<1>9. Distinct'
  <2>1. \A y \in rows' : \E x \in kept' : x.id = y.id /\ x.client = y.client
    BY <1>0, <1>1 DEF Distinct
  <2>2. QED
    BY <1>0, <1>1, <1>2, <2>1 DEF Distinct
<1>10. Reported'
  BY <1>0, <1>1, <1>2 DEF Reported, OwnUsageOnly
<1>11. Dating'
  BY <1>0, <1>1 DEF Dating, Dated
<1>12. QED
  BY <1>8, <1>9, <1>10, <1>11

\* A line of the summary counts a finite group.
LEMMA SummaryLine ==
    ASSUME LedgerInv, NEW old \in SUBSET rows, NEW x \in old
    PROVE  LET n == SummaryOf(old, x) IN
           /\ n \in Line /\ n.day = x.day /\ n.client = x.client
           /\ n.day \in 1..today /\ n.errors <= n.requests
<1> DEFINE group == {y \in old : SameGroup(x, y)}
           errors == {y \in group : y.status # "success"}
           costs == {y \in group : y.cost = 1}
<1>1. IsFiniteSet(rows) /\ x \in rows /\ x \in Record /\ x.day \in 1..today
  BY DEF LedgerInv, Typed, TypeOK
<1>2. IsFiniteSet(group)
  BY <1>1, FS_Subset
<1>3. /\ IsFiniteSet(errors) /\ Cardinality(errors) <= Cardinality(group)
      /\ IsFiniteSet(costs)
  BY <1>2, FS_Subset
<1>4. Cardinality(group) \in Nat /\ Cardinality(errors) \in Nat /\ Cardinality(costs) \in Nat
  BY <1>2, <1>3, FS_CardinalityType
<1>5. SummaryOf(old, x) = [day |-> x.day, client |-> x.client, requests |-> Cardinality(group),
                           errors |-> Cardinality(errors), cost |-> Cardinality(costs)]
  BY DEF SummaryOf
<1> HIDE DEF group, errors, costs
<1>6. QED
  BY <1>1, <1>3, <1>4, <1>5 DEF Line, Record

LEMMA ArchiveStep ==
    ASSUME LedgerInv, NEW date \in 1..(MaxDay + 1), Archive(date)
    PROVE  LedgerInv'
<1> DEFINE old == Before(date)
           lines == {SummaryOf(old, x) : x \in old}
           clash == \E n \in lines, s \in summary : SameGroup(n, s)
<1>0. Typed /\ TypeOK /\ RequestLogTypeOK /\ Dating /\ InOrder
  BY DEF LedgerInv, Typed, TypeOK
<1>1. /\ date \in Nat /\ today \in Nat /\ old \in SUBSET rows
      /\ \A x \in rows : x.day \in Nat /\ (x \notin old <=> date <= x.day)
  BY <1>0, LedgerConfig DEF Before, RequestLogTypeOK, Typed, Record
<1>2. \A n \in lines : /\ n \in Line /\ n.day \in 1..today /\ n.errors <= n.requests
                       /\ \E x \in old : n.day = x.day
  BY <1>1, SummaryLine
<1>3. CASE clash /\ Replace(rows) /\ refused' = TRUE /\ UNCHANGED <<summary, early>>
  <2>1. rows' = rows /\ today' = today /\ hand' = hand
    BY <1>3 DEF Replace
  <2>2. Typed' /\ Dating' /\ Distinct' /\ Reported'
    BY <1>0, <1>3, LeftOver DEF Typed, TypeOK
  <2>3. early
    <3>1. PICK n \in lines, s \in summary : SameGroup(n, s)
      BY <1>3
    <3>2. PICK x \in rows : n.day = x.day
      BY <1>1, <1>2
    <3>3. s.day = x.day /\ x.day \in Nat
      BY <1>1, <3>1, <3>2 DEF SameGroup
    <3>4. ~(s.day < x.day)
      BY <3>3
    <3>5. QED
      BY <1>0, <3>4 DEF InOrder, Typed
  <2>4. InOrder'
    BY <1>3, <2>3 DEF InOrder
  <2>5. QED
    BY <2>2, <2>4 DEF LedgerInv
<1>4. CASE /\ ~clash /\ Replace(rows \ old) /\ summary' = summary \cup lines
           /\ early' = (early \/ TooEarly(date)) /\ UNCHANGED refused
  <2> HIDE DEF old, lines, clash
  <2>1. rows' = rows \ old /\ today' = today /\ hand' = hand /\ Dated' = Dated
    BY <1>4 DEF Replace, Dated
  <2>2. Typed' /\ Dating' /\ Distinct' /\ Reported'
    <3>1. IsFiniteSet(rows \ old) /\ rows \ old \subseteq Record
      BY <1>0, FS_Subset DEF Typed
    <3>2. /\ summary' \subseteq Line
          /\ \A s \in summary' : s.day \in 1..today /\ s.errors <= s.requests
      BY <1>0, <1>2, <1>4 DEF Typed, TypeOK
    <3>3. early' \in BOOLEAN /\ refused' \in BOOLEAN
      BY <1>0, <1>4 DEF Typed
    <3>4. \A y \in rows \ old : \E x \in rows : /\ x.id = y.id /\ x.client = y.client
                                                /\ x.status = y.status /\ x.day = y.day
      OBVIOUS
    <3>5. QED
      BY <1>4, <3>1, <3>2, <3>3, <3>4, LeftOver
  <2>3. ASSUME ~early, ~TooEarly(date), NEW s \in summary \cup lines
        PROVE  /\ s.day < today /\ \A x \in rows \ old : s.day < x.day
               /\ Dated => s.day < hand[1].day
    <3>0. ~(date > today) /\ (Dated => ~(hand[1].day < date) /\ hand[1].day \in Nat)
      BY <1>0, <1>1, <2>3 DEF TooEarly, Dating
    <3>1. CASE s \in summary
      BY <1>0, <2>3, <3>1 DEF InOrder
    <3>2. CASE s \in lines
      <4>1. PICK x \in old : s.day = x.day
        BY <1>2, <3>2
      <4>2. x.day \in Nat /\ x.day < date
        BY <1>1, <4>1 DEF Before, old
      <4>3. s.day < today /\ (Dated => s.day < hand[1].day)
        BY <1>1, <3>0, <4>1, <4>2
      <4>4. ASSUME NEW y \in rows \ old PROVE s.day < y.day
        <5>1. y.day \in Nat /\ date <= y.day
          BY <1>1, <4>4
        <5>2. QED
          BY <1>1, <4>1, <4>2, <5>1
      <4>5. QED
        BY <4>3, <4>4
    <3>3. QED
      BY <2>3, <3>1, <3>2
  <2>4. InOrder'
    BY <1>0, <1>4, <2>1, <2>3 DEF InOrder
  <2>5. QED
    BY <2>2, <2>4 DEF LedgerInv
<1>5. QED
  BY <1>3, <1>4 DEF Archive

LEMMA SoftResetStep ==
    ASSUME LedgerInv, NEW date \in 1..(MaxDay + 1), SoftReset(date)
    PROVE  LedgerInv'
<1> DEFINE f == [x \in rows |-> IF x.day < date THEN [x EXCEPT !.cost = 0] ELSE x]
           new == {IF x.day < date THEN [x EXCEPT !.cost = 0] ELSE x : x \in rows}
<1>0. Typed /\ TypeOK /\ InOrder
  BY DEF LedgerInv, Typed
<1>1. Replace(new) /\ UNCHANGED <<summary, refused, early>>
  BY DEF SoftReset
<1>2. \A x \in rows : /\ f[x] \in Record /\ f[x].id = x.id /\ f[x].client = x.client
                      /\ f[x].status = x.status /\ f[x].day = x.day
  BY <1>0 DEF Typed, Record
<1>3. new = {f[x] : x \in rows}
  OBVIOUS
<1>4. IsFiniteSet(new)
  <2>1. f \in Surjection(rows, new)
    BY <1>3 DEF Surjection
  <2>2. QED
    BY <1>0, <2>1, FS_Surjection DEF Typed
<1> HIDE DEF f, new
<1>5. /\ new \subseteq Record
      /\ \A y \in new : \E x \in rows : /\ x.id = y.id /\ x.client = y.client
                                        /\ x.status = y.status /\ x.day = y.day
  BY <1>2, <1>3
<1>6. Typed' /\ Dating' /\ Distinct' /\ Reported'
  BY <1>0, <1>1, <1>4, <1>5, LeftOver DEF Typed, TypeOK
<1>7. InOrder'
  BY <1>0, <1>1, <1>5 DEF InOrder, Replace, Dated
<1>8. QED
  BY <1>6, <1>7 DEF LedgerInv

LEMMA HardDeleteStep ==
    ASSUME LedgerInv, NEW date \in 1..(MaxDay + 1), HardDelete(date)
    PROVE  LedgerInv'
<1> DEFINE new == rows \ Before(date)
<1>0. Typed /\ TypeOK /\ InOrder
  BY DEF LedgerInv, Typed
<1>1. Replace(new) /\ UNCHANGED <<summary, refused, early>>
  BY DEF HardDelete
<1>2. /\ new \subseteq rows /\ new \subseteq Record /\ IsFiniteSet(new)
      /\ \A y \in new : \E x \in rows : /\ x.id = y.id /\ x.client = y.client
                                        /\ x.status = y.status /\ x.day = y.day
  BY <1>0, FS_Subset DEF Typed
<1> HIDE DEF new
<1>3. Typed' /\ Dating' /\ Distinct' /\ Reported'
  BY <1>0, <1>1, <1>2, LeftOver DEF Typed, TypeOK
<1>4. InOrder'
  BY <1>0, <1>1, <1>2 DEF InOrder, Replace, Dated
<1>5. QED
  BY <1>3, <1>4 DEF LedgerInv

-----------------------------------------------------------------------------
\* Reports.

\* A query that is limited to a client counts stored requests of that client.
LEMMA CountedOwn ==
    ASSUME LedgerInv, NEW filter \in Clients \cup {All}
    PROVE  /\ Counted(filter) \subseteq KeptIds /\ Counted(filter) \subseteq Requests
           /\ filter # All => \A x \in kept : x.id \in Counted(filter) => x.client = filter
<1>1. \A i \in Counted(filter) :
          \E y \in rows : y.id = i /\ (filter = All \/ y.client = filter)
  BY DEF Counted
<1>2. /\ \A y \in rows : y \in Record /\ \E x \in kept : x.id = y.id /\ x.client = y.client
      /\ \A x, y \in kept : x.id = y.id => x = y
  BY DEF LedgerInv, Typed, Distinct
<1>3. QED
  BY <1>1, <1>2 DEF KeptIds, Record

\* What a step that only makes a report has to show.
LEMMA ReportStep ==
    ASSUME LedgerInv, UNCHANGED <<logVars, adminVars, sent, kept>>, report' \in Report,
           report'.total \cup report'.breakdown \subseteq KeptIds,
           report'.caller \in Outsiders => report'.filter = report'.caller,
           report'.caller \in Outsiders =>
               \A x \in kept : x.id \in report'.total \cup report'.breakdown =>
                                  x.client = report'.caller
    PROVE  LedgerInv'
<1>1. UNCHANGED <<buf, open, hand, done, rows, dbOpen, today, dbErrors, dropped, failed, summary,
                  refused, early, sent, kept>>
  BY DEF logVars, adminVars
<1>2. Buffered' = Buffered /\ InHand' = InHand /\ Stored' = Stored /\ KeptIds' = KeptIds
  BY <1>1 DEF Buffered, InHand, Stored, KeptIds
<1>3. RequestLogTypeOK'
  BY <1>1, <1>2 DEF LedgerInv, Typed, TypeOK, RequestLogTypeOK
<1>4. Typed'
  BY <1>1, <1>3 DEF LedgerInv, Typed, TypeOK, Report
<1>5. Distinct' /\ InOrder' /\ Dating'
  BY <1>1, <1>2 DEF LedgerInv, Distinct, InOrder, Dating, Dated
<1>6. Reported'
  BY <1>1, <1>2 DEF Reported, OwnUsageOnly
<1>7. QED
  BY <1>4, <1>5, <1>6 DEF LedgerInv

LEMMA UsageStep ==
    ASSUME LedgerInv, NEW caller \in Clients, NEW asked \in Clients \cup {All}, Usage(caller, asked)
    PROVE  LedgerInv'
<1> DEFINE filter == Filter(caller, asked)
<1>1. filter \in Clients \cup {All} /\ (caller \in Outsiders => filter = caller /\ filter # All)
  BY AllIsNoClient DEF Filter
<1> HIDE DEF filter
<1>2. /\ report' = [caller |-> caller, filter |-> filter, breakdown |-> {},
                    total |-> Counted(filter), step |-> "total"]
      /\ UNCHANGED <<logVars, adminVars, sent, kept>>
  BY DEF Usage, filter
<1>3. /\ Counted(filter) \subseteq KeptIds /\ Counted(filter) \subseteq Requests
      /\ filter # All => \A x \in kept : x.id \in Counted(filter) => x.client = filter
  BY <1>1, CountedOwn
<1>4. report' \in Report /\ report'.total \cup report'.breakdown = Counted(filter)
      /\ report'.caller = caller /\ report'.filter = filter
  BY <1>1, <1>2, <1>3 DEF Report
<1>5. QED
  BY <1>1, <1>2, <1>3, <1>4, ReportStep

LEMMA BreakdownStep == LedgerInv /\ Breakdown => LedgerInv'
<1> SUFFICES ASSUME LedgerInv, Breakdown PROVE LedgerInv'
  OBVIOUS
<1> DEFINE filter == report.filter
<1>1. report \in Report /\ Reported
  BY DEF LedgerInv, Typed
<1>2. filter \in Clients \cup {All} /\ (report.caller \in Outsiders => filter = report.caller)
      /\ (report.caller \in Outsiders => filter # All)
  BY <1>1, AllIsNoClient, LedgerConfig DEF Report, Reported
<1>3. /\ Counted(filter) \subseteq KeptIds /\ Counted(filter) \subseteq Requests
      /\ filter # All => \A x \in kept : x.id \in Counted(filter) => x.client = filter
  BY <1>2, CountedOwn
<1>4. /\ report' = [report EXCEPT !.breakdown = Counted(filter), !.step = "done"]
      /\ UNCHANGED <<logVars, adminVars, sent, kept>>
  BY DEF Breakdown
<1> HIDE DEF filter
<1>5. /\ report' \in Report /\ report'.total = report.total /\ report'.breakdown = Counted(filter)
      /\ report'.caller = report.caller /\ report'.filter = report.filter
  BY <1>1, <1>3, <1>4 DEF Report
<1>6. report.total \cup report.breakdown \subseteq KeptIds
      /\ (report.caller \in Outsiders =>
            \A x \in kept : x.id \in report.total => x.client = report.caller)
  BY <1>1 DEF Reported, OwnUsageOnly
<1>7. QED
  BY <1>2, <1>3, <1>4, <1>5, <1>6, ReportStep DEF filter

-----------------------------------------------------------------------------
\* The account of what was stored.

\* A row as it is in the table keeps the id, the group and the status of its record.
LEMMA RowFields ==
    ASSUME LedgerInv, NEW x \in kept
    PROVE  /\ Row(x) \in Record /\ Row(x).id = x.id /\ Row(x).client = x.client
           /\ Row(x).status = x.status /\ Row(x).day = x.day
           /\ Row(x).cost = 1 <=> x.cost = 1 /\ x.id \notin waived
<1>1. x \in Record
  BY DEF LedgerInv, Typed
<1>2. QED
  BY <1>1 DEF Row, Record

\* A record is in the table when its id is, and an id has one row.
LEMMA RowOfRecord ==
    ASSUME LedgerInv, Accounts
    PROVE  /\ \A x \in kept : x.id \in Stored <=> Row(x) \in rows
           /\ \A y, z \in rows : y.id = z.id => y = z
           /\ \A y \in rows : \E x \in kept : y = Row(x) /\ x.id = y.id
<1>1. \A y \in rows : \E x \in kept : y = Row(x) /\ x.id = y.id
  BY RowFields DEF Accounts
<1>2. \A x, y \in kept : x.id = y.id => x = y
  BY DEF LedgerInv, Distinct
<1>3. \A x \in kept : Row(x).id = x.id
  BY RowFields
<1>4. QED
  BY <1>1, <1>2, <1>3 DEF Stored

\* Records and their rows are equally many.
LEMMA Matched ==
    ASSUME LedgerInv, NEW A \in SUBSET kept, NEW B,
           \A x \in A : Row(x) \in B, \A y \in B : \E x \in A : y = Row(x), IsFiniteSet(A)
    PROVE  Cardinality(A) = Cardinality(B) /\ IsFiniteSet(B)
<1> DEFINE f == [x \in A |-> Row(x)]
<1>1. f \in Injection(A, B)
  <2>1. \A x \in A : Row(x).id = x.id
    BY RowFields
  <2>2. \A x, y \in A : Row(x) = Row(y) => x = y
    BY <2>1 DEF LedgerInv, Distinct
  <2>3. f \in [A -> B] /\ \A x \in A : f[x] = Row(x)
    OBVIOUS
  <2>4. \A x, y \in A : f[x] = f[y] => x = y
    BY <2>2, <2>3
  <2> HIDE DEF f
  <2>5. QED
    BY <2>3, <2>4 DEF Injection, IsInjective
<1>2. f \in Surjection(A, B)
  BY DEF Surjection
<1>3. ExistsBijection(A, B)
  BY <1>1, <1>2 DEF Bijection, ExistsBijection
<1>4. QED
  BY <1>3, FS_Bijection

\* Two sets without a common element are counted one after the other.
LEMMA TwoParts ==
    ASSUME NEW S, NEW A, NEW B, IsFiniteSet(S), S = A \cup B, A \cap B = {}
    PROVE  /\ IsFiniteSet(A) /\ IsFiniteSet(B)
           /\ Cardinality(A) \in Nat /\ Cardinality(B) \in Nat
           /\ Cardinality(S) = Cardinality(A) + Cardinality(B)
<1>1. IsFiniteSet(A) /\ IsFiniteSet(B)
  BY FS_Subset
<1>2. Cardinality(A) \in Nat /\ Cardinality(B) \in Nat
  BY <1>1, FS_CardinalityType
<1>3. Cardinality(A \cap B) = 0
  BY FS_EmptySet
<1>4. Cardinality(A \cup B) = Cardinality(A) + Cardinality(B) - Cardinality(A \cap B)
  BY <1>1, FS_Union
<1>5. QED
  BY <1>1, <1>2, <1>3, <1>4

\* What a step that takes nothing out of the account has to show.
LEMMA NothingGoes ==
    ASSUME Accounts, UNCHANGED summary, IsFiniteSet(kept'),
           (erased \cup waived)' \subseteq KeptIds', (erased \cap Stored)' = {},
           \A y \in rows' : \E x \in kept' : y = Row(x)', Gone' = Gone,
           \A x \in Gone : x.id \in waived' <=> x.id \in waived
    PROVE  Accounts'
<1>1. \A s : GoneOf(s)' = GoneOf(s)
  BY DEF GoneOf, SameGroup
<1>2. \A s : {x \in GoneOf(s) : x.cost = 1 /\ x.id \notin waived'}
               = {x \in GoneOf(s) : x.cost = 1 /\ x.id \notin waived}
  BY DEF GoneOf
<1>3. \A y \in rows' : \E x \in kept' : y = Row(x)'
  OBVIOUS
<1>4. \A s \in summary' : /\ s.requests = Cardinality(GoneOf(s)')
                          /\ s.errors = Cardinality({x \in GoneOf(s)' : x.status = "error"})
                          /\ s.cost = Cardinality({x \in GoneOf(s)' : x.cost = 1 /\ x.id \notin waived'})
  BY <1>1, <1>2 DEF Accounts
<1>5. \A s, t \in summary' : SameGroup(s, t) => s = t
  BY DEF Accounts
<1>6. \A x \in Gone' : \E s \in summary' : SameGroup(s, x)
  BY DEF Accounts
<1>7. QED
  BY <1>3, <1>4, <1>5, <1>6 DEF Accounts, SameGroup

LEMMA AccountsFrame ==
    ASSUME Accounts, UNCHANGED <<rows, kept, summary, erased, waived>>
    PROVE  Accounts'
<1>1. KeptIds' = KeptIds /\ Stored' = Stored
  BY DEF KeptIds, Stored
<1>2. Gone' = Gone /\ \A x : Row(x)' = Row(x)
  BY <1>1 DEF Gone, Row
<1>3. QED
  BY <1>1, <1>2, NothingGoes DEF Accounts

LEMMA InsertAccounts ==
    ASSUME LedgerInv, Accounts, Insert, Store
    PROVE  Accounts'
<1> DEFINE r == hand[1]
<1>1. /\ hand # <<>> /\ rows' = rows \cup {r} /\ kept' = kept \cup (rows' \ rows)
      /\ UNCHANGED <<summary, erased, waived>>
  BY DEF Insert, Dated, Store, adminVars
<1>2. DOMAIN hand = {1} /\ hand[1] \in Record
  BY <1>1, HandHoldsOne DEF LedgerInv, Typed, TypeOK, RequestLogTypeOK
<1>3. r \in Record /\ r.id \in InHand
  BY <1>2 DEF InHand
<1> HIDE DEF r
<1>5. r.id \notin KeptIds /\ \A y \in rows : y.id \in KeptIds
  BY <1>3 DEF LedgerInv, Distinct, KeptIds
<1>6. kept' = kept \cup {r}
  BY <1>1, <1>5
<1>7. KeptIds' = KeptIds \cup {r.id} /\ Stored' = Stored \cup {r.id}
  BY <1>1, <1>6 DEF KeptIds, Stored
<1>8. r.id \notin erased \cup waived
  BY <1>5 DEF Accounts
<1>9. IsFiniteSet(kept')
  BY <1>6, FS_AddElement DEF Accounts
<1>10. Gone' = Gone
  <2>1. \A x \in kept : x.id # r.id
    BY <1>5 DEF KeptIds
  <2>2. QED
    BY <1>1, <1>6, <1>7, <2>1 DEF Gone
<1>11. \A y \in rows' : \E x \in kept' : y = Row(x)'
  <2>1. \A x : Row(x)' = Row(x)
    BY <1>1 DEF Row
  <2>2. Row(r) = r
    BY <1>3, <1>8 DEF Row, Record
  <2>3. QED
    BY <1>1, <1>6, <2>1, <2>2 DEF Accounts
<1>12. (erased \cup waived)' \subseteq KeptIds' /\ (erased \cap Stored)' = {}
  BY <1>1, <1>7, <1>8 DEF Accounts
<1>13. QED
  BY <1>1, <1>9, <1>10, <1>11, <1>12, NothingGoes

LEMMA SoftResetAccounts ==
    ASSUME LedgerInv, Accounts, NEW date \in 1..(MaxDay + 1), SoftReset(date)
    PROVE  Accounts'
<1> DEFINE Reset(x) == IF x.day < date THEN [x EXCEPT !.cost = 0] ELSE x
           ids == {x.id : x \in Before(date)}
<1>1. /\ rows' = {Reset(x) : x \in rows} /\ waived' = waived \cup ids
      /\ UNCHANGED <<summary, kept, erased>>
  BY DEF SoftReset, Replace
<1>2. \A y \in rows : Reset(y).id = y.id /\ (y.id \in ids <=> y.day < date)
  <2>1. \A y \in rows : y \in Record
    BY DEF LedgerInv, Typed
  <2>2. \A y \in rows : Reset(y).id = y.id
    BY <2>1 DEF Record
  <2>3. \A y \in rows : y.id \in ids <=> y.day < date
    BY RowOfRecord DEF Before
  <2>4. QED
    BY <2>2, <2>3
<1>3. ids \subseteq Stored
  BY DEF Before, Stored
<1>4. Stored' = Stored /\ KeptIds' = KeptIds
  <2>1. Stored' = {Reset(x).id : x \in rows}
    BY <1>1 DEF Stored
  <2> HIDE DEF Reset, ids
  <2>2. Stored' = Stored
    BY <1>2, <2>1 DEF Stored
  <2>3. QED
    BY <1>1, <2>2 DEF KeptIds
<1>5. Gone' = Gone
  BY <1>1, <1>4 DEF Gone
<1>6. \A y \in rows' : \E x \in kept' : y = Row(x)'
  <2> SUFFICES ASSUME NEW y \in rows PROVE \E x \in kept : Reset(y) = Row(x)'
    BY <1>1
  <2>1. PICK x \in kept : y = Row(x) /\ x.id = y.id
    BY RowOfRecord
  <2>2. x \in Record /\ y \in Record
    BY DEF LedgerInv, Typed
  <2>3. CASE y.day < date
    <3>1. x.id \in waived'
      BY <1>1, <1>2, <2>1, <2>3
    <3>2. Row(x)' = [x EXCEPT !.cost = 0]
      BY <3>1 DEF Row
    <3>3. Reset(y) = [y EXCEPT !.cost = 0]
      BY <2>3
    <3>4. QED
      BY <2>1, <2>2, <3>2, <3>3 DEF Row, Record
  <2>4. CASE ~(y.day < date)
    <3>1. x.id \in waived' <=> x.id \in waived
      BY <1>1, <1>2, <2>1, <2>4
    <3>2. Row(x)' = Row(x)
      BY <3>1 DEF Row
    <3>3. QED
      BY <2>1, <2>4, <3>2
  <2>5. QED
    BY <2>3, <2>4
<1>7. \A x \in Gone : x.id \in waived' <=> x.id \in waived
  BY <1>1, <1>3 DEF Gone
<1>8. (erased \cup waived)' \subseteq KeptIds' /\ (erased \cap Stored)' = {}
  <2>1. Stored \subseteq KeptIds
    BY RowOfRecord DEF Stored, KeptIds
  <2>2. QED
    BY <1>1, <1>3, <1>4, <2>1 DEF Accounts
<1>9. QED
  BY <1>1, <1>5, <1>6, <1>7, <1>8, NothingGoes DEF Accounts

LEMMA HardDeleteAccounts ==
    ASSUME LedgerInv, Accounts, NEW date \in 1..(MaxDay + 1), HardDelete(date)
    PROVE  Accounts'
<1> DEFINE ids == {x.id : x \in Before(date)}
<1>1. /\ rows' = rows \ Before(date) /\ erased' = erased \cup ids
      /\ UNCHANGED <<summary, kept, waived>>
  BY DEF HardDelete, Replace
<1>2. ids \subseteq Stored /\ Stored' = Stored \ ids
  BY <1>1, RowOfRecord DEF Before, Stored
<1>3. KeptIds' = KeptIds /\ Stored \subseteq KeptIds
  BY <1>1, RowOfRecord DEF KeptIds, Stored
<1> HIDE DEF ids
<1>4. Gone' = Gone
  BY <1>1, <1>2 DEF Gone
<1>5. \A y \in rows' : \E x \in kept' : y = Row(x)'
  BY <1>1 DEF Accounts, Row
<1>6. (erased \cup waived)' \subseteq KeptIds' /\ (erased \cap Stored)' = {}
  BY <1>1, <1>2, <1>3 DEF Accounts
<1>7. QED
  BY <1>1, <1>4, <1>5, <1>6, NothingGoes DEF Accounts

\* A group has no line before its rows are archived, so the new line counts all that went.
LEMMA ArchiveAccounts ==
    ASSUME LedgerInv, Accounts, NEW date \in 1..(MaxDay + 1), Archive(date)
    PROVE  Accounts'
<1> DEFINE old == Before(date)
           lines == {SummaryOf(old, x) : x \in old}
           clash == \E n \in lines, s \in summary : SameGroup(n, s)
           taken == {x \in kept : Row(x) \in old}
<1>1. CASE clash /\ Replace(rows) /\ UNCHANGED <<summary, erased, waived>>
  BY <1>1, AccountsFrame DEF Replace
<1>2. CASE /\ ~clash /\ Replace(rows \ old) /\ summary' = summary \cup lines
           /\ UNCHANGED <<erased, waived>>
  <2>1. rows' = rows \ old /\ kept' = kept /\ old \subseteq rows
    BY <1>2 DEF Replace, Before
  <2>2. \A n \in lines : \E y \in old : n = SummaryOf(old, y) /\ SameGroup(n, y)
    BY <2>1, SummaryLine DEF SameGroup
  <2>3. \A y \in old : \E n \in lines : SameGroup(n, y)
    BY <2>1, SummaryLine DEF SameGroup
  <2> HIDE DEF old, lines
  <2>4. Stored' = Stored \ {y.id : y \in old} /\ Stored' \subseteq Stored
    BY <2>1, RowOfRecord DEF Stored
  <2>5. \A x \in kept : Row(x) \in old <=> x.id \in {y.id : y \in old}
    <3>1. \A x \in kept : Row(x).id = x.id
      BY RowFields
    <3>2. \A y \in old : \E x \in kept : y = Row(x) /\ x.id = y.id
      BY <2>1, RowOfRecord
    <3>3. \A x, y \in kept : x.id = y.id => x = y
      BY DEF LedgerInv, Distinct
    <3>4. QED
      BY <3>1, <3>2, <3>3
  <2>6. Gone' = Gone \cup taken
    <3>1. \A x \in taken : x.id \in Stored /\ x.id \notin erased
      BY <2>1, RowOfRecord DEF Accounts
    <3>2. \A x \in kept : x.id \in Stored' <=> x.id \in Stored /\ x \notin taken
      BY <2>4, <2>5
    <3>3. QED
      BY <1>2, <2>1, <3>1, <3>2 DEF Gone
  <2>7. \A x \in taken, s \in summary : ~SameGroup(s, x)
    <3>1. \A x \in taken : \E n \in lines : SameGroup(n, x)
      BY <2>3, RowFields DEF SameGroup
    <3>2. QED
      BY <1>2, <3>1 DEF SameGroup
  <2>8. \A x \in Gone, n \in lines : ~SameGroup(n, x)
    BY <1>2 DEF Accounts, SameGroup
  <2>9. \A s, t \in summary' : SameGroup(s, t) => s = t
    <3>1. ASSUME NEW m \in lines, NEW n \in lines, SameGroup(m, n) PROVE m = n
      <4>1. PICK y \in old, z \in old : /\ m = SummaryOf(old, y) /\ SameGroup(m, y)
                                        /\ n = SummaryOf(old, z) /\ SameGroup(n, z)
        BY <2>2
      <4>2. y.day = z.day /\ y.client = z.client
        BY <3>1, <4>1 DEF SameGroup
      <4>3. QED
        BY <4>1, <4>2 DEF SummaryOf, SameGroup
    <3>2. \A s, t \in summary : SameGroup(s, t) => s = t
      BY DEF Accounts
    <3>3. QED
      BY <1>2, <3>1, <3>2 DEF SameGroup
  <2>10. \A x \in Gone' : \E s \in summary' : SameGroup(s, x)
    <3>1. \A x \in Gone : \E s \in summary' : SameGroup(s, x)
      BY <1>2 DEF Accounts
    <3>2. \A x \in taken : \E n \in lines : SameGroup(n, x)
      BY <2>3, RowFields DEF SameGroup
    <3>3. QED
      BY <1>2, <2>6, <3>1, <3>2
  <2>11. ASSUME NEW s \in summary
         PROVE  /\ s.requests = Cardinality(GoneOf(s)')
                /\ s.errors = Cardinality({x \in GoneOf(s)' : x.status = "error"})
                /\ s.cost = Cardinality({x \in GoneOf(s)' : x.cost = 1 /\ x.id \notin waived})
    <3>1. GoneOf(s)' = GoneOf(s)
      BY <2>6, <2>7 DEF GoneOf, SameGroup
    <3>2. QED
      BY <3>1 DEF Accounts
  <2>12. ASSUME NEW n \in lines
         PROVE  /\ n.requests = Cardinality(GoneOf(n)')
                /\ n.errors = Cardinality({x \in GoneOf(n)' : x.status = "error"})
                /\ n.cost = Cardinality({x \in GoneOf(n)' : x.cost = 1 /\ x.id \notin waived})
    <3>1. PICK y \in old : n = SummaryOf(old, y) /\ SameGroup(n, y)
      BY <2>2
    <3> DEFINE group == {z \in old : SameGroup(y, z)}
               gone == {x \in taken : SameGroup(n, x)}
    <3>2. GoneOf(n)' = gone
      BY <2>6, <2>8 DEF GoneOf, SameGroup
    <3>3. IsFiniteSet(gone) /\ gone \subseteq kept
      BY FS_Subset DEF Accounts
    <3>4. /\ \A x \in gone : Row(x) \in group
          /\ \A z \in group : \E x \in gone : z = Row(x)
      <4>1. \A x \in kept : SameGroup(n, x) <=> SameGroup(y, Row(x))
        BY <3>1, RowFields DEF SameGroup
      <4>2. \A z \in old : \E x \in kept : z = Row(x)
        BY <2>1, RowOfRecord
      <4>3. QED
        BY <4>1, <4>2
    <3>5. \A x \in gone : /\ Row(x).status = x.status /\ x.status \in Statuses
                          /\ Row(x).cost = 1 <=> x.cost = 1 /\ x.id \notin waived
      BY <3>3, RowFields DEF LedgerInv, Typed, Record
    <3>6. n = [day |-> y.day, client |-> y.client, requests |-> Cardinality(group),
               errors |-> Cardinality({z \in group : z.status # "success"}),
               cost |-> Cardinality({z \in group : z.cost = 1})]
      BY <3>1 DEF SummaryOf
    <3> HIDE DEF group, gone
    <3>7. Cardinality(gone) = Cardinality(group)
      BY <3>3, <3>4, Matched
    <3>8. Cardinality({x \in gone : x.status = "error"})
            = Cardinality({z \in group : z.status # "success"})
      <4> DEFINE A == {x \in gone : x.status = "error"}
                 B == {z \in group : z.status # "success"}
      <4>1. IsFiniteSet(A) /\ A \in SUBSET kept
        BY <3>3, FS_Subset
      <4>2. (\A x \in A : Row(x) \in B) /\ (\A z \in B : \E x \in A : z = Row(x))
        BY <3>4, <3>5 DEF Statuses
      <4> HIDE DEF A, B
      <4>3. Cardinality(A) = Cardinality(B)
        BY <4>1, <4>2, Matched
      <4>4. QED
        BY <4>3 DEF A, B
    <3>9. Cardinality({x \in gone : x.cost = 1 /\ x.id \notin waived})
            = Cardinality({z \in group : z.cost = 1})
      <4> DEFINE A == {x \in gone : x.cost = 1 /\ x.id \notin waived}
                 B == {z \in group : z.cost = 1}
      <4>1. IsFiniteSet(A) /\ A \in SUBSET kept
        BY <3>3, FS_Subset
      <4>2. (\A x \in A : Row(x) \in B) /\ (\A z \in B : \E x \in A : z = Row(x))
        BY <3>4, <3>5
      <4> HIDE DEF A, B
      <4>3. Cardinality(A) = Cardinality(B)
        BY <4>1, <4>2, Matched
      <4>4. QED
        BY <4>3 DEF A, B
    <3>10. QED
      BY <3>2, <3>6, <3>7, <3>8, <3>9
  <2>13. \A y \in rows' : \E x \in kept' : y = Row(x)'
    BY <1>2, <2>1 DEF Accounts, Row
  <2>14. KeptIds' = KeptIds
    BY <2>1 DEF KeptIds
  <2>15. /\ IsFiniteSet(kept)' /\ (erased \cup waived)' \subseteq KeptIds'
         /\ (erased \cap Stored)' = {}
    BY <1>2, <2>1, <2>4, <2>14 DEF Accounts
  <2>16. \A s \in summary' :
           /\ s.requests = Cardinality(GoneOf(s)')
           /\ s.errors = Cardinality({x \in GoneOf(s)' : x.status = "error"})
           /\ s.cost = Cardinality({x \in GoneOf(s)' : x.cost = 1 /\ x.id \notin waived'})
    BY <1>2, <2>11, <2>12
  <2>17. QED
    BY <2>9, <2>10, <2>13, <2>15, <2>16 DEF Accounts, SameGroup
<1>3. QED
  BY <1>1, <1>2 DEF Archive

LEMMA AccountsStep == LedgerInv /\ Accounts /\ [Next]_vars => Accounts'
<1> SUFFICES ASSUME LedgerInv, Accounts, [Next]_vars PROVE Accounts'
  OBVIOUS
<1>1. CASE UNCHANGED <<rows, kept, summary, erased, waived>>
  BY <1>1, AccountsFrame
<1>2. ASSUME NEW r \in Requests, NEW c \in Clients, NEW st \in Statuses, NEW cost \in {0, 1},
             Serve(r, c, st, cost)
      PROVE  Accounts'
  <2>1. UNCHANGED <<rows, kept, summary, erased, waived>>
    BY <1>2 DEF Serve, Write, adminVars
  <2>2. QED
    BY <1>1, <2>1
<1>3. CASE Store
  <2>1. kept' = kept \cup (rows' \ rows) /\ UNCHANGED <<summary, erased, waived>>
    BY <1>3 DEF Store, adminVars
  <2>2. CASE Take \/ Stamp \/ InsertFails
    <3>1. rows' = rows
      BY <2>2 DEF Take, Stamp, InsertFails
    <3>2. QED
      BY <1>1, <2>1, <3>1
  <2>3. CASE Insert
    BY <1>3, <2>3, InsertAccounts
  <2>4. QED
    BY <1>3, <2>2, <2>3 DEF Store, Consume
<1>4. CASE Tick \/ Breakdown \/ UNCHANGED vars
        \/ \E caller \in Clients, asked \in Clients \cup {All} : Usage(caller, asked)
  BY <1>1, <1>4 DEF Tick, Breakdown, Usage, vars, logVars, adminVars
<1>5. QED
  BY <1>2, <1>3, <1>4, ArchiveAccounts, SoftResetAccounts, HardDeleteAccounts DEF Next

LEMMA AccountsInit == Init => Accounts
<1> SUFFICES ASSUME Init PROVE Accounts
  OBVIOUS
<1>1. rows = {} /\ kept = {} /\ summary = {} /\ erased = {} /\ waived = {}
  BY DEF Init, NewRequestLogWriter
<1>2. Gone = {}
  BY <1>1 DEF Gone
<1>3. QED
  BY <1>1, <1>2, FS_EmptySet DEF Accounts

\* What is stored and not deleted is in the table or counted by the summary.
LEMMA AccountsAddUp == LedgerInv /\ Accounts => UsageConserved
<1> SUFFICES ASSUME LedgerInv, Accounts, NEW c \in Clients, NEW d \in 1..MaxDay
             PROVE  LET live == {x \in kept : x.client = c /\ x.day = d /\ x.id \notin erased} IN
                    /\ Stats(c, d).requests + Archived(c, d).requests = Cardinality(live)
                    /\ Stats(c, d).errors + Archived(c, d).errors
                          = Cardinality({x \in live : x.status = "error"})
                    /\ Stats(c, d).cost + Archived(c, d).cost
                          = Cardinality({x \in live : x.cost = 1 /\ x.id \notin waived})
  BY DEF UsageConserved, Accounts
<1> DEFINE live == {x \in kept : x.client = c /\ x.day = d /\ x.id \notin erased}
           held == {x \in live : x.id \in Stored}
           gone == {x \in live : x.id \notin Stored}
           group == {x \in rows : x.client = c /\ x.day = d}
           E(S) == {x \in S : x.status = "error"}
           C(S) == {x \in S : x.cost = 1 /\ x.id \notin waived}
<1>1. live \subseteq kept /\ IsFiniteSet(live) /\ IsFiniteSet(E(live)) /\ IsFiniteSet(C(live))
  <2>1. IsFiniteSet(kept)
    BY DEF Accounts
  <2>2. QED
    BY <2>1, FS_Subset
<1>2. /\ Cardinality(live) = Cardinality(held) + Cardinality(gone)
      /\ IsFiniteSet(held) /\ Cardinality(held) \in Nat
  <2>1. live = held \cup gone /\ held \cap gone = {}
    OBVIOUS
  <2> HIDE DEF live, held, gone
  <2>2. QED
    BY <1>1, <2>1, TwoParts
<1>3. /\ Cardinality(E(live)) = Cardinality(E(held)) + Cardinality(E(gone))
      /\ IsFiniteSet(E(held)) /\ Cardinality(E(held)) \in Nat
  <2> DEFINE S == E(live)
             A == E(held)
             B == E(gone)
  <2>1. S = A \cup B /\ A \cap B = {} /\ IsFiniteSet(S)
    BY <1>1
  <2> HIDE DEF S, A, B
  <2>2. /\ Cardinality(S) = Cardinality(A) + Cardinality(B)
        /\ IsFiniteSet(A) /\ Cardinality(A) \in Nat
    BY <2>1, TwoParts
  <2>3. QED
    BY <2>2 DEF S, A, B
<1>4. /\ Cardinality(C(live)) = Cardinality(C(held)) + Cardinality(C(gone))
      /\ IsFiniteSet(C(held)) /\ Cardinality(C(held)) \in Nat
  <2> DEFINE S == C(live)
             A == C(held)
             B == C(gone)
  <2>1. S = A \cup B /\ A \cap B = {} /\ IsFiniteSet(S)
    BY <1>1
  <2> HIDE DEF S, A, B
  <2>2. /\ Cardinality(S) = Cardinality(A) + Cardinality(B)
        /\ IsFiniteSet(A) /\ Cardinality(A) \in Nat
    BY <2>1, TwoParts
  <2>3. QED
    BY <2>2 DEF S, A, B
<1>5. /\ held \subseteq kept
      /\ \A x \in held : Row(x) \in group /\ Row(x).status = x.status
      /\ \A x \in held : Row(x).cost = 1 <=> x.cost = 1 /\ x.id \notin waived
      /\ \A y \in group : \E x \in held : y = Row(x)
  <2>1. held \subseteq kept
    OBVIOUS
  <2>2. \A x \in held : Row(x) \in group /\ Row(x).status = x.status
    BY <2>1, RowFields, RowOfRecord
  <2>3. \A x \in held : Row(x).cost = 1 <=> x.cost = 1 /\ x.id \notin waived
    BY <2>1, RowFields
  <2>4. \A y \in group : \E x \in held : y = Row(x)
    <3> SUFFICES ASSUME NEW y \in group PROVE \E x \in held : y = Row(x)
      OBVIOUS
    <3>1. PICK x \in kept : y = Row(x) /\ x.id = y.id
      BY RowOfRecord
    <3>2. x.id \in Stored /\ x.id \notin erased
      BY <3>1 DEF Stored, Accounts
    <3>3. x.client = c /\ x.day = d
      BY <3>1, RowFields
    <3>4. QED
      BY <3>1, <3>2, <3>3
  <2>5. QED
    BY <2>1, <2>2, <2>3, <2>4
<1>6. /\ Stats(c, d).requests = Cardinality(group)
      /\ Stats(c, d).errors = Cardinality(E(group))
      /\ Stats(c, d).cost = Cardinality({x \in group : x.cost = 1})
  BY DEF Stats
<1>7. gone = {x \in Gone : x.client = c /\ x.day = d}
  BY DEF Gone
<1> HIDE DEF live, held, gone, group
<1>8. Cardinality(held) = Cardinality(group)
  BY <1>2, <1>5, Matched
<1>9. Cardinality(E(held)) = Cardinality(E(group))
  <2>1. /\ E(held) \in SUBSET kept /\ \A x \in E(held) : Row(x) \in E(group)
        /\ \A y \in E(group) : \E x \in E(held) : y = Row(x)
    BY <1>5
  <2> HIDE DEF E
  <2>2. QED
    BY <1>3, <2>1, Matched
<1>10. Cardinality(C(held)) = Cardinality({x \in group : x.cost = 1})
  <2> DEFINE B == {x \in group : x.cost = 1}
  <2>1. /\ C(held) \in SUBSET kept /\ \A x \in C(held) : Row(x) \in B
        /\ \A y \in B : \E x \in C(held) : y = Row(x)
    BY <1>5
  <2> HIDE DEF C, B
  <2>2. Cardinality(C(held)) = Cardinality(B)
    BY <1>4, <2>1, Matched
  <2>3. QED
    BY <2>2 DEF B
<1>11. /\ Archived(c, d).requests = Cardinality(gone)
       /\ Archived(c, d).errors = Cardinality(E(gone))
       /\ Archived(c, d).cost = Cardinality(C(gone))
  <2> DEFINE lines == {s \in summary : s.client = c /\ s.day = d}
  <2>1. CASE lines = {}
    <3>1. Archived(c, d) = [requests |-> 0, errors |-> 0, cost |-> 0]
      BY <2>1 DEF Archived
    <3>2. gone = {}
      BY <1>7, <2>1 DEF Accounts, SameGroup
    <3>3. E(gone) = {} /\ C(gone) = {}
      BY <3>2
    <3>4. QED
      BY <3>1, <3>2, <3>3, FS_EmptySet
  <2>2. CASE lines # {}
    <3>1. Archived(c, d) \in lines
      BY <2>2 DEF Archived
    <3>2. PICK s \in summary : s = Archived(c, d) /\ s.client = c /\ s.day = d
      BY <3>1
    <3>3. GoneOf(s) = gone
      BY <1>7, <3>2 DEF GoneOf, SameGroup
    <3>4. /\ s.requests = Cardinality(GoneOf(s)) /\ s.errors = Cardinality(E(GoneOf(s)))
          /\ s.cost = Cardinality(C(GoneOf(s)))
      BY DEF Accounts
    <3>5. QED
      BY <3>2, <3>3, <3>4
  <2>3. QED
    BY <2>1, <2>2
<1>12. /\ Stats(c, d).requests + Archived(c, d).requests = Cardinality(live)
       /\ Stats(c, d).errors + Archived(c, d).errors = Cardinality(E(live))
       /\ Stats(c, d).cost + Archived(c, d).cost = Cardinality(C(live))
  BY <1>2, <1>3, <1>4, <1>6, <1>8, <1>9, <1>10, <1>11
<1>13. QED
  BY <1>12 DEF live

-----------------------------------------------------------------------------
\* The theorems.

LEMMA LedgerInvInit == Init => LedgerInv
<1> SUFFICES ASSUME Init PROVE LedgerInv
  OBVIOUS
<1>1. /\ buf = <<>> /\ hand = <<>> /\ buf \in Seq(Record) /\ hand \in Seq(Record)
      /\ Len(buf) = 0 /\ Len(hand) = 0
  BY EmptySeq DEF Init, NewRequestLogWriter
<1>2. DOMAIN buf = {} /\ DOMAIN hand = {}
  BY <1>1
<1>3. Buffered = {} /\ InHand = {} /\ Stored = {} /\ KeptIds = {}
  BY <1>2 DEF Init, NewRequestLogWriter, Buffered, InHand, Stored, KeptIds
<1>4. 0 <= BufSize /\ 0 <= 1 /\ 0 \in 0..MaxDbErrors /\ 1 \in 1..MaxDay /\ 1 \in Nat \ {0}
  BY RequestLogConfig, LedgerConfig
<1>5. RequestLogTypeOK
  BY <1>1, <1>3, <1>4 DEF Init, NewRequestLogWriter, RequestLogTypeOK
<1>6. Typed
  <2>1. report \in Report /\ report.step \in {"none", "total", "done"}
    BY DEF Init, NoReport, Report
  <2>2. TypeOK
    BY <1>4, <1>5, <2>1 DEF Init, NewRequestLogWriter, TypeOK
  <2>3. QED
    BY <1>1, <2>1, <2>2, FS_EmptySet DEF Init, NewRequestLogWriter, Typed
<1>7. Distinct
  BY <1>2, <1>3 DEF Init, NewRequestLogWriter, Distinct
<1>8. Reported
  BY <1>3, AllIsNoClient, LedgerConfig DEF Init, NoReport, Reported, OwnUsageOnly
<1>9. InOrder
  BY DEF Init, InOrder
<1>10. Dating
  BY <1>1, <1>2 DEF Dating, Dated
<1>11. QED
  BY <1>6, <1>7, <1>8, <1>9, <1>10 DEF LedgerInv

LEMMA LedgerInvStep == LedgerInv /\ [Next]_vars => LedgerInv'
<1> SUFFICES ASSUME LedgerInv, [Next]_vars PROVE LedgerInv'
  OBVIOUS
<1>1. CASE Next
  BY <1>1, ServeStep, StoreStep, TickStep, ArchiveStep, SoftResetStep, HardDeleteStep, UsageStep,
     BreakdownStep DEF Next
<1>2. CASE UNCHANGED vars
  <2>1. UNCHANGED <<logVars, adminVars, sent, kept, report>>
    BY <1>2 DEF vars
  <2>2. QED
    BY <2>1, ReportStep DEF LedgerInv, Typed, Reported, OwnUsageOnly
<1>3. QED
  BY <1>1, <1>2

LEMMA LedgerInvHolds == Spec => []LedgerInv
BY LedgerInvInit, LedgerInvStep, PTL DEF Spec

\* Every variable of the usage data stays in its domain, and a line of the daily summary
\* never counts more failures than requests.
THEOREM LedgerTypeCorrect == Spec => []TypeOK
<1>1. LedgerInv => TypeOK
  BY DEF LedgerInv, Typed
<1>2. QED
  BY <1>1, LedgerInvHolds, PTL

\* However many records are late, resets and deletions never make an archive fail; only an
\* earlier archive does, up to a date of which a record could still come: after the current
\* day, or after the date of a record whose INSERT had not run yet.
THEOREM LedgerPastArchivesSucceed == Spec => []PastArchivesSucceed
<1>1. LedgerInv => PastArchivesSucceed
  BY DEF LedgerInv, InOrder, PastArchivesSucceed
<1>2. QED
  BY <1>1, LedgerInvHolds, PTL

\* A report given to a client outside the trusted networks counts its own requests only,
\* whatever is stored, archived or deleted between its two statements.
THEOREM LedgerOwnUsageOnly == Spec => []OwnUsageOnly
<1>1. LedgerInv => OwnUsageOnly
  BY DEF LedgerInv, Reported
<1>2. QED
  BY <1>1, LedgerInvHolds, PTL

\* Nothing that was stored gets lost or counted twice, whatever archives, resets and
\* deletions run while records arrive: for every client and day, the rows and the line of
\* the daily summary add up to what was stored and not deleted or reset on purpose.
THEOREM LedgerUsageConserved == Spec => []UsageConserved
<1>1. Spec => []Accounts
  BY AccountsInit, AccountsStep, LedgerInvHolds, PTL DEF Spec
<1>2. QED
  BY <1>1, AccountsAddUp, LedgerInvHolds, PTL
=============================================================================
