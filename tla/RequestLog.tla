----------------------------- MODULE RequestLog -----------------------------
(***************************************************************************)
(* The asynchronous request log (internal/store/requestlog.go): handlers   *)
(* write records into a bounded channel, one goroutine inserts them.       *)
(* The database has one connection, so a statement is one step.  A record  *)
(* has day 0 until insert dates it.                                        *)
(***************************************************************************)
EXTENDS Integers, Sequences, FiniteSets

CONSTANTS
    Requests,       \* the requests; each writes one record, with its trace_id
    BufSize,        \* capacity of the channel
    MaxDbErrors     \* bound on failing INSERTs

ASSUME RequestLogConfig == BufSize \in Nat \ {0} /\ MaxDbErrors \in Nat

VARIABLES
    buf,        \* ch: the records waiting
    open,       \* ch is not closed yet
    hand,       \* the record consume works on, if any
    done,       \* the channel Close waits for is closed: consume has ended
    rows,       \* request_logs
    dbOpen,     \* the database is not closed yet
    today,      \* the date
    dbErrors,   \* failed INSERTs
    dropped,    \* history: requests whose record was dropped by Write
    failed      \* history: requests whose INSERT failed

logVars == <<buf, open, hand, done, rows, dbOpen, today, dbErrors, dropped, failed>>

\* The places a record can be in.
Buffered == {buf[i].id : i \in DOMAIN buf}
InHand == {hand[i].id : i \in DOMAIN hand}
Stored == {x.id : x \in rows}

RequestLogTypeOK ==
    /\ Len(buf) <= BufSize /\ Len(hand) <= 1
    /\ Buffered \cup InHand \cup Stored \cup dropped \cup failed \subseteq Requests
    /\ open \in BOOLEAN /\ done \in BOOLEAN /\ dbOpen \in BOOLEAN
    /\ dbErrors \in 0..MaxDbErrors /\ today \in Nat \ {0}

NewRequestLogWriter ==
    /\ buf = <<>> /\ open = TRUE /\ hand = <<>> /\ done = FALSE
    /\ rows = {} /\ dbOpen = TRUE /\ today = 1 /\ dbErrors = 0
    /\ dropped = {} /\ failed = {}

\* Faulty: a full buffer takes one more.
WriteOverfull(rec) ==
    /\ open
    /\ IF Len(buf) <= BufSize
       THEN buf' = Append(buf, rec) /\ UNCHANGED dropped
       ELSE dropped' = dropped \cup {rec.id} /\ UNCHANGED buf
    /\ UNCHANGED <<open, hand, done, rows, dbOpen, today, dbErrors, failed>>

\* Part of a handler's step.  On a closed channel the send panics instead.
Write(rec) ==
    /\ open
    /\ IF Len(buf) < BufSize
       THEN buf' = Append(buf, rec) /\ UNCHANGED dropped
       ELSE dropped' = dropped \cup {rec.id} /\ UNCHANGED buf
    /\ UNCHANGED <<open, hand, done, rows, dbOpen, today, dbErrors, failed>>

\* Close, before it waits for consume.
CloseChannel ==
    /\ open
    /\ open' = FALSE
    /\ UNCHANGED <<buf, hand, done, rows, dbOpen, today, dbErrors, dropped, failed>>

\* Faulty: the record stays in the channel while consume works on it.
TakeKeeps ==
    /\ hand = <<>> /\ buf # <<>>
    /\ hand' = <<Head(buf)>>
    /\ UNCHANGED <<buf, open, done, rows, dbOpen, today, dbErrors, dropped, failed>>

Take ==
    /\ hand = <<>> /\ buf # <<>> /\ ~done
    /\ hand' = <<Head(buf)>> /\ buf' = Tail(buf)
    /\ UNCHANGED <<open, done, rows, dbOpen, today, dbErrors, dropped, failed>>

\* The record in the hand has its date.
Dated == hand # <<>> /\ hand[1].day # 0

\* Faulty: the row is dated by its trace_id, not by the time insert works on it.
RowOfTrace(rec) == [rec EXCEPT !.day = rec.traced]

\* The row of a record carries the date on which insert works on it.
RowOf(rec) == [rec EXCEPT !.day = today]

\* insert reads the clock before its statement waits for the connection.
Stamp ==
    /\ hand # <<>> /\ ~Dated
    /\ hand' = <<RowOf(hand[1])>>
    /\ UNCHANGED <<buf, open, done, rows, dbOpen, today, dbErrors, dropped, failed>>

\* The INSERT, at any time after that.
Insert ==
    /\ Dated /\ dbOpen
    /\ rows' = rows \cup {hand[1]}
    /\ hand' = <<>>
    /\ UNCHANGED <<buf, open, done, dbOpen, today, dbErrors, dropped, failed>>

\* Faulty: consume ends at the first record it cannot store.
InsertFailsForGood ==
    /\ Dated
    /\ \/ ~dbOpen /\ UNCHANGED dbErrors
       \/ dbOpen /\ dbErrors < MaxDbErrors /\ dbErrors' = dbErrors + 1
    /\ failed' = failed \cup {hand[1].id}
    /\ hand' = <<>> /\ done' = TRUE
    /\ UNCHANGED <<buf, open, rows, dbOpen, today, dropped>>

\* The database is closed, or the statement fails: the record is only logged.
InsertFails ==
    /\ Dated
    /\ \/ ~dbOpen /\ UNCHANGED dbErrors
       \/ dbOpen /\ dbErrors < MaxDbErrors /\ dbErrors' = dbErrors + 1
    /\ failed' = failed \cup {hand[1].id}
    /\ hand' = <<>>
    /\ UNCHANGED <<buf, open, done, rows, dbOpen, today, dropped>>

\* The range over the closed, empty channel ends.
ConsumeEnds ==
    /\ ~open /\ buf = <<>> /\ hand = <<>> /\ ~done
    /\ done' = TRUE
    /\ UNCHANGED <<buf, open, hand, rows, dbOpen, today, dbErrors, dropped, failed>>

Consume == Take \/ Stamp \/ Insert \/ InsertFails

-----------------------------------------------------------------------------

\* The record of a request that got as far as Write is in exactly one place: waiting,
\* with consume, stored, failed to be stored, or dropped.  None is stored twice or lost
\* between the channel and the table (Write, consume).
RecordInOnePlace(written) ==
    \A r \in written :
        Cardinality({i \in DOMAIN buf : buf[i].id = r})
        + Cardinality({i \in DOMAIN hand : hand[i].id = r})
        + Cardinality({x \in rows : x.id = r})
        + (IF r \in failed THEN 1 ELSE 0) + (IF r \in dropped THEN 1 ELSE 0) = 1
=============================================================================
