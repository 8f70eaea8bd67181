---------------------------- MODULE UsageLedger -----------------------------
(***************************************************************************)
(* The usage data over the request log: records arrive while               *)
(* administrators archive, reset and delete them (store/usage_admin.go,    *)
(* handler/usage_admin.go) and clients ask for their usage                 *)
(* (store/usage.go, handler/usage.go).  Every transaction of the           *)
(* administration is one step: the database has one connection.            *)
(* A row is grouped by its client; provider, model and project, which are  *)
(* treated alike, are left out.                                            *)
(***************************************************************************)
EXTENDS RequestLog

CONSTANTS
    Clients,
    Outsiders,      \* the clients outside the trusted networks
    Allowed,        \* allowed_operations of usage_retention.yaml
    MaxDay          \* bound on the date

ASSUME LedgerConfig ==
    /\ Outsiders \subseteq Clients
    /\ Allowed \subseteq {"archive", "soft_reset", "hard_delete"}
    /\ MaxDay \in Nat \ {0}

VARIABLES
    summary,        \* archived_daily_summary
    sent,           \* history: the requests that were served
    kept,           \* history: the rows stored, by their ids
    erased,         \* history: the rows deleted by HardDelete
    waived,         \* history: the rows whose cost SoftReset took away
    refused,        \* history: an archive failed on the unique index
    early,          \* history: an archive took in a day of which records were still to come
    report          \* a usage report under way or given out

adminVars == <<summary, erased, waived, refused, early>>
vars == <<logVars, adminVars, sent, kept, report>>

Statuses == {"success", "error"}

\* Everybody's usage.
All == "all"

\* In the code that is the empty client_id, which is no client's.
ASSUME AllIsNoClient == All \notin Clients

NoReport == [caller |-> All, filter |-> All, total |-> {}, breakdown |-> {}, step |-> "none"]

TypeOK ==
    /\ RequestLogTypeOK
    /\ today \in 1..MaxDay
    /\ \A x \in rows : x.client \in Clients /\ x.status \in Statuses /\ x.day \in 1..today
    /\ \A s \in summary : s.client \in Clients /\ s.day \in 1..today /\ s.errors <= s.requests
    /\ report.step \in {"none", "total", "done"}

Init ==
    /\ NewRequestLogWriter
    /\ summary = {} /\ sent = {} /\ kept = {} /\ erased = {} /\ waived = {}
    /\ refused = FALSE /\ early = FALSE
    /\ report = NoReport

-----------------------------------------------------------------------------
\* The log.

\* A handler ends and writes its record; a failed request costs nothing.
Serve(r, client, status, cost) ==
    /\ r \notin sent
    /\ status = "error" => cost = 0
    /\ sent' = sent \cup {r}
    /\ Write([id |-> r, client |-> client, status |-> status, cost |-> cost,
              traced |-> today, day |-> 0])
    /\ UNCHANGED <<adminVars, kept, report>>

Store ==
    /\ Consume
    /\ kept' = kept \cup (rows' \ rows)
    /\ UNCHANGED <<adminVars, sent, report>>

Tick ==
    /\ today < MaxDay
    /\ today' = today + 1
    /\ UNCHANGED <<buf, open, hand, done, rows, dbOpen, dbErrors, dropped, failed>>
    /\ UNCHANGED <<adminVars, sent, kept, report>>

-----------------------------------------------------------------------------
\* Administration.

IsOperationAllowed(op) == op \in Allowed

Before(date) == {x \in rows : x.day < date}

SameGroup(x, y) == x.day = y.day /\ x.client = y.client

\* The line of the daily summary for the group of x among the rows old.
SummaryOf(old, x) ==
    LET group == {y \in old : SameGroup(x, y)} IN
    [day |-> x.day, client |-> x.client, requests |-> Cardinality(group),
     errors |-> Cardinality({y \in group : y.status # "success"}),
     cost |-> Cardinality({y \in group : y.cost = 1})]

Replace(newRows) ==
    /\ rows' = newRows
    /\ UNCHANGED <<buf, open, hand, done, dbOpen, today, dbErrors, dropped, failed>>
    /\ UNCHANGED <<sent, kept, report>>

\* Records of a day before the date may still come: it is not over, or one that is dated
\* waits for its INSERT.
TooEarly(date) == date > today \/ (Dated /\ hand[1].day < date)

\* Faulty: the DELETE stays although the INSERT failed.
ArchiveHalf(date) ==
    LET old == Before(date)
        lines == {SummaryOf(old, x) : x \in old}
        clash == \E n \in lines, s \in summary : SameGroup(n, s) IN
    /\ IsOperationAllowed("archive")
    /\ Replace(rows \ old)
    /\ refused' = (refused \/ clash)
    /\ summary' = IF clash THEN summary ELSE summary \cup lines
    /\ early' = (early \/ TooEarly(date))
    /\ UNCHANGED <<erased, waived>>

\* A group that is in the summary already violates the unique index: nothing changes.
\* The date is not compared with the current one.
Archive(date) ==
    LET old == Before(date)
        lines == {SummaryOf(old, x) : x \in old}
        clash == \E n \in lines, s \in summary : SameGroup(n, s) IN
    /\ IsOperationAllowed("archive")
    /\ IF clash
       THEN Replace(rows) /\ refused' = TRUE /\ UNCHANGED <<summary, early>>
       ELSE /\ Replace(rows \ old)
            /\ summary' = summary \cup lines
            /\ early' = (early \/ TooEarly(date))
            /\ UNCHANGED refused
    /\ UNCHANGED <<erased, waived>>

SoftReset(date) ==
    /\ IsOperationAllowed("soft_reset")
    /\ Replace({IF x.day < date THEN [x EXCEPT !.cost = 0] ELSE x : x \in rows})
    /\ waived' = waived \cup {x.id : x \in Before(date)}
    /\ UNCHANGED <<summary, erased, refused, early>>

HardDelete(date) ==
    /\ IsOperationAllowed("hard_delete")
    /\ Replace(rows \ Before(date))
    /\ erased' = erased \cup {x.id : x \in Before(date)}
    /\ UNCHANGED <<summary, waived, refused, early>>

-----------------------------------------------------------------------------
\* Usage reports: the total first, the breakdown in a second statement.

\* Faulty: an outsider who names no client gets everybody's usage.
FilterAsAsked(caller, asked) == asked

\* Outside the trusted networks a client sees its own usage.
Filter(caller, asked) == IF caller \in Outsiders THEN caller ELSE asked

\* The rows Query counts: successful requests of the client.
Counted(filter) ==
    {x.id : x \in {y \in rows : y.status = "success" /\ (filter = All \/ y.client = filter)}}

\* An outsider who names another client is turned away.
Usage(caller, asked) ==
    /\ report.step # "total"
    /\ caller \in Outsiders => asked \in {caller, All}
    /\ report' = [caller |-> caller, filter |-> Filter(caller, asked), breakdown |-> {},
                  total |-> Counted(Filter(caller, asked)), step |-> "total"]
    /\ UNCHANGED <<logVars, adminVars, sent, kept>>

Breakdown ==
    /\ report.step = "total"
    /\ report' = [report EXCEPT !.breakdown = Counted(report.filter), !.step = "done"]
    /\ UNCHANGED <<logVars, adminVars, sent, kept>>

\* RequestLogReader.Stats of a date, grouped by client: failures are the rows with status
\* error.
Stats(c, d) ==
    LET group == {x \in rows : x.client = c /\ x.day = d} IN
    [requests |-> Cardinality(group), errors |-> Cardinality({x \in group : x.status = "error"}),
     cost |-> Cardinality({x \in group : x.cost = 1})]

-----------------------------------------------------------------------------

Next ==
    \/ \E r \in Requests, c \in Clients, s \in Statuses, cost \in {0, 1} : Serve(r, c, s, cost)
    \/ Store
    \/ Tick
    \/ \E date \in 1..(MaxDay + 1) : Archive(date) \/ SoftReset(date) \/ HardDelete(date)
    \/ \E caller \in Clients, asked \in Clients \cup {All} : Usage(caller, asked)
    \/ Breakdown

Spec == Init /\ [][Next]_vars

-----------------------------------------------------------------------------

\* What the daily summary says about a client and a day.
Archived(c, d) ==
    LET lines == {s \in summary : s.client = c /\ s.day = d} IN
    IF lines = {} THEN [requests |-> 0, errors |-> 0, cost |-> 0] ELSE CHOOSE s \in lines : TRUE

\* Whatever archives and resets run while records arrive, and whichever of them fail,
\* the summary has one line for a client and a day at most, and that line and the rows
\* together account for every request, failure and cost of the client on that day that
\* was ever stored and not deleted or reset on purpose (UsageAdmin,
\* RequestLogReader.Stats).
UsageConserved ==
    /\ \A s, t \in summary : SameGroup(s, t) => s = t
    /\ \A c \in Clients, d \in 1..MaxDay :
        LET live == {x \in kept : x.client = c /\ x.day = d /\ x.id \notin erased} IN
        /\ Stats(c, d).requests + Archived(c, d).requests = Cardinality(live)
        /\ Stats(c, d).errors + Archived(c, d).errors
              = Cardinality({x \in live : x.status = "error"})
        /\ Stats(c, d).cost + Archived(c, d).cost
              = Cardinality({x \in live : x.cost = 1 /\ x.id \notin waived})

\* However long records wait in the channel and whatever administrators do meanwhile, an
\* archive fails only after one up to a date too early: it took in a day that was not
\* over, or came between the time.Now and the INSERT of a record of a day it took in
\* (UsageAdmin.Archive, RequestLogWriter.insert).
PastArchivesSucceed == refused => early

\* A report given to a client outside the trusted networks counts only that client's
\* requests, in the total and in the breakdown (UsageHandler.Usage).
OwnUsageOnly ==
    report.caller \in Outsiders =>
        \A x \in kept : x.id \in report.total \cup report.breakdown => x.client = report.caller
=============================================================================
