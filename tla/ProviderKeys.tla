---------------------------- MODULE ProviderKeys ----------------------------
(***************************************************************************)
(* The provider keys (internal/store/keystore.go, audit.go), changed by    *)
(* the admin API of the server and by the command line tool, two processes *)
(* over one database file, and read by the server when it starts.          *)
(* Every SQL statement or transaction is one step.  A call is at           *)
(*                                                                         *)
(*   "select", "insert", "overwrite"   in Create                           *)
(*   "update"                          in Update                           *)
(*   "get", "rotate"                   in Rotate                           *)
(*   "deactivate"                      in Deactivate                       *)
(*   "audit"                           in its AuditLog.Record calls        *)
(***************************************************************************)
EXTENDS Integers, Sequences

CONSTANTS
    Calls,          \* the calls made, by API or command line
    Providers,      \* the providers that need a key
    Names,          \* key names
    Main,           \* the name the command line tool uses
    EnvKeys,        \* the providers with a key in the environment
    MaxRows,        \* bound on the identifiers that calls name
    MaxClock,       \* bound on the seconds that pass
    MaxFaults,      \* bound on failing statements
    MaxRestarts     \* bound on restarts of the server

ASSUME ProviderKeyConfig ==
    /\ Main \in Names
    /\ EnvKeys \subseteq Providers
    /\ MaxRows \in Nat /\ MaxClock \in Nat /\ MaxFaults \in Nat /\ MaxRestarts \in Nat

VARIABLES
    rows,       \* provider_keys, the id being the position
    audit,      \* key_audit_log: the calls and the keys they reported
    call,       \* call -> who makes it, its arguments, where it is, its result
    loaded,     \* provider -> the key the server registered it with
    clock,      \* time.Now in seconds
    faults,     \* failed statements
    restarts,   \* restarts of the server
    changes,    \* history: which call changed which key
    since,      \* history: provider -> the keys changed since it was registered with one
    hurt        \* history: calls that met a failing statement or died

vars == <<rows, audit, call, loaded, clock, faults, restarts, changes, since, hurt>>
history == <<changes, since, hurt>>
others == <<loaded, clock, restarts>>

Steps == {"select", "insert", "overwrite", "update", "get", "rotate", "deactivate", "audit"}

\* What loaded holds when it is not the id of a row.
FromEnv == 0
Unregistered == -1
Unread == -2

Row == [provider : Providers, name : Names, active : BOOLEAN, updated : 0..MaxClock]

Ids == 1..Len(rows)

Keys == Providers \X Names

TypeOK ==
    /\ rows \in Seq(Row)
    /\ audit \subseteq Calls \X (1..(MaxRows + Len(rows)))
    /\ \A c \in Calls :
         /\ call[c].via \in {"none", "api", "cli"}
         /\ call[c].pc \in {"idle", "ok", "not_found", "error", "dead"} \cup Steps
         /\ call[c].id \in 0..(MaxRows + Len(rows))
         /\ call[c].todo \in Seq(0..(MaxRows + Len(rows)))
         /\ call[c].now \in 0..clock
    /\ \A p \in Providers : loaded[p] \in Unread..Len(rows)
    /\ clock \in 0..MaxClock /\ faults \in 0..MaxFaults /\ restarts \in 0..MaxRestarts

Idle == [via |-> "none", pc |-> "idle", key |-> <<>>, id |-> 0, todo |-> <<>>, now |-> 0]

NewRow(key, now) == [provider |-> key[1], name |-> key[2], active |-> TRUE, updated |-> now]

\* A database without keys, or with one that an earlier call left active.
Init ==
    /\ clock = 0 /\ faults = 0 /\ restarts = 0
    /\ rows \in {<<>>} \cup {<<NewRow(key, 0)>> : key \in Keys}
    /\ audit = {}
    /\ call = [c \in Calls |-> Idle]
    /\ loaded = [p \in Providers |-> Unread]
    /\ changes = {} /\ since = [p \in Providers |-> {}] /\ hurt = {}

-----------------------------------------------------------------------------
\* Starting a call.  Create takes the time before it looks for the key.

Serving == \A p \in Providers : loaded[p] # Unread

Begin(c, how, step, key, id) ==
    /\ call[c].pc = "idle"
    /\ call' = [call EXCEPT ![c] =
                  [@ EXCEPT !.via = how, !.pc = step, !.key = key, !.id = id,
                            !.now = IF step = "select" THEN clock ELSE 0]]
    /\ UNCHANGED <<rows, audit, others, faults, history>>

CreateKey(c, p, n) == Serving /\ Begin(c, "api", "select", <<p, n>>, 0)
UpdateKey(c, id) == Serving /\ Begin(c, "api", "update", <<>>, id)
RotateKey(c, id) == Serving /\ Begin(c, "api", "get", <<>>, id)
DeleteKey(c, id) == Serving /\ Begin(c, "api", "deactivate", <<>>, id)

runKeysAdd(c, p) == Begin(c, "cli", "select", <<p, Main>>, 0)
runKeysDelete(c, id) == Begin(c, "cli", "deactivate", <<>>, id)
runKeysRotate(c, id) == Begin(c, "cli", "get", <<>>, id)

-----------------------------------------------------------------------------
\* The statements of a call.

At(c, step) == call[c].pc = step

GoTo(c, step) == call' = [call EXCEPT ![c].pc = step]

\* The row with this provider and name: the unique index allows one.
Matching(key) == {i \in Ids : <<rows[i].provider, rows[i].name>> = key}

Select(c) ==
    /\ At(c, "select")
    /\ IF Matching(call[c].key) = {}
       THEN GoTo(c, "insert")
       ELSE \E i \in Matching(call[c].key) :
              call' = [call EXCEPT ![c] = [@ EXCEPT !.pc = "overwrite", !.id = i]]
    /\ UNCHANGED <<rows, audit, others, faults, history>>

\* The history when the rows in changed are.
Since(changed) == [p \in Providers |-> IF loaded[p] > 0 THEN since[p] \cup changed ELSE {}]

\* A statement of c changed the rows in changed; the audit records ids are next.
Done(c, changed, ids) ==
    /\ changes' = changes \cup ({c} \X changed)
    /\ since' = Since(changed)
    /\ call' = [call EXCEPT ![c] = [@ EXCEPT !.pc = "audit", !.todo = ids]]
    /\ UNCHANGED <<audit, others, faults, hurt>>

Changed(c, id, r) == rows' = [rows EXCEPT ![id] = r] /\ Done(c, {id}, <<id>>)

Overwrite(c) ==
    /\ At(c, "overwrite")
    /\ Changed(c, call[c].id,
               [rows[call[c].id] EXCEPT !.active = TRUE, !.updated = call[c].now])

Inserted(c) ==
    /\ rows' = Append(rows, NewRow(call[c].key, call[c].now))
    /\ Done(c, {Len(rows) + 1}, <<Len(rows) + 1>>)

Refused(c, result) ==
    /\ GoTo(c, result)
    /\ UNCHANGED <<rows, audit, others, faults, history>>

\* Faulty: no unique index stops the second of two concurrent creations.
InsertUnchecked(c) ==
    /\ At(c, "insert")
    /\ Inserted(c)

Insert(c) ==
    /\ At(c, "insert")
    /\ IF Matching(call[c].key) = {}
       THEN Inserted(c)
       ELSE Refused(c, "error")

\* An UPDATE that finds no row is no error: the missing key is audited, too.
Update(c) ==
    /\ At(c, "update")
    /\ IF call[c].id \in Ids
       THEN Changed(c, call[c].id, [rows[call[c].id] EXCEPT !.updated = clock])
       ELSE Done(c, {}, <<call[c].id>>) /\ UNCHANGED rows

Get(c) ==
    /\ At(c, "get")
    /\ Refused(c, IF call[c].id \in Ids THEN "rotate" ELSE "not_found")

\* Faulty: without the transaction the deactivation stays when the INSERT fails.
RotateHalf(c) ==
    LET id == call[c].id IN
    /\ At(c, "rotate")
    /\ rows' = [rows EXCEPT ![id].active = FALSE, ![id].updated = clock]
    /\ changes' = changes \cup {<<c, id>>} /\ since' = Since({id})
    /\ GoTo(c, "error")
    /\ UNCHANGED <<audit, others, faults, hurt>>

\* One transaction.  The new row has the provider and the name of the old one, which
\* is still there: the INSERT violates the unique index and all is rolled back.
Rotate(c) ==
    LET id == call[c].id
        key == <<rows[id].provider, rows[id].name>>
        retired == [rows EXCEPT ![id].active = FALSE, ![id].updated = clock] IN
    /\ At(c, "rotate")
    /\ IF Matching(key) = {}
       THEN /\ rows' = Append(retired, NewRow(key, clock))
            /\ Done(c, {id, Len(rows) + 1}, <<id, Len(rows) + 1>>)
       ELSE Refused(c, "error")

Deactivate(c) ==
    /\ At(c, "deactivate")
    /\ IF call[c].id \in Ids
       THEN Changed(c, call[c].id, [rows[call[c].id] EXCEPT !.active = FALSE, !.updated = clock])
       ELSE Refused(c, "not_found")

\* The next audit record, then the answer when all are written.
AfterRecord(c) ==
    call' = [call EXCEPT ![c] = [@ EXCEPT !.todo = Tail(call[c].todo),
                                          !.pc = IF Len(call[c].todo) = 1 THEN "ok" ELSE "audit"]]

\* Faulty: an answer goes out before the audit record is written.
RecordSkipped(c) ==
    /\ At(c, "audit")
    /\ AfterRecord(c)
    /\ UNCHANGED <<rows, audit, others, faults, history>>

Record(c) ==
    /\ At(c, "audit")
    /\ audit' = audit \cup {<<c, Head(call[c].todo)>>}
    /\ AfterRecord(c)
    /\ UNCHANGED <<rows, others, faults, history>>

\* A statement fails.  Create takes a failed SELECT for "no such key"; a failed
\* audit record is only logged (API) or ignored (command line).
StatementFails(c) ==
    /\ call[c].pc \in Steps
    /\ faults < MaxFaults
    /\ faults' = faults + 1
    /\ hurt' = hurt \cup {c}
    /\ CASE At(c, "select") -> GoTo(c, "insert")
         [] At(c, "audit")  -> AfterRecord(c)
         [] OTHER           -> GoTo(c, "error")
    /\ UNCHANGED <<rows, audit, others, changes, since>>

-----------------------------------------------------------------------------
\* The server and its surroundings.

\* Faulty: the query does not ask for is_active.
NewestInactive(p) ==
    LET own == {i \in Ids : rows[i].provider = p}
    IN  {i \in own : \A j \in own : rows[j].updated <= rows[i].updated}

\* Faulty: ids count from one, positions from zero.
NewestShifted(p) ==
    LET active == {i \in Ids : rows[i].provider = p /\ rows[i].active}
    IN  {i + 1 : i \in {j \in active : \A k \in active : rows[k].updated <= rows[j].updated}}

\* The active keys of a provider changed last; within a second there may be several.
Newest(p) ==
    LET active == {i \in Ids : rows[i].provider = p /\ rows[i].active}
    IN  {i \in active : \A j \in active : rows[j].updated <= rows[i].updated}

\* The key in the environment, without which the provider is not registered.
Environment(p) == IF p \in EnvKeys THEN FromEnv ELSE Unregistered

\* resolveKey for one provider while the server starts.
Register(p) ==
    /\ loaded[p] = Unread
    /\ \E k \in (IF Newest(p) = {} THEN {Environment(p)} ELSE Newest(p)) :
         loaded' = [loaded EXCEPT ![p] = k]
    /\ since' = [since EXCEPT ![p] = {}]
    /\ UNCHANGED <<rows, audit, call, clock, restarts, faults, changes, hurt>>

\* A failed query counts as "no key".
RegisterFails(p) ==
    /\ loaded[p] = Unread
    /\ faults < MaxFaults
    /\ faults' = faults + 1
    /\ loaded' = [loaded EXCEPT ![p] = Environment(p)]
    /\ since' = [since EXCEPT ![p] = {}]
    /\ UNCHANGED <<rows, audit, call, clock, restarts, changes, hurt>>

\* The server stops and starts again; the API calls under way are gone.
Restart ==
    /\ Serving
    /\ restarts < MaxRestarts
    /\ restarts' = restarts + 1
    /\ loaded' = [p \in Providers |-> Unread]
    /\ since' = [p \in Providers |-> {}]
    /\ LET gone == {c \in Calls : call[c].via = "api" /\ call[c].pc \in Steps} IN
         /\ hurt' = hurt \cup gone
         /\ call' = [c \in Calls |-> IF c \in gone THEN [call[c] EXCEPT !.pc = "dead"] ELSE call[c]]
    /\ UNCHANGED <<rows, audit, clock, faults, changes>>

Tick ==
    /\ clock < MaxClock
    /\ clock' = clock + 1
    /\ UNCHANGED <<rows, audit, call, loaded, restarts, faults, history>>

Next ==
    \/ \E c \in Calls :
         \/ \E p \in Providers, n \in Names : CreateKey(c, p, n)
         \/ \E p \in Providers : runKeysAdd(c, p)
         \/ \E id \in 1..MaxRows : UpdateKey(c, id) \/ RotateKey(c, id) \/ DeleteKey(c, id)
         \/ \E id \in 0..MaxRows : runKeysDelete(c, id) \/ runKeysRotate(c, id)
         \/ Select(c) \/ Insert(c) \/ Overwrite(c) \/ Update(c) \/ Get(c) \/ Rotate(c)
         \/ Deactivate(c) \/ Record(c) \/ StatementFails(c)
    \/ \E p \in Providers : Register(p) \/ RegisterFails(p)
    \/ Restart
    \/ Tick

Spec == Init /\ [][Next]_vars

-----------------------------------------------------------------------------

\* Create looks first and writes later (KeyStore.Create): however calls of the API
\* and of the command line overlap, and although a failed SELECT counts as "no such
\* key", a provider has at most one key of a name.
OneRowPerName ==
    \A i, j \in Ids : rows[i].provider = rows[j].provider /\ rows[i].name = rows[j].name => i = j

\* A call that ends in an error or in "not found" has changed no key: a rotation
\* that fails half-way leaves the old key active (KeyStore.Rotate).
FailedCallChangesNothing ==
    \A c \in Calls : call[c].pc \in {"error", "not_found"} => \A i \in Ids : <<c, i>> \notin changes

\* A call that was answered with success has an audit record for every key it
\* changed, unless one of its statements failed (AdminHandler, AuditLog.Record).
ChangesAudited ==
    \A c \in Calls :
        call[c].pc = "ok" /\ c \notin hurt => {i \in Ids : <<c, i>> \in changes}
                                              \subseteq {i \in Ids : <<c, i>> \in audit}

\* The key the server calls a provider with, and whose id it writes into its request
\* logs, is a key of that provider.  Unless a call changed it after the server had read
\* it, it is active, and no active key that stayed as it was then is newer: a key that
\* was deactivated, renewed or added before the server read the table is not overlooked
\* (resolveKey, GetActiveByProviderWithID).
LoadedKeyKnown ==
    \A p \in Providers : loaded[p] > 0 =>
        /\ loaded[p] \in Ids /\ rows[loaded[p]].provider = p
        /\ loaded[p] \notin since[p] =>
             /\ rows[loaded[p]].active
             /\ \A i \in Ids \ since[p] : rows[i].provider = p /\ rows[i].active
                                          => rows[i].updated <= rows[loaded[p]].updated
=============================================================================
