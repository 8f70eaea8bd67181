------------------------- MODULE ProviderKeysProofs -------------------------
(***************************************************************************)
(* Theorems about ProviderKeys.  Rows are only added and keep the provider *)
(* and the name they were added with, so an id that a call or the server   *)
(* has seen stays good.  A call changes nothing before its audit records   *)
(* are due, and what it changed is in the audit log or still to be         *)
(* recorded.                                                               *)
(***************************************************************************)
EXTENDS ProviderKeys, SequenceTheorems, TLAPS

CallStates == {"idle", "ok", "not_found", "error", "dead"} \cup Steps

Call == [via : {"none", "api", "cli"}, pc : CallStates, key : Keys \cup {<<>>},
         id : Nat, todo : Seq(Nat), now : Nat]

\* The identifiers that can be named: those calls are made with and those of rows.
Known == 1..(MaxRows + Len(rows))

\* The variables as a whole, and the bounds that grow with the table and the clock.
Typed ==
    /\ rows \in Seq(Row) /\ audit \subseteq Calls \X Known /\ changes \subseteq Calls \X Ids
    /\ call \in [Calls -> Call] /\ loaded \in [Providers -> Int]
    /\ clock \in 0..MaxClock /\ faults \in 0..MaxFaults /\ restarts \in 0..MaxRestarts
    /\ since \in [Providers -> SUBSET Ids]
    /\ \A p \in Providers : loaded[p] \in Unread..Len(rows)
    /\ \A p \in Providers : loaded[p] <= 0 => since[p] = {}
    /\ \A c \in Calls :
         /\ call[c].id \in Known \cup {0} /\ call[c].now <= clock
         /\ \A k \in DOMAIN call[c].todo : call[c].todo[k] \in Known

\* What a call has found out when it comes to a statement.
Informed ==
    \A c \in Calls :
        /\ call[c].pc \in {"select", "insert", "overwrite"} => call[c].key \in Keys
        /\ call[c].pc \in {"overwrite", "rotate"} => call[c].id \in Ids
        /\ call[c].pc = "update" => call[c].id # 0
        /\ call[c].pc = "audit" => call[c].todo # <<>>

\* Where a call has not changed anything yet, or never will.
Harmless == {"idle", "select", "insert", "overwrite", "update", "get", "rotate", "deactivate",
             "error", "not_found"}

\* What calls changed, and where it is recorded.
Accounted ==
    \A c \in Calls :
        /\ call[c].pc \in Harmless => \A i \in Ids : <<c, i>> \notin changes
        /\ call[c].pc \in {"audit", "ok"} /\ c \notin hurt =>
             \A i \in Ids : <<c, i>> \in changes =>
                 <<c, i>> \in audit \/ \E k \in DOMAIN call[c].todo : call[c].todo[k] = i
        /\ call[c].pc = "ok" => call[c].todo = <<>>

ProviderKeyInv == Typed /\ Informed /\ Accounted /\ OneRowPerName /\ LoadedKeyKnown

-----------------------------------------------------------------------------

\* The records of calls, field by field.
LEMMA CallFields ==
    ASSUME NEW x \in Call
    PROVE  /\ x.via \in {"none", "api", "cli"} /\ x.pc \in CallStates /\ x.key \in Keys \cup {<<>>}
           /\ x.id \in Nat /\ x.todo \in Seq(Nat) /\ x.now \in Nat
BY DEF Call

\* A call that moves on keeps the rest of its record.
LEMMA CallMoves ==
    ASSUME NEW x \in Call, NEW step \in CallStates
    PROVE  /\ [x EXCEPT !.pc = step] \in Call /\ [x EXCEPT !.pc = step].pc = step
           /\ [x EXCEPT !.pc = step].key = x.key /\ [x EXCEPT !.pc = step].id = x.id
           /\ [x EXCEPT !.pc = step].todo = x.todo /\ [x EXCEPT !.pc = step].now = x.now
           /\ [x EXCEPT !.pc = step].via = x.via
BY DEF Call

\* A step of one call that leaves the keys alone preserves the invariant if the call's
\* new record does.
LEMMA CallOnly ==
    ASSUME ProviderKeyInv, NEW c \in Calls, NEW new \in Call,
           call' = [call EXCEPT ![c] = new],
           UNCHANGED <<rows, loaded, clock, restarts, changes, since>>,
           faults' \in 0..MaxFaults, hurt \subseteq hurt',
           audit \subseteq audit', audit' \subseteq Calls \X Known,
           new.id \in Known \cup {0}, new.now <= clock,
           \A k \in DOMAIN new.todo : new.todo[k] \in Known,
           new.pc \in {"select", "insert", "overwrite"} => new.key \in Keys,
           new.pc \in {"overwrite", "rotate"} => new.id \in Ids,
           new.pc = "update" => new.id # 0,
           new.pc = "audit" => new.todo # <<>>,
           new.pc = "ok" => new.todo = <<>>,
           new.pc \in Harmless => \A i \in Ids : <<c, i>> \notin changes,
           new.pc \in {"audit", "ok"} /\ c \notin hurt' =>
               \A i \in Ids : <<c, i>> \in changes =>
                   <<c, i>> \in audit' \/ \E k \in DOMAIN new.todo : new.todo[k] = i
    PROVE  ProviderKeyInv'
<1>1. call' \in [Calls -> Call] /\ call'[c] = new /\ \A d \in Calls \ {c} : call'[d] = call[d]
  BY DEF ProviderKeyInv, Typed
<1>2. Ids' = Ids /\ Known' = Known
  BY DEF Ids, Known
<1>3. Typed'
  BY <1>1, <1>2 DEF ProviderKeyInv, Typed
<1>4. Informed'
  BY <1>1, <1>2 DEF ProviderKeyInv, Informed
<1>5. Accounted'
  BY <1>1, <1>2 DEF ProviderKeyInv, Accounted
<1>6. OneRowPerName' /\ LoadedKeyKnown'
  BY <1>2 DEF ProviderKeyInv, OneRowPerName, LoadedKeyKnown
<1>7. QED
  BY <1>3, <1>4, <1>5, <1>6 DEF ProviderKeyInv

\* Calls begin.
LEMMA InvBegin ==
    ASSUME ProviderKeyInv, NEW c \in Calls, NEW how \in {"api", "cli"},
           NEW step \in {"select", "update", "get", "deactivate"},
           NEW key \in Keys \cup {<<>>}, NEW id \in 0..MaxRows,
           step = "select" => key \in Keys, step = "update" => id # 0,
           Begin(c, how, step, key, id)
    PROVE  ProviderKeyInv'
<1> DEFINE new == [call[c] EXCEPT !.via = how, !.pc = step, !.key = key, !.id = id,
                                  !.now = IF step = "select" THEN clock ELSE 0]
<1>1. call[c] \in Call /\ call[c].pc = "idle" /\ clock \in Nat
  BY DEF Begin, ProviderKeyInv, Typed
<1>2. new \in Call /\ new.pc = step /\ new.key = key /\ new.id = id /\ new.todo = call[c].todo
  <2>1. id \in Nat /\ step \in CallStates /\ (IF step = "select" THEN clock ELSE 0) \in Nat
    BY <1>1, ProviderKeyConfig DEF CallStates, Steps
  <2>2. QED
    BY <1>1, <2>1 DEF Call
<1>3. new.now <= clock /\ new.id \in Known \cup {0}
  <2>1. new.now = (IF step = "select" THEN clock ELSE 0)
    BY <1>1 DEF Call
  <2>2. Len(rows) \in Nat
    BY LenProperties DEF ProviderKeyInv, Typed
  <2>3. QED
    BY <1>1, <1>2, <2>1, <2>2, ProviderKeyConfig DEF Known
<1>4. \A k \in DOMAIN new.todo : new.todo[k] \in Known
  BY <1>2 DEF ProviderKeyInv, Typed
<1>5. \A i \in Ids : <<c, i>> \notin changes
  BY <1>1 DEF ProviderKeyInv, Accounted, Harmless
<1>6. /\ call' = [call EXCEPT ![c] = new]
      /\ UNCHANGED <<rows, audit, loaded, clock, restarts, faults, changes, since, hurt>>
  BY DEF Begin, others, history
<1>7. faults' \in 0..MaxFaults /\ audit' \subseteq Calls \X Known
  BY <1>6 DEF ProviderKeyInv, Typed
<1> HIDE DEF new
<1>8. QED
  BY <1>2, <1>3, <1>4, <1>5, <1>6, <1>7, CallOnly

\* A call goes to another statement or ends, without having changed anything.
LEMMA InvMove ==
    ASSUME ProviderKeyInv, NEW c \in Calls, call[c].pc \in Steps \ {"audit"},
           NEW step \in {"insert", "rotate", "error", "not_found"}, GoTo(c, step),
           UNCHANGED <<rows, audit, loaded, clock, restarts, changes, since>>,
           faults' \in 0..MaxFaults, hurt \subseteq hurt',
           step = "insert" => call[c].pc = "select",
           step = "rotate" => call[c].id \in Ids
    PROVE  ProviderKeyInv'
<1> DEFINE new == [call[c] EXCEPT !.pc = step]
<1>1. call[c] \in Call /\ step \in CallStates
  BY DEF ProviderKeyInv, Typed, CallStates, Steps
<1>2. /\ new \in Call /\ new.pc = step /\ new.key = call[c].key /\ new.id = call[c].id
      /\ new.todo = call[c].todo /\ new.now = call[c].now
  BY <1>1, CallMoves
<1>3. /\ new.id \in Known \cup {0} /\ new.now <= clock
      /\ \A k \in DOMAIN new.todo : new.todo[k] \in Known
  BY <1>2 DEF ProviderKeyInv, Typed
<1>4. \A i \in Ids : <<c, i>> \notin changes
  BY DEF ProviderKeyInv, Accounted, Harmless, Steps
<1>5. new.pc = "insert" => new.key \in Keys
  BY <1>2 DEF ProviderKeyInv, Informed
<1>6. call' = [call EXCEPT ![c] = new]
  BY <1>1 DEF GoTo, ProviderKeyInv, Typed
<1>7. audit' \subseteq Calls \X Known
  BY DEF ProviderKeyInv, Typed
<1> HIDE DEF new
<1>8. QED
  BY <1>2, <1>3, <1>4, <1>5, <1>6, <1>7, CallOnly

\* Steps that read, answer or fail.
LEMMA InvRead ==
    ASSUME ProviderKeyInv, NEW c \in Calls,
           Select(c) \/ Get(c) \/ (At(c, "insert") /\ Refused(c, "error"))
           \/ (At(c, "deactivate") /\ Refused(c, "not_found"))
    PROVE  ProviderKeyInv'
<1> USE DEF others, history
<1>1. faults \in 0..MaxFaults
  BY DEF ProviderKeyInv, Typed
<1>2. CASE Select(c)
  <2>1. CASE Matching(call[c].key) = {}
    <3>1. call[c].pc = "select" /\ GoTo(c, "insert")
          /\ UNCHANGED <<rows, audit, loaded, clock, restarts, faults, changes, since, hurt>>
      BY <1>2, <2>1 DEF Select, At
    <3>2. QED
      BY <1>1, <3>1, InvMove DEF Steps
  <2>2. CASE Matching(call[c].key) # {}
    <3>1. PICK i \in Matching(call[c].key) :
             call' = [call EXCEPT ![c] = [call[c] EXCEPT !.pc = "overwrite", !.id = i]]
      BY <1>2, <2>2 DEF Select
    <3> DEFINE new == [call[c] EXCEPT !.pc = "overwrite", !.id = i]
    <3>2. i \in Ids /\ i \in Nat /\ i \in Known
      <4>1. Len(rows) \in Nat
        BY LenProperties DEF ProviderKeyInv, Typed
      <4>2. QED
        BY <3>1, <4>1, ProviderKeyConfig DEF Matching, Ids, Known
    <3>3. /\ call[c] \in Call /\ call[c].pc = "select"
          /\ UNCHANGED <<rows, audit, loaded, clock, restarts, faults, changes, since, hurt>>
      BY <1>2 DEF Select, At, ProviderKeyInv, Typed
    <3>4. /\ new \in Call /\ new.pc = "overwrite" /\ new.key = call[c].key /\ new.id = i
          /\ new.todo = call[c].todo /\ new.now = call[c].now
      BY <3>2, <3>3 DEF Call, CallStates, Steps
    <3>5. new.now <= clock /\ \A k \in DOMAIN new.todo : new.todo[k] \in Known
      BY <3>4 DEF ProviderKeyInv, Typed
    <3>6. new.key \in Keys /\ \A j \in Ids : <<c, j>> \notin changes
      BY <3>3, <3>4 DEF ProviderKeyInv, Informed, Accounted, Harmless
    <3>7. audit' \subseteq Calls \X Known
      BY <3>3 DEF ProviderKeyInv, Typed
    <3> HIDE DEF new
    <3>8. call' = [call EXCEPT ![c] = new]
      BY <3>1 DEF new
    <3>9. QED
      BY <1>1, <3>2, <3>3, <3>4, <3>5, <3>6, <3>7, <3>8, CallOnly
  <2>3. QED
    BY <2>1, <2>2
<1>3. CASE Get(c)
  <2>1. /\ call[c].pc = "get" /\ UNCHANGED <<rows, audit, loaded, clock, restarts, faults, changes, since, hurt>>
        /\ \/ call[c].id \in Ids /\ GoTo(c, "rotate")
           \/ GoTo(c, "not_found")
    BY <1>3 DEF Get, At, Refused
  <2>2. QED
    BY <1>1, <2>1, InvMove DEF Steps
<1>4. CASE (At(c, "insert") /\ Refused(c, "error")) \/ (At(c, "deactivate") /\ Refused(c, "not_found"))
  <2>1. /\ call[c].pc \in {"insert", "deactivate"} /\ (GoTo(c, "error") \/ GoTo(c, "not_found"))
        /\ UNCHANGED <<rows, audit, loaded, clock, restarts, faults, changes, since, hurt>>
    BY <1>4 DEF At, Refused
  <2>2. QED
    BY <1>1, <2>1, InvMove DEF Steps
<1>5. QED
  BY <1>2, <1>3, <1>4

\* The next audit record is written, or cannot be.
LEMMA InvRecord ==
    ASSUME ProviderKeyInv, NEW c \in Calls, call[c].pc = "audit", AfterRecord(c),
           UNCHANGED <<rows, loaded, clock, restarts, changes, since>>,
           faults' \in 0..MaxFaults, hurt \subseteq hurt',
           \/ audit' = audit \cup {<<c, Head(call[c].todo)>>}
           \/ audit' = audit /\ c \in hurt'
    PROVE  ProviderKeyInv'
<1> DEFINE todo == call[c].todo
           new == [call[c] EXCEPT !.todo = Tail(todo),
                                  !.pc = IF Len(todo) = 1 THEN "ok" ELSE "audit"]
<1>1. /\ call[c] \in Call /\ todo \in Seq(Nat) /\ todo # <<>>
      /\ \A k \in DOMAIN todo : todo[k] \in Known
  BY DEF ProviderKeyInv, Typed, Informed, Call
<1>2. /\ Tail(todo) \in Seq(Nat) /\ Len(Tail(todo)) = Len(todo) - 1 /\ Head(todo) = todo[1]
      /\ Len(todo) \in Nat \ {0} /\ DOMAIN todo = 1..Len(todo)
      /\ DOMAIN Tail(todo) = 1..(Len(todo) - 1)
      /\ \A i \in 1..(Len(todo) - 1) : Tail(todo)[i] = todo[i + 1]
  BY <1>1, HeadTailProperties, LenProperties, EmptySeq
<1>3. /\ new \in Call /\ new.pc = (IF Len(todo) = 1 THEN "ok" ELSE "audit")
      /\ new.todo = Tail(todo) /\ new.id = call[c].id /\ new.now = call[c].now
  BY <1>1, <1>2 DEF Call, CallStates, Steps
<1>4. call' = [call EXCEPT ![c] = new]
  BY DEF AfterRecord
<1>5. new.id \in Known \cup {0} /\ new.now <= clock
  BY <1>3 DEF ProviderKeyInv, Typed
<1> HIDE DEF todo, new
<1>6. /\ \A k \in DOMAIN new.todo : new.todo[k] \in Known
      /\ new.pc = "ok" => new.todo = <<>>
      /\ new.pc = "audit" => new.todo # <<>>
  <2>1. ASSUME NEW k \in 1..(Len(todo) - 1) PROVE Tail(todo)[k] \in Known
    BY <1>1, <1>2
  <2>2. Len(todo) = 1 => Tail(todo) = <<>>
    BY <1>2, EmptySeq
  <2>3. Len(todo) # 1 => Tail(todo) # <<>>
    <3>1. Len(todo) # 1 => Len(Tail(todo)) # 0
      BY <1>2
    <3>2. QED
      BY <3>1, EmptySeq
  <2>4. QED
    BY <1>2, <1>3, <2>1, <2>2, <2>3
<1>7. audit \subseteq audit' /\ audit' \subseteq Calls \X Known
  <2>1. Head(todo) \in Known
    BY <1>1, <1>2
  <2>2. audit \subseteq Calls \X Known
    BY DEF ProviderKeyInv, Typed
  <2>3. QED
    BY <2>1, <2>2 DEF todo
<1>8. ASSUME c \notin hurt', NEW i \in Ids, <<c, i>> \in changes
      PROVE  <<c, i>> \in audit' \/ \E k \in DOMAIN new.todo : new.todo[k] = i
  <2>1. CASE <<c, i>> \in audit
    BY <1>7, <2>1
  <2>2. CASE <<c, i>> \notin audit
    <3>1. PICK k \in DOMAIN todo : todo[k] = i
      BY <1>8, <2>2 DEF ProviderKeyInv, Accounted, todo
    <3>2. CASE k = 1
      BY <1>2, <1>8, <3>1, <3>2 DEF todo
    <3>3. CASE k # 1
      <4>1. k - 1 \in DOMAIN Tail(todo) /\ Tail(todo)[k - 1] = i
        BY <1>2, <3>1, <3>3
      <4>2. QED
        BY <1>3, <4>1
    <3>4. QED
      BY <3>2, <3>3
  <2>3. QED
    BY <2>1, <2>2
<1>9. new.pc \notin Harmless /\ new.pc \notin {"select", "insert", "overwrite", "rotate", "update"}
  BY <1>3 DEF Harmless
<1>10. QED
  BY <1>3, <1>4, <1>5, <1>6, <1>7, <1>8, <1>9, CallOnly

-----------------------------------------------------------------------------
\* Steps that change the table.

\* A row is changed in place: its provider and its name stay.
LEMMA InvChanged ==
    ASSUME ProviderKeyInv, NEW c \in Calls, call[c].pc \in Steps \ {"audit"},
           NEW id \in Ids, NEW r \in Row,
           r.provider = rows[id].provider, r.name = rows[id].name, Changed(c, id, r)
    PROVE  ProviderKeyInv'
<1>1. /\ rows \in Seq(Row) /\ Len(rows) \in Nat /\ DOMAIN rows = Ids /\ id \in Nat
      /\ \A i \in Ids : rows[i] \in Row
  BY LenProperties, ElementOfSeq DEF ProviderKeyInv, Typed, Ids
<1>2. /\ rows' \in Seq(Row) /\ Len(rows') = Len(rows)
      /\ \A i \in Ids : rows'[i] = IF i = id THEN r ELSE rows[i]
  BY <1>1, ExceptSeq DEF Changed, Ids
<1>3. Ids' = Ids /\ Known' = Known /\ id \in Known
  BY <1>1, <1>2, ProviderKeyConfig DEF Ids, Known
<1> DEFINE new == [call[c] EXCEPT !.pc = "audit", !.todo = <<id>>]
<1>4. /\ call' = [call EXCEPT ![c] = new] /\ changes' = changes \cup {<<c, id>>}
      /\ since' = Since({id})
      /\ UNCHANGED <<audit, loaded, clock, restarts, faults, hurt>>
  BY DEF Changed, Done, others
<1>5. /\ new \in Call /\ new.pc = "audit" /\ new.todo = <<id>> /\ new.id = call[c].id
      /\ new.now = call[c].now
  <2>1. call[c] \in Call /\ <<id>> \in Seq(Nat)
    BY <1>1 DEF ProviderKeyInv, Typed
  <2>2. QED
    BY <2>1 DEF Call, CallStates, Steps
<1> HIDE DEF new
<1>6. call' \in [Calls -> Call] /\ call'[c] = new /\ \A d \in Calls \ {c} : call'[d] = call[d]
  BY <1>4, <1>5 DEF ProviderKeyInv, Typed
<1>7. Typed'
  <2>1. \A k \in DOMAIN new.todo : new.todo[k] \in Known
    BY <1>3, <1>5
  <2>2. changes' \subseteq Calls \X Ids
    BY <1>4 DEF ProviderKeyInv, Typed
  <2>3. \A d \in Calls : /\ call'[d].id \in Known \cup {0} /\ call'[d].now <= clock
                         /\ \A k \in DOMAIN call'[d].todo : call'[d].todo[k] \in Known
    BY <1>5, <1>6, <2>1 DEF ProviderKeyInv, Typed
  <2>4. /\ since' \in [Providers -> SUBSET Ids]
        /\ \A p \in Providers : loaded[p] <= 0 => since'[p] = {}
    BY <1>4 DEF ProviderKeyInv, Typed, Since
  <2>5. QED
    BY <1>2, <1>3, <1>4, <1>6, <2>2, <2>3, <2>4 DEF ProviderKeyInv, Typed
<1>8. Informed'
  <2>1. new.todo # <<>>
    BY <1>5
  <2>2. QED
    BY <1>3, <1>5, <1>6, <2>1 DEF ProviderKeyInv, Informed
<1>9. Accounted'
  <2>1. \A i \in Ids : <<c, i>> \notin changes
    BY DEF ProviderKeyInv, Accounted, Harmless, Steps
  <2>2. \A i \in Ids : <<c, i>> \in changes' => \E k \in DOMAIN new.todo : new.todo[k] = i
    BY <1>4, <1>5, <2>1
  <2>3. \A d \in Calls \ {c} : \A i \in Ids : <<d, i>> \in changes' <=> <<d, i>> \in changes
    BY <1>4
  <2>4. QED
    BY <1>3, <1>4, <1>5, <1>6, <2>2, <2>3 DEF ProviderKeyInv, Accounted, Harmless
<1>10. OneRowPerName'
  BY <1>2, <1>3 DEF ProviderKeyInv, OneRowPerName
<1>11. LoadedKeyKnown'
  <2>1. ASSUME NEW p \in Providers, loaded[p] > 0 PROVE since'[p] = since[p] \cup {id}
    BY <1>4, <2>1 DEF Since
  <2>2. QED
    <3>1. SUFFICES ASSUME NEW p \in Providers, loaded[p] > 0
                   PROVE  /\ loaded[p] \in Ids /\ rows'[loaded[p]].provider = p
                          /\ loaded[p] \notin since'[p] =>
                               /\ rows'[loaded[p]].active
                               /\ \A i \in Ids \ since'[p] :
                                    rows'[i].provider = p /\ rows'[i].active
                                      => rows'[i].updated <= rows'[loaded[p]].updated
      BY <1>3, <1>4 DEF LoadedKeyKnown
    <3>2. since'[p] = since[p] \cup {id}
      BY <2>1, <3>1
    <3>3. /\ loaded[p] \in Ids /\ rows[loaded[p]].provider = p
          /\ loaded[p] \notin since[p] =>
               /\ rows[loaded[p]].active
               /\ \A i \in Ids \ since[p] : rows[i].provider = p /\ rows[i].active
                                            => rows[i].updated <= rows[loaded[p]].updated
      BY <3>1 DEF ProviderKeyInv, LoadedKeyKnown
    <3>4. QED
      BY <1>2, <3>2, <3>3
<1>12. QED
  BY <1>7, <1>8, <1>9, <1>10, <1>11 DEF ProviderKeyInv

\* A row is added: no other has its provider and name.
LEMMA InvInserted ==
    ASSUME ProviderKeyInv, NEW c \in Calls, At(c, "insert"),
           Matching(call[c].key) = {}, Inserted(c)
    PROVE  ProviderKeyInv'
<1> DEFINE n == Len(rows) + 1
           r == NewRow(call[c].key, call[c].now)
           new == [call[c] EXCEPT !.pc = "audit", !.todo = <<n>>]
<1>1. /\ rows \in Seq(Row) /\ Len(rows) \in Nat /\ DOMAIN rows = Ids
      /\ \A i \in Ids : rows[i] \in Row
  BY LenProperties, ElementOfSeq DEF ProviderKeyInv, Typed, Ids
<1>2. call[c] \in Call /\ call[c].key \in Keys /\ call[c].now \in 0..MaxClock
  <2>1. call[c] \in Call /\ call[c].key \in Keys
    BY DEF ProviderKeyInv, Typed, Informed, At
  <2>2. call[c].now \in Nat /\ call[c].now <= clock /\ clock \in 0..MaxClock
    BY <2>1 DEF ProviderKeyInv, Typed, Call
  <2>3. QED
    BY <2>1, <2>2, ProviderKeyConfig
<1>3. r \in Row /\ <<r.provider, r.name>> = call[c].key /\ r.active
  BY <1>2 DEF NewRow, Row, Keys
<1>4. /\ rows' = Append(rows, r) /\ call' = [call EXCEPT ![c] = new]
      /\ changes' = changes \cup {<<c, n>>} /\ since' = Since({n})
      /\ UNCHANGED <<audit, loaded, clock, restarts, faults, hurt>>
  BY DEF Inserted, Done, others
<1> HIDE DEF r
<1>5. /\ rows' \in Seq(Row) /\ Len(rows') = n /\ rows'[n] = r
      /\ \A i \in Ids : rows'[i] = rows[i]
  BY <1>1, <1>3, <1>4, AppendProperties DEF Ids
<1>6. /\ Ids' = Ids \cup {n} /\ n \notin Ids /\ n \in Nat
      /\ Known \subseteq Known' /\ n \in Known'
  BY <1>1, <1>5, ProviderKeyConfig DEF Ids, Known
<1>7. /\ new \in Call /\ new.pc = "audit" /\ new.todo = <<n>> /\ new.id = call[c].id
      /\ new.now = call[c].now
  <2>1. <<n>> \in Seq(Nat)
    BY <1>6
  <2>2. QED
    BY <1>2, <2>1 DEF Call, CallStates, Steps
<1> HIDE DEF n, new
<1>8. call' \in [Calls -> Call] /\ call'[c] = new /\ \A d \in Calls \ {c} : call'[d] = call[d]
  BY <1>4, <1>7 DEF ProviderKeyInv, Typed
<1>9. Typed'
  <2>1. \A k \in DOMAIN new.todo : new.todo[k] \in Known'
    BY <1>6, <1>7
  <2>2. changes' \subseteq Calls \X Ids' /\ audit' \subseteq Calls \X Known'
    <3>1. changes \subseteq Calls \X Ids /\ audit \subseteq Calls \X Known
      BY DEF ProviderKeyInv, Typed
    <3>2. Calls \X Ids \subseteq Calls \X Ids' /\ Calls \X Known \subseteq Calls \X Known'
      BY <1>6
    <3>3. <<c, n>> \in Calls \X Ids'
      BY <1>6
    <3>4. QED
      BY <1>4, <3>1, <3>2, <3>3
  <2>3. \A d \in Calls : /\ call'[d].id \in Known' \cup {0} /\ call'[d].now <= clock
                         /\ \A k \in DOMAIN call'[d].todo : call'[d].todo[k] \in Known'
    BY <1>6, <1>7, <1>8, <2>1 DEF ProviderKeyInv, Typed
  <2>4. \A p \in Providers : loaded'[p] \in Unread..Len(rows')
    <3>1. \A p \in Providers : loaded[p] \in Unread..Len(rows)
      BY DEF ProviderKeyInv, Typed
    <3>2. QED
      BY <1>1, <1>4, <1>5, <3>1 DEF Unread, n
  <2>5. /\ since' \in [Providers -> SUBSET Ids']
        /\ \A p \in Providers : loaded[p] <= 0 => since'[p] = {}
    BY <1>4, <1>6 DEF ProviderKeyInv, Typed, Since
  <2>6. QED
    BY <1>4, <1>5, <1>8, <2>2, <2>3, <2>4, <2>5 DEF ProviderKeyInv, Typed
<1>10. Informed'
  <2>1. new.todo # <<>>
    BY <1>7
  <2>2. QED
    BY <1>6, <1>7, <1>8, <2>1 DEF ProviderKeyInv, Informed
<1>11. Accounted'
  <2>1. \A i \in Ids : <<c, i>> \notin changes
    BY DEF ProviderKeyInv, Accounted, Harmless, At
  <2>2. \A d \in Calls : <<d, n>> \notin changes
    BY <1>6 DEF ProviderKeyInv, Typed
  <2>3. \A i \in Ids' : <<c, i>> \in changes' => \E k \in DOMAIN new.todo : new.todo[k] = i
    BY <1>4, <1>6, <1>7, <2>1
  <2>4. \A d \in Calls \ {c} : \A i \in Ids' : <<d, i>> \in changes' => <<d, i>> \in changes /\ i \in Ids
    BY <1>4, <1>6, <2>2
  <2>5. QED
    BY <1>4, <1>7, <1>8, <2>3, <2>4 DEF ProviderKeyInv, Accounted, Harmless
<1>12. OneRowPerName'
  <2>1. \A i \in Ids : ~(rows[i].provider = r.provider /\ rows[i].name = r.name)
    BY <1>3 DEF Matching
  <2>2. QED
    BY <1>5, <1>6, <2>1 DEF ProviderKeyInv, OneRowPerName
<1>13. LoadedKeyKnown'
  <2>1. ASSUME NEW p \in Providers, loaded[p] > 0 PROVE since'[p] = since[p] \cup {n}
    BY <1>4, <2>1 DEF Since
  <2>2. QED
    <3>1. SUFFICES ASSUME NEW p \in Providers, loaded[p] > 0
                   PROVE  /\ loaded[p] \in Ids' /\ rows'[loaded[p]].provider = p
                          /\ loaded[p] \notin since'[p] =>
                               /\ rows'[loaded[p]].active
                               /\ \A i \in Ids' \ since'[p] :
                                    rows'[i].provider = p /\ rows'[i].active
                                      => rows'[i].updated <= rows'[loaded[p]].updated
      BY <1>4 DEF LoadedKeyKnown
    <3>2. since'[p] = since[p] \cup {n}
      BY <2>1, <3>1
    <3>3. /\ loaded[p] \in Ids /\ rows[loaded[p]].provider = p
          /\ loaded[p] \notin since[p] =>
               /\ rows[loaded[p]].active
               /\ \A i \in Ids \ since[p] : rows[i].provider = p /\ rows[i].active
                                            => rows[i].updated <= rows[loaded[p]].updated
      BY <3>1 DEF ProviderKeyInv, LoadedKeyKnown
    <3>4. QED
      BY <1>5, <1>6, <3>2, <3>3
<1>14. QED
  BY <1>9, <1>10, <1>11, <1>12, <1>13 DEF ProviderKeyInv

\* The statements that write keys.
LEMMA InvWrite ==
    ASSUME ProviderKeyInv, NEW c \in Calls,
           Insert(c) \/ Overwrite(c) \/ Update(c) \/ Rotate(c) \/ Deactivate(c)
    PROVE  ProviderKeyInv'
<1>1. \A i \in Ids : rows[i] \in Row
  BY LenProperties, ElementOfSeq DEF ProviderKeyInv, Typed, Ids
<1>2. call[c] \in Call /\ call[c].now \in 0..MaxClock /\ clock \in 0..MaxClock
  <2>1. call[c] \in Call /\ clock \in 0..MaxClock /\ call[c].now <= clock
    BY DEF ProviderKeyInv, Typed
  <2>2. call[c].now \in Nat
    BY <2>1 DEF Call
  <2>3. QED
    BY <2>1, <2>2, ProviderKeyConfig
<1>3. CASE Insert(c)
  BY <1>3, InvInserted, InvRead DEF Insert
<1>4. CASE Overwrite(c)
  <2>1. call[c].pc = "overwrite" /\ call[c].id \in Ids
    BY <1>4 DEF Overwrite, At, ProviderKeyInv, Informed
  <2> DEFINE r == [rows[call[c].id] EXCEPT !.active = TRUE, !.updated = call[c].now]
  <2>2. r \in Row /\ r.provider = rows[call[c].id].provider /\ r.name = rows[call[c].id].name
    BY <1>1, <1>2, <2>1 DEF Row
  <2>3. Changed(c, call[c].id, r)
    BY <1>4 DEF Overwrite
  <2> HIDE DEF r
  <2>4. QED
    BY <2>1, <2>2, <2>3, InvChanged DEF Steps
<1>5. CASE Update(c)
  <2>1. call[c].pc = "update" /\ call[c].id # 0
    BY <1>5 DEF Update, At, ProviderKeyInv, Informed
  <2>2. CASE call[c].id \in Ids
    <3> DEFINE r == [rows[call[c].id] EXCEPT !.updated = clock]
    <3>1. r \in Row /\ r.provider = rows[call[c].id].provider /\ r.name = rows[call[c].id].name
      BY <1>1, <1>2, <2>2 DEF Row
    <3>2. Changed(c, call[c].id, r)
      BY <1>5, <2>2 DEF Update
    <3> HIDE DEF r
    <3>3. QED
      BY <2>1, <2>2, <3>1, <3>2, InvChanged DEF Steps
  <2>3. CASE call[c].id \notin Ids
    <3> DEFINE new == [call[c] EXCEPT !.pc = "audit", !.todo = <<call[c].id>>]
    <3>1. /\ call' = [call EXCEPT ![c] = new] /\ changes' = changes
          /\ UNCHANGED <<rows, audit, loaded, clock, restarts, faults, hurt>>
          /\ since' = Since({})
      BY <1>5, <2>3 DEF Update, Done, others
    <3>2. since' = since
      <4>1. ASSUME NEW p \in Providers PROVE since[p] = IF loaded[p] > 0 THEN since[p] \cup {} ELSE {}
        <5>1. loaded[p] \in Int /\ (loaded[p] <= 0 => since[p] = {})
          BY DEF ProviderKeyInv, Typed
        <5>2. loaded[p] > 0 \/ loaded[p] <= 0
          BY <5>1
        <5>3. QED
          BY <5>1, <5>2
      <4>2. QED
        BY <3>1, <4>1 DEF ProviderKeyInv, Typed, Since
    <3>3. call[c].id \in Nat /\ call[c].id \in Known
      BY <1>2, <2>1 DEF ProviderKeyInv, Typed, Call
    <3>4. /\ new \in Call /\ new.pc = "audit" /\ new.todo = <<call[c].id>> /\ new.id = call[c].id
          /\ new.now = call[c].now
      <4>1. <<call[c].id>> \in Seq(Nat)
        BY <3>3
      <4>2. QED
        BY <1>2, <4>1 DEF Call, CallStates, Steps
    <3>5. new.todo # <<>> /\ \A k \in DOMAIN new.todo : new.todo[k] \in Known
      BY <3>3, <3>4
    <3>6. new.now <= clock /\ faults' \in 0..MaxFaults /\ audit' \subseteq Calls \X Known
      BY <3>1, <3>4 DEF ProviderKeyInv, Typed
    <3>7. \A i \in Ids : <<c, i>> \notin changes
      BY <2>1 DEF ProviderKeyInv, Accounted, Harmless
    <3> HIDE DEF new
    <3>8. QED
      BY <3>1, <3>2, <3>3, <3>4, <3>5, <3>6, <3>7, CallOnly
  <2>4. QED
    BY <2>2, <2>3
<1>6. CASE Rotate(c)
  \* The old row itself stands in the way of the new one.
  <2>1. call[c].pc = "rotate" /\ call[c].id \in Ids
    BY <1>6 DEF Rotate, At, ProviderKeyInv, Informed
  <2>2. call[c].id \in Matching(<<rows[call[c].id].provider, rows[call[c].id].name>>)
    BY <2>1 DEF Matching
  <2>3. Refused(c, "error")
    BY <1>6, <2>2 DEF Rotate
  <2>4. faults \in 0..MaxFaults
    BY DEF ProviderKeyInv, Typed
  <2>5. QED
    BY <2>1, <2>3, <2>4, InvMove DEF Refused, Steps, others, history
<1>7. CASE Deactivate(c)
  <2>1. call[c].pc = "deactivate"
    BY <1>7 DEF Deactivate, At
  <2>2. CASE call[c].id \in Ids
    <3> DEFINE r == [rows[call[c].id] EXCEPT !.active = FALSE, !.updated = clock]
    <3>1. r \in Row /\ r.provider = rows[call[c].id].provider /\ r.name = rows[call[c].id].name
      BY <1>1, <1>2, <2>2 DEF Row
    <3>2. Changed(c, call[c].id, r)
      BY <1>7, <2>2 DEF Deactivate
    <3> HIDE DEF r
    <3>3. QED
      BY <2>1, <2>2, <3>1, <3>2, InvChanged DEF Steps
  <2>3. QED
    BY <1>7, <2>2, InvRead DEF Deactivate
<1>8. QED
  BY <1>3, <1>4, <1>5, <1>6, <1>7

-----------------------------------------------------------------------------
\* Failing statements, the server and the clock.

\* A statement fails.
LEMMA InvStatementFails == ASSUME ProviderKeyInv, NEW c \in Calls, StatementFails(c) PROVE ProviderKeyInv'
<1>1. /\ call[c].pc \in Steps /\ UNCHANGED <<rows, audit, loaded, clock, restarts, changes, since>>
      /\ hurt \subseteq hurt' /\ c \in hurt'
  BY DEF StatementFails, others
<1>2. faults' \in 0..MaxFaults
  BY ProviderKeyConfig DEF StatementFails, ProviderKeyInv, Typed
<1>3. CASE call[c].pc = "audit"
  <2>1. AfterRecord(c)
    BY <1>3 DEF StatementFails, At
  <2>2. QED
    BY <1>1, <1>2, <1>3, <2>1, InvRecord
<1>4. CASE call[c].pc = "select"
  <2>1. GoTo(c, "insert")
    BY <1>4 DEF StatementFails, At
  <2>2. QED
    BY <1>1, <1>2, <1>4, <2>1, InvMove
<1>5. CASE call[c].pc \notin {"audit", "select"}
  <2>1. GoTo(c, "error")
    BY <1>5 DEF StatementFails, At
  <2>2. QED
    BY <1>1, <1>2, <1>5, <2>1, InvMove
<1>6. QED
  BY <1>3, <1>4, <1>5

\* The server registers its providers and restarts; a second passes.
LEMMA InvServer ==
    ASSUME ProviderKeyInv, (\E p \in Providers : Register(p) \/ RegisterFails(p)) \/ Restart \/ Tick
    PROVE  ProviderKeyInv'
<1> USE DEF history
<1>1. ASSUME NEW p \in Providers, Register(p) \/ RegisterFails(p) PROVE ProviderKeyInv'
  <2>1. /\ UNCHANGED <<rows, audit, call, clock, restarts, changes, hurt>>
        /\ faults' \in 0..MaxFaults /\ since' = [since EXCEPT ![p] = {}]
    BY <1>1, ProviderKeyConfig DEF Register, RegisterFails, ProviderKeyInv, Typed
  <2>2. Ids' = Ids /\ Known' = Known
    BY <2>1 DEF Ids, Known
  <2>3. Len(rows) \in Nat
    BY LenProperties DEF ProviderKeyInv, Typed
  <2>4. PICK k \in Newest(p) \cup {FromEnv, Unregistered} : loaded' = [loaded EXCEPT ![p] = k]
    BY <1>1 DEF Register, RegisterFails, Environment
  <2>5. /\ k \in Unread..Len(rows) /\ k \in Int
        /\ k > 0 => /\ k \in Ids /\ rows[k].provider = p /\ rows[k].active
                    /\ \A i \in Ids : rows[i].provider = p /\ rows[i].active
                                      => rows[i].updated <= rows[k].updated
    BY <2>3, <2>4 DEF Newest, Ids, FromEnv, Unregistered, Unread
  <2>6. Typed'
    BY <2>1, <2>2, <2>4, <2>5 DEF ProviderKeyInv, Typed
  <2>7. LoadedKeyKnown'
    BY <2>1, <2>2, <2>4, <2>5 DEF ProviderKeyInv, Typed, LoadedKeyKnown
  <2>8. Informed' /\ Accounted' /\ OneRowPerName'
    BY <2>1, <2>2 DEF ProviderKeyInv, Informed, Accounted, OneRowPerName
  <2>9. QED
    BY <2>6, <2>7, <2>8 DEF ProviderKeyInv
<1>2. CASE Restart
  <2>1. /\ UNCHANGED <<rows, audit, clock, faults, changes>> /\ hurt \subseteq hurt'
        /\ restarts' \in 0..MaxRestarts /\ loaded' = [p \in Providers |-> Unread]
        /\ since' = [p \in Providers |-> {}]
    BY <1>2, ProviderKeyConfig DEF Restart, ProviderKeyInv, Typed
  <2>2. Ids' = Ids /\ Known' = Known /\ Len(rows) \in Nat
    BY <2>1, LenProperties DEF Ids, Known, ProviderKeyInv, Typed
  <2>3. /\ call' \in [Calls -> Call]
        /\ \A c \in Calls :
             \/ call'[c] = call[c]
             \/ /\ call'[c].pc = "dead" /\ call'[c].id = call[c].id
                /\ call'[c].todo = call[c].todo /\ call'[c].now = call[c].now
    <3>1. "dead" \in CallStates /\ call \in [Calls -> Call]
      BY DEF CallStates, ProviderKeyInv, Typed
    <3>2. QED
      BY <1>2, <3>1, CallMoves DEF Restart
  <2>4. loaded' \in [Providers -> Int] /\ \A p \in Providers : loaded'[p] \in Unread..Len(rows)
    BY <2>1, <2>2 DEF Unread
  <2>5. Typed'
    BY <2>1, <2>2, <2>3, <2>4 DEF ProviderKeyInv, Typed
  <2>6. Informed'
    BY <2>2, <2>3 DEF ProviderKeyInv, Informed
  <2>7. Accounted'
    BY <2>1, <2>2, <2>3 DEF ProviderKeyInv, Accounted, Harmless
  <2>8. OneRowPerName' /\ LoadedKeyKnown'
    BY <2>1, <2>2 DEF ProviderKeyInv, OneRowPerName, LoadedKeyKnown, Unread
  <2>9. QED
    BY <2>5, <2>6, <2>7, <2>8 DEF ProviderKeyInv
<1>3. CASE Tick
  <2>1. /\ UNCHANGED <<rows, audit, call, loaded, restarts, faults, changes, since, hurt>>
        /\ clock \in Nat /\ clock' = clock + 1 /\ clock' \in 0..MaxClock
    BY <1>3, ProviderKeyConfig DEF Tick, ProviderKeyInv, Typed
  <2>2. Ids' = Ids /\ Known' = Known
    BY <2>1 DEF Ids, Known
  <2>3. \A c \in Calls : call[c].now \in Nat /\ call[c].now <= clock
    BY CallFields DEF ProviderKeyInv, Typed
  <2>4. \A c \in Calls : call'[c].now <= clock'
    BY <2>1, <2>3
  <2>5. Typed'
    BY <2>1, <2>2, <2>4 DEF ProviderKeyInv, Typed
  <2>6. Informed' /\ Accounted' /\ OneRowPerName' /\ LoadedKeyKnown'
    BY <2>1, <2>2 DEF ProviderKeyInv, Informed, Accounted, OneRowPerName, LoadedKeyKnown
  <2>7. QED
    BY <2>5, <2>6 DEF ProviderKeyInv
<1>4. QED
  BY <1>1, <1>2, <1>3

-----------------------------------------------------------------------------

\* Initially there is at most one row, and no call has begun.
LEMMA InvInit == Init => ProviderKeyInv
<1> SUFFICES ASSUME Init PROVE ProviderKeyInv
  OBVIOUS
<1>1. rows \in Seq(Row) /\ Len(rows) \in {0, 1}
  <2>1. CASE rows = <<>>
    BY <2>1
  <2>2. CASE \E key \in Keys : rows = <<NewRow(key, 0)>>
    <3>1. PICK key \in Keys : rows = <<NewRow(key, 0)>>
      BY <2>2
    <3>2. NewRow(key, 0) \in Row
      BY ProviderKeyConfig DEF NewRow, Row, Keys
    <3>3. QED
      BY <3>1, <3>2
  <2>3. QED
    BY <2>1, <2>2 DEF Init
<1>2. Idle \in Call /\ Idle.pc = "idle" /\ Idle.id = 0 /\ Idle.todo = <<>> /\ Idle.now = 0
  <2>1. <<>> \in Seq(Nat) /\ "idle" \in CallStates
    BY DEF CallStates
  <2>2. QED
    BY <2>1 DEF Idle, Call
<1>3. call \in [Calls -> Call] /\ \A c \in Calls : call[c] = Idle
  BY <1>2 DEF Init
<1>4. Typed
  <2>1. loaded \in [Providers -> Int] /\ \A p \in Providers : loaded[p] \in Unread..Len(rows)
    BY <1>1 DEF Init, Unread
  <2>2. \A c \in Calls : /\ call[c].id \in Known \cup {0} /\ call[c].now <= clock
                         /\ \A k \in DOMAIN call[c].todo : call[c].todo[k] \in Known
    <3>1. clock = 0 /\ DOMAIN Idle.todo = {}
      BY <1>2 DEF Init
    <3>2. Idle.id \in Known \cup {0} /\ Idle.now <= clock
      BY <1>2, <3>1
    <3>3. \A k \in DOMAIN Idle.todo : Idle.todo[k] \in Known
      BY <3>1
    <3>4. QED
      BY <1>3, <3>2, <3>3
  <2>3. clock \in 0..MaxClock /\ faults \in 0..MaxFaults /\ restarts \in 0..MaxRestarts
    BY ProviderKeyConfig DEF Init
  <2>4. QED
    BY <1>1, <1>3, <2>1, <2>2, <2>3 DEF Init, Typed
<1>5. Informed /\ Accounted
  BY <1>2, <1>3 DEF Init, Informed, Accounted
<1>6. OneRowPerName /\ LoadedKeyKnown
  <2>1. \A i, j \in Ids : i = j
    <3>1. Ids = 1..0 \/ Ids = 1..1
      BY <1>1 DEF Ids
    <3>2. QED
      BY <3>1
  <2>2. QED
    BY <2>1 DEF Init, OneRowPerName, LoadedKeyKnown, Unread
<1>7. QED
  BY <1>4, <1>5, <1>6 DEF ProviderKeyInv

\* The invariant is inductive.
LEMMA InvStep == ASSUME ProviderKeyInv, [Next]_vars PROVE ProviderKeyInv'
<1>1. ASSUME NEW c \in Calls,
             \/ \E p \in Providers, n \in Names : CreateKey(c, p, n)
             \/ \E p \in Providers : runKeysAdd(c, p)
             \/ \E id \in 1..MaxRows : UpdateKey(c, id) \/ RotateKey(c, id) \/ DeleteKey(c, id)
             \/ \E id \in 0..MaxRows : runKeysDelete(c, id) \/ runKeysRotate(c, id)
      PROVE  ProviderKeyInv'
  <2>1. ASSUME NEW p \in Providers, NEW n \in Names, CreateKey(c, p, n) \/ runKeysAdd(c, p)
        PROVE  ProviderKeyInv'
    <3>1. <<p, n>> \in Keys /\ <<p, Main>> \in Keys /\ 0 \in 0..MaxRows
      BY ProviderKeyConfig DEF Keys
    <3>2. Begin(c, "api", "select", <<p, n>>, 0) \/ Begin(c, "cli", "select", <<p, Main>>, 0)
      BY <2>1 DEF CreateKey, runKeysAdd
    <3>3. QED
      BY <3>1, <3>2, InvBegin
  <2>2. ASSUME NEW id \in 1..MaxRows, UpdateKey(c, id) PROVE ProviderKeyInv'
    <3>1. Begin(c, "api", "update", <<>>, id) /\ id \in 0..MaxRows /\ id # 0
      BY <2>2, ProviderKeyConfig DEF UpdateKey
    <3>2. QED
      BY <3>1, InvBegin
  <2>3. ASSUME NEW id \in 0..MaxRows,
               RotateKey(c, id) \/ DeleteKey(c, id) \/ runKeysDelete(c, id) \/ runKeysRotate(c, id)
        PROVE  ProviderKeyInv'
    <3>1. \E how \in {"api", "cli"}, step \in {"get", "deactivate"} : Begin(c, how, step, <<>>, id)
      BY <2>3 DEF RotateKey, DeleteKey, runKeysDelete, runKeysRotate
    <3>2. QED
      BY <3>1, InvBegin
  <2>4. 1..MaxRows \subseteq 0..MaxRows /\ Main \in Names
    BY ProviderKeyConfig
  <2>5. QED
    BY <1>1, <2>1, <2>2, <2>3, <2>4
<1>2. ASSUME NEW c \in Calls, Record(c) PROVE ProviderKeyInv'
  <2>1. faults \in 0..MaxFaults
    BY DEF ProviderKeyInv, Typed
  <2>2. QED
    BY <1>2, <2>1, InvRecord DEF Record, At, others, history
<1>3. CASE UNCHANGED vars
  <2>1. UNCHANGED <<rows, audit, call, loaded, clock, faults, restarts, changes, since, hurt>>
    BY <1>3 DEF vars
  <2>2. Ids' = Ids /\ Known' = Known
    BY <2>1 DEF Ids, Known
  <2>3. Typed'
    BY <2>1, <2>2 DEF ProviderKeyInv, Typed
  <2>4. Informed' /\ Accounted'
    BY <2>1, <2>2 DEF ProviderKeyInv, Informed, Accounted
  <2>5. OneRowPerName' /\ LoadedKeyKnown'
    BY <2>1, <2>2 DEF ProviderKeyInv, OneRowPerName, LoadedKeyKnown
  <2>6. QED
    BY <2>3, <2>4, <2>5 DEF ProviderKeyInv
<1>4. QED
  BY <1>1, <1>2, <1>3, InvRead, InvWrite, InvStatementFails, InvServer DEF Next

\* Hence it always holds.
LEMMA InvAlways == Spec => []ProviderKeyInv
<1>1. QED
  BY InvInit, InvStep, PTL DEF Spec

-----------------------------------------------------------------------------

\* For any number of calls, providers and names, ids that calls hold, report to the
\* audit log or were loaded by the server stay within the table and what callers asked
\* for (KeyStore, AuditLog).
THEOREM ProviderKeyTypeCorrect == Spec => []TypeOK
<1>1. ProviderKeyInv => TypeOK
  <2> SUFFICES ASSUME ProviderKeyInv PROVE TypeOK
    OBVIOUS
  <2>1. Len(rows) \in Nat /\ clock \in Nat
    BY LenProperties DEF ProviderKeyInv, Typed
  <2> DEFINE Bound == 0..(MaxRows + Len(rows))
  <2>2. ASSUME NEW c \in Calls
        PROVE  /\ call[c].via \in {"none", "api", "cli"}
               /\ call[c].pc \in {"idle", "ok", "not_found", "error", "dead"} \cup Steps
               /\ call[c].id \in Bound /\ call[c].todo \in Seq(Bound) /\ call[c].now \in 0..clock
    <3>1. call[c] \in Call
      BY DEF ProviderKeyInv, Typed
    <3>2. /\ call[c].via \in {"none", "api", "cli"} /\ call[c].pc \in CallStates
          /\ call[c].todo \in Seq(Nat) /\ call[c].now \in Nat
      BY <3>1, CallFields
    <3>3. call[c].id \in Bound /\ call[c].now \in 0..clock
      BY <2>1, <3>2, ProviderKeyConfig DEF ProviderKeyInv, Typed, Known
    <3>4. \A k \in DOMAIN call[c].todo : call[c].todo[k] \in Bound
      BY <2>1, ProviderKeyConfig DEF ProviderKeyInv, Typed, Known
    <3> DEFINE todo == call[c].todo
    <3>5. Len(todo) \in Nat /\ todo \in [1..Len(todo) -> Nat] /\ DOMAIN todo = 1..Len(todo)
      BY <3>2, LenProperties
    <3>6. todo \in [1..Len(todo) -> Bound]
      BY <3>4, <3>5
    <3>7. todo \in Seq(Bound)
      BY <3>5, <3>6, SeqDef
    <3>8. QED
      BY <3>2, <3>3, <3>7 DEF CallStates
  <2>3. \A p \in Providers : loaded[p] \in Unread..Len(rows)
    BY DEF ProviderKeyInv, Typed
  <2>4. /\ rows \in Seq(Row) /\ audit \subseteq Calls \X (1..(MaxRows + Len(rows)))
        /\ clock \in 0..MaxClock /\ faults \in 0..MaxFaults /\ restarts \in 0..MaxRestarts
    BY DEF ProviderKeyInv, Typed, Known
  <2>5. QED
    BY <2>2, <2>3, <2>4 DEF TypeOK
<1>2. QED
  BY <1>1, InvAlways, PTL

\* However many creations of the same key overlap between their SELECT and their
\* INSERT, and whichever of their statements fail, a provider has at most one key of a
\* name (KeyStore.Create and its unique index).
THEOREM ProviderKeyOneRowPerName == Spec => []OneRowPerName
<1>1. ProviderKeyInv => OneRowPerName
  BY DEF ProviderKeyInv
<1>2. QED
  BY <1>1, InvAlways, PTL

\* A call that ended in an error or found no key has changed none, at whichever
\* statement it failed (KeyStore.Rotate, Create, Update and Deactivate).
THEOREM ProviderKeyFailedCallChangesNothing == Spec => []FailedCallChangesNothing
<1>1. ProviderKeyInv => FailedCallChangesNothing
  BY DEF ProviderKeyInv, Accounted, Harmless, FailedCallChangesNothing
<1>2. QED
  BY <1>1, InvAlways, PTL

\* Every key changed by a call that was answered with success is in the audit log
\* under that call, however many calls overlap (AdminHandler, AuditLog.Record).
THEOREM ProviderKeyChangesAudited == Spec => []ChangesAudited
<1>1. ProviderKeyInv => ChangesAudited
  <2> SUFFICES ASSUME ProviderKeyInv, NEW c \in Calls, call[c].pc = "ok", c \notin hurt,
                      NEW i \in Ids, <<c, i>> \in changes
               PROVE  <<c, i>> \in audit
    BY DEF ChangesAudited
  <2>1. call[c].todo = <<>>
    BY DEF ProviderKeyInv, Accounted
  <2>2. QED
    BY <2>1 DEF ProviderKeyInv, Accounted
<1>2. QED
  BY <1>1, InvAlways, PTL

\* The key a server was started with is a key of the provider it is used for and, unless
\* a call changed it after the server had read it, active and the newest of those that
\* stayed as they were, through any number of restarts and calls (resolveKey,
\* KeyStore.GetActiveByProviderWithID).
THEOREM ProviderKeyLoadedKeyKnown == Spec => []LoadedKeyKnown
<1>1. ProviderKeyInv => LoadedKeyKnown
  BY DEF ProviderKeyInv
<1>2. QED
  BY <1>1, InvAlways, PTL
=============================================================================
