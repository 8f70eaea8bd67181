----------------------------- MODULE ClientKeys -----------------------------
(***************************************************************************)
(* The life of one client key: its row in client_keys, the copy of it that *)
(* ClientKeyService keeps in Redis for five minutes, and the HTTP calls    *)
(* that read and write them concurrently.  Keys of different clients share *)
(* nothing, so one client_id is enough.                                    *)
(*                                                                         *)
(* A call is one request.  External clients pass Auth, which validates the *)
(* secret they present against the cache or the row; they may then rotate  *)
(* it.  Administrators create, revoke and reissue.  Every SQL statement    *)
(* and every Redis command is a step of its own, since other calls may     *)
(* come between two of them.                                               *)
(***************************************************************************)
EXTENDS Naturals

CONSTANTS
    Calls,      \* requests in progress at the same time
    MaxSecrets, \* bound on the secrets generated
    MaxLife,    \* longest time to live of a key, in ticks
    CacheTTL,   \* clientKeyCacheTTL, in ticks
    Faults,     \* whether SQL statements and Redis commands may fail
    NoKey       \* no row, nothing cached

ASSUME KeyConfig ==
    /\ MaxSecrets \in Nat /\ MaxLife \in Nat \ {0} /\ CacheTTL \in Nat \ {0}
    /\ Faults \in BOOLEAN

VARIABLES
    key,      \* the row in client_keys
    cache,    \* ezai:clientkey:<client_id> in Redis
    issued,   \* number of secrets generated; the secrets are 1..issued
    pc,       \* call -> what it does next
    secret,   \* call -> the X-Client-Secret it presents
    row,      \* call -> the row it validates against
    revoked,  \* history: a revocation was answered and no reissue came since
    late      \* history: call -> it began when revoked held

vars == <<key, cache, issued, pc, secret, row, revoked, late>>
callVars == <<secret, row, late>>

\* What a row says: its secret (0 is a string nobody was ever given), whether it is
\* active and how long until it expires.
Secrets == 0..MaxSecrets
Rows == [secret : Secrets, active : BOOLEAN, life : 0..MaxLife]
Cached == [copy : Rows, ttl : 1..CacheTTL]

ASSUME NoKeyIsNoRow == NoKey \notin Rows \cup Cached

Locations == {"idle", "lookup", "read", "fill", "check", "accepted",
              "rotate", "rotate_write", "create_write", "reissue_write",
              "invalidate", "revoke_invalidate"}

\* Every variable stays in its domain; in particular nothing is cached without a
\* time to live.
TypeOK ==
    /\ key \in Rows \cup {NoKey}
    /\ cache \in Cached \cup {NoKey}
    /\ issued \in 0..MaxSecrets
    /\ pc \in [Calls -> Locations]
    /\ secret \in [Calls -> Secrets]
    /\ row \in [Calls -> Rows \cup {NoKey}]
    /\ revoked \in BOOLEAN
    /\ late \in [Calls -> BOOLEAN]

Init ==
    /\ key = NoKey /\ cache = NoKey /\ issued = 0
    /\ pc = [c \in Calls |-> "idle"]
    /\ secret = [c \in Calls |-> 0]
    /\ row = [c \in Calls |-> NoKey]
    /\ revoked = FALSE
    /\ late = [c \in Calls |-> FALSE]

\* A call moves on.  Its locals are forgotten when it ends.
GoTo(c, to) == pc' = [pc EXCEPT ![c] = to]
End(c) ==
    /\ GoTo(c, "idle")
    /\ secret' = [secret EXCEPT ![c] = 0]
    /\ row' = [row EXCEPT ![c] = NoKey]
    /\ late' = [late EXCEPT ![c] = FALSE]

-----------------------------------------------------------------------------
(***************************************************************************)
(* Authentication.                                                         *)
(***************************************************************************)
\* Auth, external network: both headers are present, Validate begins.
Auth(c, s) ==
    /\ pc[c] = "idle"
    /\ s <= issued
    /\ secret' = [secret EXCEPT ![c] = s]
    /\ late' = [late EXCEPT ![c] = revoked]
    /\ GoTo(c, "lookup")
    /\ UNCHANGED <<key, cache, issued, row, revoked>>

\* Faulty: a hit renews the time to live.
CacheHitRenews(c) ==
    /\ pc[c] = "lookup" /\ cache # NoKey
    /\ row' = [row EXCEPT ![c] = cache.copy]
    /\ cache' = [cache EXCEPT !.ttl = CacheTTL]
    /\ GoTo(c, "check")
    /\ UNCHANGED <<key, issued, secret, revoked, late>>

\* getFromCache finds the key.
CacheHit(c) ==
    /\ pc[c] = "lookup" /\ cache # NoKey
    /\ row' = [row EXCEPT ![c] = cache.copy]
    /\ GoTo(c, "check")
    /\ UNCHANGED <<key, cache, issued, secret, revoked, late>>

\* It does not, or Redis does not answer: the database decides.
CacheMiss(c) ==
    /\ pc[c] = "lookup" /\ (cache = NoKey \/ Faults)
    /\ GoTo(c, "read")
    /\ UNCHANGED <<key, cache, issued, callVars, revoked>>

\* GetByClientID inside Validate.
ReadRow(c) ==
    /\ pc[c] = "read" /\ key # NoKey
    /\ row' = [row EXCEPT ![c] = key]
    /\ GoTo(c, "fill")
    /\ UNCHANGED <<key, cache, issued, secret, revoked, late>>

\* No such client, or the query fails: 401.
ReadRowFails(c) ==
    /\ pc[c] = "read" /\ (key = NoKey \/ Faults)
    /\ End(c)
    /\ UNCHANGED <<key, cache, issued, revoked>>

\* Faulty: SET with expiration 0, which Redis keeps for ever.
SaveToCacheForever(c) ==
    /\ pc[c] = "fill"
    /\ cache' = [copy |-> row[c], ttl |-> 0]
    /\ GoTo(c, "check")
    /\ UNCHANGED <<key, issued, callVars, revoked>>

\* Faulty: the cached copy carries no expiry of its own.
SaveToCacheUnexpired(c) ==
    /\ pc[c] = "fill"
    /\ cache' = [copy |-> [row[c] EXCEPT !.life = MaxLife], ttl |-> CacheTTL]
    /\ GoTo(c, "check")
    /\ UNCHANGED <<key, issued, callVars, revoked>>

\* saveToCache: the row as it was read, whatever happened to it since.  Errors are
\* ignored.
SaveToCache(c) ==
    /\ pc[c] = "fill"
    /\ \/ cache' = [copy |-> row[c], ttl |-> CacheTTL]
       \/ Faults /\ UNCHANGED cache
    /\ GoTo(c, "check")
    /\ UNCHANGED <<key, issued, callVars, revoked>>

\* The row validates: active, not expired, and the hash of the secret matches.
Valid(r, s) == r.active /\ r.life > 0 /\ r.secret = s

Accept(c) ==
    /\ pc[c] = "check" /\ Valid(row[c], secret[c])
    /\ GoTo(c, "accepted")
    /\ UNCHANGED <<key, cache, issued, callVars, revoked>>

Reject(c) ==
    /\ pc[c] = "check" /\ ~Valid(row[c], secret[c])
    /\ End(c)
    /\ UNCHANGED <<key, cache, issued, revoked>>

\* The handler behind Auth runs: rotation, or one that does not touch keys.
Serve(c) ==
    /\ pc[c] = "accepted"
    /\ \/ GoTo(c, "rotate") /\ UNCHANGED callVars
       \/ End(c)
    /\ UNCHANGED <<key, cache, issued, revoked>>

-----------------------------------------------------------------------------
(***************************************************************************)
(* Rotation by the client itself.                                          *)
(***************************************************************************)
\* Auth lets a call from a trusted network pass without a secret.
AuthTrusted(c) ==
    /\ pc[c] = "idle"
    /\ GoTo(c, "rotate")
    /\ UNCHANGED <<key, cache, issued, callVars, revoked>>

\* Rotate reads the row and refuses an absent, inactive or expired key.
Rotatable == key # NoKey /\ key.active /\ key.life > 0

RotateRead(c) ==
    /\ pc[c] = "rotate"
    /\ \/ /\ Rotatable
          /\ GoTo(c, "rotate_write") /\ UNCHANGED callVars
       \/ /\ ~Rotatable \/ Faults
          /\ End(c)
    /\ UNCHANGED <<key, cache, issued, revoked>>

\* A new secret, never seen before.
Fresh == issued' = issued + 1
CanGenerate == issued < MaxSecrets

\* Faulty: the UPDATE does not look at is_active.
RotateSecretAnyhow(c) ==
    /\ pc[c] = "rotate_write" /\ CanGenerate
    /\ Fresh
    /\ key' = [key EXCEPT !.secret = issued']
    /\ GoTo(c, "invalidate")
    /\ UNCHANGED <<cache, callVars, revoked>>

\* RotateSecret: UPDATE ... WHERE is_active = 1.
RotateSecret(c) ==
    /\ pc[c] = "rotate_write" /\ CanGenerate /\ key.active
    /\ Fresh
    /\ key' = [key EXCEPT !.secret = issued']
    /\ GoTo(c, "invalidate")
    /\ UNCHANGED <<cache, callVars, revoked>>

\* No row was affected, the statement failed, or no secret could be generated.
RotateSecretFails(c) ==
    /\ pc[c] = "rotate_write" /\ (~key.active \/ ~CanGenerate \/ Faults)
    /\ End(c)
    /\ UNCHANGED <<key, cache, issued, revoked>>

-----------------------------------------------------------------------------
(***************************************************************************)
(* Administration.                                                         *)
(***************************************************************************)
\* Create looks for a duplicate first: 409 when there is one.
CreateCheck(c) ==
    /\ pc[c] = "idle" /\ key = NoKey
    /\ GoTo(c, "create_write")
    /\ UNCHANGED <<key, cache, issued, callVars, revoked>>

\* INSERT; client_id is UNIQUE, so the second of two racing creations fails.
Create(c) ==
    /\ pc[c] = "create_write"
    /\ \/ /\ key = NoKey /\ CanGenerate
          /\ Fresh
          /\ \E ttl \in 1..MaxLife :
                 key' = [secret |-> issued', active |-> TRUE, life |-> ttl]
       \/ /\ key # NoKey \/ ~CanGenerate \/ Faults
          /\ UNCHANGED <<key, issued>>
    /\ End(c)
    /\ UNCHANGED <<cache, revoked>>

\* Deactivate; 404 without effect when there is no row.
Deactivate(c) ==
    /\ pc[c] = "idle" /\ key # NoKey
    /\ key' = [key EXCEPT !.active = FALSE]
    /\ GoTo(c, "revoke_invalidate")
    /\ UNCHANGED <<cache, issued, callVars, revoked>>

\* Reissue reads the row, 404 when there is none ...
ReissueCheck(c) ==
    /\ pc[c] = "idle" /\ key # NoKey
    /\ GoTo(c, "reissue_write")
    /\ UNCHANGED <<key, cache, issued, callVars, revoked>>

\* ... and writes a new secret and expiry, active again.
Reissue(c) ==
    /\ pc[c] = "reissue_write"
    /\ \/ /\ CanGenerate
          /\ Fresh
          /\ \E ttl \in 1..MaxLife :
                 key' = [secret |-> issued', active |-> TRUE, life |-> ttl]
          /\ revoked' = FALSE
          /\ GoTo(c, "invalidate") /\ UNCHANGED callVars
       \/ /\ ~CanGenerate \/ Faults
          /\ End(c) /\ UNCHANGED <<key, issued, revoked>>
    /\ UNCHANGED cache

\* InvalidateCache, the last thing rotation, revocation and reissue do; its error is
\* ignored.  The call is then answered.
InvalidateCache(c) ==
    /\ pc[c] \in {"invalidate", "revoke_invalidate"}
    /\ \/ cache' = NoKey
       \/ Faults /\ UNCHANGED cache
    /\ revoked' = IF pc[c] = "revoke_invalidate" THEN ~key.active ELSE revoked
    /\ End(c)
    /\ UNCHANGED <<key, issued>>

-----------------------------------------------------------------------------
\* Time passes: what is left of lifetimes and of the cache entry's TTL shrinks.
Sooner(n) == IF n = 0 THEN 0 ELSE n - 1
Aged(r) == IF r = NoKey THEN NoKey ELSE [r EXCEPT !.life = Sooner(@)]

Tick ==
    /\ key' = Aged(key)
    /\ cache' = IF cache = NoKey \/ cache.ttl = 1 THEN NoKey
                ELSE [copy |-> Aged(cache.copy), ttl |-> cache.ttl - 1]
    /\ row' = [c \in Calls |-> Aged(row[c])]
    /\ UNCHANGED <<issued, pc, secret, revoked, late>>

\* What a call does once it has begun.
Proceed(c) ==
    \/ CacheHit(c) \/ CacheMiss(c) \/ ReadRow(c) \/ ReadRowFails(c)
    \/ SaveToCache(c) \/ Accept(c) \/ Reject(c) \/ Serve(c)
    \/ RotateRead(c) \/ RotateSecret(c) \/ RotateSecretFails(c)
    \/ Create(c) \/ Reissue(c) \/ InvalidateCache(c)

Begin(c) ==
    \/ \E s \in Secrets : Auth(c, s)
    \/ AuthTrusted(c) \/ CreateCheck(c) \/ Deactivate(c) \/ ReissueCheck(c)

Next == (\E c \in Calls : Begin(c) \/ Proceed(c)) \/ Tick

Spec == Init /\ [][Next]_vars

\* Handlers run to their end and the clock advances.  Nobody has to send a request.
FairSpec ==
    /\ Spec
    /\ \A c \in Calls : WF_vars(Proceed(c))
    /\ WF_vars(Tick)

-----------------------------------------------------------------------------
\* The cache never lengthens the life of a key: a call that presents the current
\* secret is accepted only while the row itself has not expired, however old the copy
\* it was checked against and whatever rotations came in between (Validate against
\* the cached expires_at, RotateSecret keeping expires_at).
ExpiryHonoured ==
    [][\A c \in Calls :
           /\ pc[c] = "check" /\ pc'[c] = "accepted"
           /\ key # NoKey /\ secret[c] = key.secret
           => key.life > 0]_vars

\* A revoked key gets a new secret only by being reissued: a rotation that read the
\* row before the revocation and writes after it changes nothing (RotateSecret).
RevokedRowUntouched ==
    [][key # NoKey /\ ~key.active
           => key' # NoKey /\ (key'.active \/ key'.secret = key.secret)]_vars

\* Once a key is no longer rotated, revoked or reissued, every decision is eventually
\* taken on its current row: a copy that a slow validation put back into the cache
\* after the invalidation, or that a failed invalidation left there, does not survive
\* by being used (Validate, saveToCache, InvalidateCache, clientKeyCacheTTL).
DecisionsConverge ==
    \A s \in Secrets, b \in BOOLEAN :
        <>[](key # NoKey /\ key.secret = s /\ key.active = b)
        => <>[](\A c \in Calls :
                    pc[c] = "check" => row[c].secret = s /\ row[c].active = b)

\* The README's promise of revocation ("blocked at once"): a request that begins
\* after a revocation was answered is not accepted unless the key is reissued
\* (Revoke, Validate).
RevokedAtOnce == \A c \in Calls : pc[c] = "accepted" /\ late[c] => ~revoked
=============================================================================
