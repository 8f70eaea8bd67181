-------------------------- MODULE ClientKeysProofs --------------------------
(***************************************************************************)
(* Theorems about ClientKeys.  The key to them is that a copy of the row,  *)
(* in the cache or in the hands of a call, may be out of date but is never *)
(* a forgery: its secret was issued, and if it is still the secret of the  *)
(* row then it also carries the expiry of the row.                         *)
(***************************************************************************)
EXTENDS ClientKeys, TLAPS

\* The copy x of the row.
Faithful(x) ==
    /\ key # NoKey
    /\ x.secret <= issued
    /\ x.secret = key.secret => x.life = key.life

\* Where a call has seen that the row exists, and where it holds a copy.
Seen == {"fill", "check", "rotate_write", "reissue_write", "invalidate", "revoke_invalidate"}
Holding == {"fill", "check"}

\* What calls know about the row: rows are never deleted, and a call that is about to
\* cache or to check a copy has one.
Knowledge ==
    /\ \A c \in Calls : pc[c] \in Seen => key # NoKey
    /\ \A c \in Calls : pc[c] \in Holding => row[c] # NoKey
    /\ cache # NoKey => key # NoKey

\* Every copy is faithful, and the next secret is a new one.
CopiesFaithful ==
    /\ key # NoKey => key.secret <= issued
    /\ cache # NoKey => Faithful(cache.copy)
    /\ \A c \in Calls : row[c] # NoKey => Faithful(row[c])

KeyInv == TypeOK /\ Knowledge /\ CopiesFaithful

-----------------------------------------------------------------------------

\* Time takes the same from every copy and leaves the rest of it alone.
LEMMA AgedRow ==
    ASSUME NEW x \in Rows
    PROVE  /\ Aged(x) \in Rows /\ Aged(x) # NoKey
           /\ Aged(x).secret = x.secret /\ Aged(x).active = x.active
           /\ Aged(x).life = Sooner(x.life)
<1>1. x.life \in 0..MaxLife /\ Sooner(x.life) \in 0..MaxLife
  BY KeyConfig DEF Rows, Sooner
<1>2. x # NoKey
  BY NoKeyIsNoRow
<1>3. Aged(x) = [x EXCEPT !.life = Sooner(x.life)]
  BY <1>2 DEF Aged
<1>4. QED
  BY <1>1, <1>3, NoKeyIsNoRow DEF Rows

\* Nothing ages into a row.
LEMMA AgedNoKey == Aged(NoKey) = NoKey
BY DEF Aged

\* The string that is no secret, for calls that present none.
LEMMA NoSecret == 0 \in Secrets
BY KeyConfig DEF Secrets

\* A call that ends forgets its copy and does not disturb the others.
LEMMA EndForgets ==
    ASSUME TypeOK, NEW c \in Calls, End(c)
    PROVE  /\ pc' \in [Calls -> Locations] /\ secret' \in [Calls -> Secrets]
           /\ row' \in [Calls -> Rows \cup {NoKey}] /\ late' \in [Calls -> BOOLEAN]
           /\ pc'[c] = "idle" /\ row'[c] = NoKey
           /\ \A d \in Calls \ {c} : pc'[d] = pc[d] /\ row'[d] = row[d]
<1>1. "idle" \in Locations
  BY DEF Locations
<1>2. QED
  BY <1>1, NoSecret DEF TypeOK, End, GoTo

\* Create and Reissue write a row with a secret that no copy carries.
LEMMA NewRow ==
    ASSUME TypeOK, CanGenerate, Fresh, NEW ttl \in 1..MaxLife,
           key' = [secret |-> issued', active |-> TRUE, life |-> ttl]
    PROVE  /\ key' \in Rows /\ key' # NoKey /\ key'.secret = issued'
           /\ issued \in Nat /\ issued' = issued + 1 /\ issued' \in 0..MaxSecrets
<1>1. issued \in Nat /\ issued' = issued + 1 /\ issued' \in 0..MaxSecrets
  BY KeyConfig DEF TypeOK, CanGenerate, Fresh
<1>2. ttl \in 0..MaxLife
  BY KeyConfig
<1>3. key' \in Rows
  BY <1>1, <1>2 DEF Rows, Secrets
<1>4. QED
  BY <1>1, <1>3, NoKeyIsNoRow

-----------------------------------------------------------------------------

\* Initially there is neither a row nor a copy.
LEMMA KeyInvInit == Init => KeyInv
<1>1. SUFFICES ASSUME Init PROVE KeyInv
  OBVIOUS
<1>2. TypeOK
  <2>1. issued \in 0..MaxSecrets /\ "idle" \in Locations
    BY <1>1, KeyConfig DEF Init, Locations
  <2>2. QED
    BY <1>1, <2>1, NoSecret DEF Init, TypeOK
<1>3. Knowledge /\ CopiesFaithful
  BY <1>1 DEF Init, Knowledge, CopiesFaithful, Seen, Holding
<1>4. QED
  BY <1>2, <1>3 DEF KeyInv

\* The steps of authentication preserve the invariant.
LEMMA KeyInvAuth ==
    ASSUME KeyInv, NEW c \in Calls,
           \/ \E s \in Secrets : Auth(c, s)
           \/ CacheHit(c) \/ CacheMiss(c) \/ ReadRow(c) \/ ReadRowFails(c)
           \/ SaveToCache(c) \/ Accept(c) \/ Reject(c) \/ Serve(c)
    PROVE  KeyInv'
<1> USE DEF KeyInv, TypeOK, Knowledge, CopiesFaithful, Faithful, Seen, Holding, Locations
<1>1. CASE \E s \in Secrets : Auth(c, s)
  BY <1>1 DEF Auth, GoTo
<1>2. CASE CacheHit(c)
  BY <1>2, NoKeyIsNoRow DEF CacheHit, GoTo, Cached
<1>3. CASE CacheMiss(c)
  BY <1>3 DEF CacheMiss, GoTo, callVars
<1>4. CASE ReadRow(c)
  BY <1>4 DEF ReadRow, GoTo
<1>5. CASE ReadRowFails(c)
  BY <1>5, EndForgets DEF ReadRowFails
<1>6. CASE SaveToCache(c)
  <2>1. [copy |-> row[c], ttl |-> CacheTTL] \in Cached
    BY <1>6, KeyConfig DEF SaveToCache, Cached
  <2>2. QED
    BY <1>6, <2>1 DEF SaveToCache, GoTo, callVars
<1>7. CASE Accept(c)
  BY <1>7 DEF Accept, GoTo, callVars
<1>8. CASE Reject(c)
  BY <1>8, EndForgets DEF Reject
<1>9. CASE Serve(c)
  BY <1>9, EndForgets DEF Serve, GoTo, callVars
<1>10. QED
  BY <1>1, <1>2, <1>3, <1>4, <1>5, <1>6, <1>7, <1>8, <1>9

\* So do the steps that read or change the row.
LEMMA KeyInvChange ==
    ASSUME KeyInv, NEW c \in Calls,
           \/ AuthTrusted(c) \/ RotateRead(c) \/ RotateSecret(c) \/ RotateSecretFails(c)
           \/ CreateCheck(c) \/ Create(c) \/ Deactivate(c) \/ ReissueCheck(c) \/ Reissue(c)
           \/ InvalidateCache(c)
    PROVE  KeyInv'
<1> USE DEF KeyInv, TypeOK, Knowledge, CopiesFaithful, Faithful, Seen, Holding, Locations
<1>1. CASE AuthTrusted(c)
  BY <1>1 DEF AuthTrusted, GoTo, callVars
<1>2. CASE RotateRead(c)
  BY <1>2, EndForgets DEF RotateRead, Rotatable, GoTo, callVars
<1>3. CASE RotateSecret(c)
  <2>1. key \in Rows /\ issued + 1 \in Secrets
    BY <1>3, KeyConfig DEF RotateSecret, CanGenerate, Secrets
  <2>2. /\ key' \in Rows /\ key' # NoKey
        /\ key'.secret = issued' /\ issued' = issued + 1
    BY <1>3, <2>1, NoKeyIsNoRow DEF RotateSecret, Fresh, Rows
  <2>3. QED
    BY <1>3, <2>1, <2>2, KeyConfig DEF RotateSecret, GoTo, callVars, Rows, Cached, Secrets
<1>4. CASE RotateSecretFails(c)
  BY <1>4, EndForgets DEF RotateSecretFails
<1>5. CASE CreateCheck(c)
  BY <1>5 DEF CreateCheck, GoTo, callVars
<1>6. CASE Create(c)
  <2>1. CASE UNCHANGED <<key, issued>>
    BY <1>6, <2>1, EndForgets DEF Create
  <2>2. CASE key = NoKey /\ CanGenerate /\ Fresh /\ \E ttl \in 1..MaxLife :
                 key' = [secret |-> issued', active |-> TRUE, life |-> ttl]
    <3>1. /\ key' \in Rows /\ key' # NoKey /\ key'.secret = issued'
          /\ issued \in Nat /\ issued' = issued + 1 /\ issued' \in 0..MaxSecrets
      BY <2>2, NewRow
    <3>2. QED
      BY <1>6, <2>2, <3>1, EndForgets DEF Create
  <2>3. QED
    BY <1>6, <2>1, <2>2 DEF Create
<1>7. CASE Deactivate(c)
  <2>1. /\ key' \in Rows /\ key' # NoKey
        /\ key'.secret = key.secret /\ key'.life = key.life
    BY <1>7, NoKeyIsNoRow DEF Deactivate, Rows
  <2>2. QED
    BY <1>7, <2>1 DEF Deactivate, GoTo, callVars
<1>8. CASE ReissueCheck(c)
  BY <1>8 DEF ReissueCheck, GoTo, callVars
<1>9. CASE Reissue(c)
  <2>1. CASE CanGenerate /\ Fresh /\ revoked' = FALSE /\ GoTo(c, "invalidate")
             /\ UNCHANGED callVars /\ \E ttl \in 1..MaxLife :
                 key' = [secret |-> issued', active |-> TRUE, life |-> ttl]
    <3>1. /\ key' \in Rows /\ key' # NoKey /\ key'.secret = issued'
          /\ issued \in Nat /\ issued' = issued + 1 /\ issued' \in 0..MaxSecrets
      BY <2>1, NewRow
    <3>2. UNCHANGED <<cache, row, secret, late>> /\ pc' = [pc EXCEPT ![c] = "invalidate"]
      BY <1>9, <2>1 DEF Reissue, GoTo, callVars
    <3>3. TypeOK' /\ Knowledge'
      BY <2>1, <3>1, <3>2
    <3>4. CopiesFaithful'
      <4>1. \A x \in Rows : x.secret <= issued
                => x.secret <= issued' /\ x.secret # key'.secret
        BY <3>1 DEF Rows, Secrets
      <4>2. cache # NoKey => cache.copy \in Rows
        BY DEF Cached
      <4>3. QED
        BY <3>1, <3>2, <4>1, <4>2
    <3>5. QED
      BY <3>3, <3>4
  <2>2. CASE End(c) /\ UNCHANGED <<key, issued, revoked>>
    BY <1>9, <2>2, EndForgets DEF Reissue
  <2>3. QED
    BY <1>9, <2>1, <2>2 DEF Reissue
<1>10. CASE InvalidateCache(c)
  BY <1>10, EndForgets DEF InvalidateCache, Rows
<1>11. QED
  BY <1>1, <1>2, <1>3, <1>4, <1>5, <1>6, <1>7, <1>8, <1>9, <1>10

\* So does time: it ages the row and all copies of it alike.
LEMMA KeyInvTick == ASSUME KeyInv, Tick PROVE KeyInv'
<1> USE DEF KeyInv, TypeOK, Knowledge, CopiesFaithful, Faithful
<1>1. /\ key # NoKey => /\ key' \in Rows /\ key' # NoKey
                        /\ key'.secret = key.secret /\ key'.life = Sooner(key.life)
      /\ key = NoKey => key' = NoKey
  BY AgedRow, AgedNoKey DEF Tick
<1>2. \A c \in Calls :
        /\ row[c] # NoKey => /\ row'[c] \in Rows /\ row'[c] # NoKey
                             /\ row'[c].secret = row[c].secret
                             /\ row'[c].life = Sooner(row[c].life)
        /\ row[c] = NoKey => row'[c] = NoKey
  BY AgedRow, AgedNoKey DEF Tick
<1>3. cache' # NoKey => /\ cache # NoKey /\ cache' \in Cached
                        /\ cache'.copy.secret = cache.copy.secret
                        /\ cache'.copy.life = Sooner(cache.copy.life)
  <2>1. SUFFICES ASSUME cache' # NoKey
                 PROVE  /\ cache # NoKey /\ cache' \in Cached
                        /\ cache'.copy.secret = cache.copy.secret
                        /\ cache'.copy.life = Sooner(cache.copy.life)
    OBVIOUS
  <2>2. /\ cache # NoKey /\ cache.ttl # 1
        /\ cache' = [copy |-> Aged(cache.copy), ttl |-> cache.ttl - 1]
    BY <2>1 DEF Tick
  <2>3. cache.copy \in Rows /\ cache.ttl \in 1..CacheTTL
    BY <2>2 DEF Cached
  <2>4. cache.ttl - 1 \in 1..CacheTTL
    BY <2>2, <2>3, KeyConfig
  <2>5. QED
    BY <2>2, <2>3, <2>4, AgedRow DEF Cached
<1>4. row' \in [Calls -> Rows \cup {NoKey}]
  BY <1>2 DEF Tick
<1>5. QED
  BY <1>1, <1>2, <1>3, <1>4 DEF Tick

\* The invariant is inductive.
LEMMA KeyInvStep == ASSUME KeyInv, [Next]_vars PROVE KeyInv'
<1>1. CASE Next
  BY <1>1, KeyInvAuth, KeyInvChange, KeyInvTick DEF Next, Begin, Proceed
<1>2. CASE UNCHANGED vars
  BY <1>2 DEF vars, KeyInv, TypeOK, Knowledge, CopiesFaithful, Faithful
<1>3. QED
  BY <1>1, <1>2

\* Hence it always holds.
LEMMA KeyInvAlways == Spec => []KeyInv
<1>1. QED
  BY KeyInvInit, KeyInvStep, PTL DEF Spec

-----------------------------------------------------------------------------

\* The row, the cached copy and the calls keep their types for any number of concurrent
\* calls and secrets; nothing is ever cached without a time to live (saveToCache).
THEOREM KeyTypeCorrect == Spec => []TypeOK
<1>1. KeyInv => TypeOK
  BY DEF KeyInv
<1>2. QED
  BY <1>1, KeyInvAlways, PTL

\* Whatever the length of the cache's TTL and of lifetimes, and however many calls
\* validate, rotate, revoke and reissue at once, the current secret is not accepted
\* after the row has expired (Validate, RotateSecret, Reissue).
THEOREM KeyExpiryHonoured == Spec => ExpiryHonoured
<1> DEFINE Honoured ==
      \A c \in Calls :
          /\ pc[c] = "check" /\ pc'[c] = "accepted"
          /\ key # NoKey /\ secret[c] = key.secret
          => key.life > 0
<1>1. ASSUME KeyInv, [Next]_vars PROVE [Honoured]_vars
  <2>1. SUFFICES ASSUME NEW c \in Calls, pc[c] = "check", pc'[c] = "accepted",
                        key # NoKey, secret[c] = key.secret, Next
                 PROVE  key.life > 0
    BY <1>1
  <2>2. Valid(row[c], secret[c])
    <3>1. pc' # pc
      BY <2>1
    <3>2. PICK d \in Calls : Begin(d) \/ Proceed(d)
      BY <2>1, <3>1 DEF Next, Tick
    <3>3. d = c
      BY <1>1, <2>1, <3>2 DEF KeyInv, TypeOK, Begin, Proceed, Auth, AuthTrusted, CreateCheck,
         Deactivate, ReissueCheck, CacheHit, CacheMiss, ReadRow, ReadRowFails, SaveToCache,
         Accept, Reject, Serve, RotateRead, RotateSecret, RotateSecretFails, Create, Reissue,
         InvalidateCache, GoTo, End
    <3>4. QED
      BY <1>1, <2>1, <3>2, <3>3 DEF KeyInv, TypeOK, Begin, Proceed, Auth, AuthTrusted,
         CreateCheck, Deactivate, ReissueCheck, CacheHit, CacheMiss, ReadRow, ReadRowFails,
         SaveToCache, Accept, Reject, Serve, RotateRead, RotateSecret, RotateSecretFails,
         Create, Reissue, InvalidateCache, GoTo, End
  <2>3. row[c].life = key.life /\ row[c].secret = key.secret
    BY <1>1, <2>1, <2>2 DEF KeyInv, Knowledge, CopiesFaithful, Faithful, Holding, Valid
  <2>4. QED
    BY <2>2, <2>3 DEF Valid
<1>2. QED
  BY <1>1, KeyInvAlways, PTL DEF Spec, ExpiryHonoured

\* However many rotations, revocations and reissues overlap, a revoked row gets a new
\* secret only by being reissued (RotateSecret's WHERE is_active = 1).
THEOREM KeyRevokedRowUntouched == Spec => RevokedRowUntouched
<1>1. ASSUME KeyInv, [Next]_vars
      PROVE  [key # NoKey /\ ~key.active
                => key' # NoKey /\ (key'.active \/ key'.secret = key.secret)]_vars
  <2>1. SUFFICES ASSUME key # NoKey, ~key.active, Next
                 PROVE  key' # NoKey /\ (key'.active \/ key'.secret = key.secret)
    BY <1>1
  <2>2. key \in Rows
    BY <1>1, <2>1 DEF KeyInv, TypeOK
  <2>3. UNCHANGED key \/ Tick \/ \E c \in Calls : Deactivate(c) \/ Reissue(c)
    BY <2>1 DEF Next, Begin, Proceed, Auth, AuthTrusted, CreateCheck, ReissueCheck, CacheHit,
       CacheMiss, ReadRow, ReadRowFails, SaveToCache, Accept, Reject, Serve, RotateRead,
       RotateSecret, RotateSecretFails, Create, InvalidateCache
  <2>4. CASE UNCHANGED key
    BY <2>1, <2>4
  <2>5. CASE Tick
    BY <2>2, <2>5, AgedRow DEF Tick
  <2>6. CASE \E c \in Calls : Deactivate(c)
    BY <2>2, <2>6, NoKeyIsNoRow DEF Deactivate, Rows
  <2>7. CASE \E c \in Calls : Reissue(c)
    <3>1. CASE CanGenerate /\ Fresh /\ \E ttl \in 1..MaxLife :
                   key' = [secret |-> issued', active |-> TRUE, life |-> ttl]
      BY <1>1, <3>1, NewRow DEF KeyInv
    <3>2. QED
      BY <2>4, <2>7, <3>1 DEF Reissue
  <2>8. QED
    BY <2>3, <2>4, <2>5, <2>6, <2>7
<1>2. QED
  BY <1>1, KeyInvAlways, PTL DEF Spec, RevokedRowUntouched
=============================================================================
