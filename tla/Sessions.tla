------------------------------ MODULE Sessions ------------------------------
(***************************************************************************)
(* Sessions of the BlockRemote backend: app/services/tokens.py with its    *)
(* callers in app/api/v1/auth.py and the checks of app/core/auth.py and    *)
(* app/core/security.py.                                                   *)
(*                                                                         *)
(* A session is a refresh token (a JWT) together with one Redis key        *)
(*     refresh:{user}:{device}:{jti}:{fingerprint hash}                    *)
(* that expires by itself.  Handlers are coroutines: every `await` of a    *)
(* Redis call is a point where any other handler may run and where the     *)
(* handler may die (timeout, dropped connection, restart), so every Redis  *)
(* call is an action of its own.                                           *)
(*                                                                         *)
(* Redis keys with a TTL are modelled by their deadline: the key exists    *)
(* while the deadline lies in the future.                                  *)
(***************************************************************************)
EXTENDS Integers, Sequences, FiniteSets

CONSTANTS
    Users, Devices,   \* names without ':' or glob characters
    Refreshers,       \* the POST /auth/refresh requests, each handled once
    Revokers,         \* the calls of revoke_and_block
    MaxJti,           \* bound: number of token pairs ever signed
    MaxTime,          \* bound: last value of the clock
    AccessTTL,        \* jwt_expire_minutes
    BaseTTL,          \* refresh_base_ttl_minutes
    ExtendTTL,        \* refresh_extend_minutes
    MaxTTL,           \* refresh_max_ttl_minutes
    Leeway,           \* jwt_clock_skew_seconds
    FlagTTL,          \* the ex=3600 of the device flags
    AttemptWindow,    \* window of _enforce_device_refresh_rate
    MaxAttempts       \* its max_attempts

ASSUME BoundsAssumption ==
    /\ MaxJti \in Nat
    /\ MaxTime \in Nat

ASSUME TTLAssumption ==
    /\ AccessTTL \in Nat /\ Leeway \in Nat /\ FlagTTL \in Nat
    /\ BaseTTL \in Nat \ {0} /\ ExtendTTL \in Nat /\ MaxTTL \in Nat
    /\ AttemptWindow \in Nat \ {0} /\ MaxAttempts \in Nat \ {0}

\* The defaults of config.py: 7 days and 14 days.
ASSUME BaseWithinMax == BaseTTL <= MaxTTL

\* The defaults of config.py: 15 minutes and 30 seconds against ex=3600.
ASSUME FlagOutlivesAccess == AccessTTL + Leeway < FlagTTL

Jti == 1..MaxJti
Owners == Users \X Devices
Lesser(a, b) == IF a <= b THEN a ELSE b
Greater(a, b) == IF a <= b THEN b ELSE a

VARIABLES
    now,           \* the clock the server and Redis share
    claims,        \* claims[j]: what the j-th signed token pair says
    keyUntil,      \* keyUntil[j]: deadline of the refresh:... key, 0 when never set or deleted
    held,          \* the pairs sent in a response: what a client may present
    blockedUntil,  \* device:{id}:state = "blocked"
    revokedUntil,  \* revoked:device:{id}
    overlayUntil,  \* force_overlay:{id}
    attempts,      \* refresh_attempts:{id}: count and deadline (0: no TTL set)
    published,     \* <<kind, device>> messages published on "kill-switch"
    rf,            \* rf[r]: the handler of request r
    rv,            \* rv[v]: the call v
    lastRevoke,    \* history: when revoked:device was last set, per device
    purged         \* history: keys a finished sweep found stored when it began

vars == <<now, claims, keyUntil, held, blockedUntil, revokedUntil, overlayUntil,
          attempts, published, rf, rv, lastRevoke, purged>>

flags == <<blockedUntil, revokedUntil, overlayUntil, lastRevoke>>

-----------------------------------------------------------------------------
(* Tokens and keys                                                         *)

\* `parent` is the token a rotation consumed, 0 for a login (history).
Claim == [sub : Users, dev : Devices, iat : Nat, parent : Nat]

Minted == 1..Len(claims)
Owner(j) == <<claims[j].sub, claims[j].dev>>
Live(j) == keyUntil[j] > now
Successors(j) == {k \in Minted : claims[k].parent = j}
StoredKeys(o) == {j \in Minted : Live(j) /\ Owner(j) = o}

\* verify_token on the refresh JWT: python-jose tolerates `leeway` after exp.
RefreshVerifies(j) == now <= claims[j].iat + BaseTTL + Leeway

\* get_current_claims on the access JWT of the same pair.
Authenticates(j) ==
    /\ now <= claims[j].iat + AccessTTL + Leeway
    /\ revokedUntil[claims[j].dev] <= now

IdleRefresh == [pc |-> "idle", old |-> 0, good |-> FALSE, late |-> FALSE,
                ttl |-> 0, new |-> 0]
DoneRefresh == [IdleRefresh EXCEPT !.pc = "done"]
IdleRevoke == [pc |-> "idle", who |-> <<>>, pub |-> FALSE,
               snap |-> {}, owed |-> {}, batch |-> {}]
DoneRevoke == [IdleRevoke EXCEPT !.pc = "done"]

\* `late` (history): the token had been rotated before the request arrived.
RefreshState == [pc : {"idle", "window", "ttl", "flag", "del", "set", "done"},
                 old : 0..MaxJti, good : BOOLEAN, late : BOOLEAN,
                 ttl : Nat, new : 0..MaxJti]
RevokeState == [pc : {"idle", "done", "scan", "rescan", "unlink", "unlinkLast",
                      "publish", "block", "revoke", "overlay"},
                who : Owners \cup {<<>>}, pub : BOOLEAN,
                snap : SUBSET Jti, owed : SUBSET Jti, batch : SUBSET Jti]

\* A pair that is signed but whose key no request has stored yet.
Pending(j) == \E r \in Refreshers : rf[r].pc = "set" /\ rf[r].new = j

TypeOK ==
    /\ now \in Nat
    /\ claims \in Seq(Claim) /\ Len(claims) <= MaxJti
    /\ keyUntil \in [Jti -> Nat]
    /\ held \subseteq Minted
    /\ blockedUntil \in [Devices -> Nat]
    /\ revokedUntil \in [Devices -> Nat]
    /\ overlayUntil \in [Devices -> Nat]
    /\ attempts \in [Devices -> [n : 0..MaxAttempts + 1, until : Nat]]
    /\ published \subseteq ({"block", "CRITICAL_LOCK"} \X Devices)
    /\ rf \in [Refreshers -> RefreshState]
    /\ rv \in [Revokers -> RevokeState]
    /\ lastRevoke \in [Devices -> Nat]
    /\ purged \subseteq Jti

Init ==
    /\ now = 1
    /\ claims = <<>>
    /\ keyUntil = [j \in Jti |-> 0]
    /\ held = {}
    /\ blockedUntil = [d \in Devices |-> 0]
    /\ revokedUntil = [d \in Devices |-> 0]
    /\ overlayUntil = [d \in Devices |-> 0]
    /\ attempts = [d \in Devices |-> [n |-> 0, until |-> 0]]
    /\ published = {}
    /\ rf = [r \in Refreshers |-> IdleRefresh]
    /\ rv = [v \in Revokers |-> IdleRevoke]
    /\ lastRevoke = [d \in Devices |-> 0]
    /\ purged = {}

-----------------------------------------------------------------------------
(* issue_tokens, called by the login service for any user and device       *)

Login(u, d) ==
    /\ Len(claims) < MaxJti
    /\ claims' = Append(claims, [sub |-> u, dev |-> d, iat |-> now, parent |-> 0])
    /\ keyUntil' = [keyUntil EXCEPT ![Len(claims) + 1] = now + BaseTTL]
    /\ held' = held \cup {Len(claims) + 1}
    /\ UNCHANGED <<now, flags, attempts, published, rf, rv, purged>>

-----------------------------------------------------------------------------
(* refresh_tokens                                                          *)

\* The value INCR returns; counts beyond the limit are not told apart.
NextAttempt(d) ==
    LET expired == attempts[d].until # 0 /\ attempts[d].until <= now
    IN  IF expired THEN 1 ELSE Lesser(attempts[d].n + 1, MaxAttempts + 1)

\* Verification of the JWT and the INCR of the rate limit.  `good`: the client
\* sends the fingerprint the session was created with.
RefreshStart(r, j, good) ==
    /\ rf[r].pc = "idle"
    /\ j \in held
    /\ RefreshVerifies(j)
    /\ LET d == claims[j].dev
           n == NextAttempt(d)
       IN  /\ attempts' = [attempts EXCEPT
                             ![d] = [n |-> n, until |-> IF n = 1 THEN 0 ELSE @.until]]
           /\ rf' = [rf EXCEPT ![r] =
                       IF n > MaxAttempts THEN DoneRefresh
                       ELSE [IdleRefresh EXCEPT !.pc = IF n = 1 THEN "window" ELSE "ttl",
                                                !.old = j, !.good = good,
                                                !.late = Successors(j) # {}]]
    /\ UNCHANGED <<now, claims, keyUntil, held, flags, published, rv, purged>>

\* EXPIRE, only after the first INCR of a window.
SetWindow(r) ==
    /\ rf[r].pc = "window"
    /\ attempts' = [attempts EXCEPT ![claims[rf[r].old].dev].until = now + AttemptWindow]
    /\ rf' = [rf EXCEPT ![r].pc = "ttl"]
    /\ UNCHANGED <<now, claims, keyUntil, held, flags, published, rv, purged>>

\* Mutant: a missing key is taken for one that has no deadline.
ReadTTLUnchecked(r) ==
    /\ rf[r].pc = "ttl"
    /\ rf' = [rf EXCEPT ![r].pc = "del", ![r].ttl = keyUntil[rf[r].old] - now]
    /\ UNCHANGED <<now, claims, keyUntil, held, flags, attempts, published, rv, purged>>

\* TTL: -2 when no key has this jti and fingerprint, else the remaining time,
\* rounded to a whole unit in either direction.
ReadTTL(r) ==
    LET left == keyUntil[rf[r].old] - now IN
    /\ rf[r].pc = "ttl"
    /\ \/ /\ rf[r].good /\ left > 0
          /\ \E t \in {left - 1, left} : rf' = [rf EXCEPT ![r].pc = "del", ![r].ttl = t]
       \/ /\ ~(rf[r].good /\ left > 0)
          /\ rf' = [rf EXCEPT ![r].pc = "flag"]
    /\ UNCHANGED <<now, claims, keyUntil, held, flags, attempts, published, rv, purged>>

\* Mutant: the flag lives as long as the window of the rate limit.
FlagReuseBriefly(r) ==
    /\ rf[r].pc = "flag"
    /\ LET d == claims[rf[r].old].dev
       IN  /\ revokedUntil' = [revokedUntil EXCEPT ![d] = now + AttemptWindow]
           /\ lastRevoke' = [lastRevoke EXCEPT ![d] = now]
    /\ rf' = [rf EXCEPT ![r] = DoneRefresh]
    /\ UNCHANGED <<now, claims, keyUntil, held, blockedUntil, overlayUntil,
                   attempts, published, rv, purged>>

\* SET revoked:device:{id} and the 403.
FlagReuse(r) ==
    /\ rf[r].pc = "flag"
    /\ LET d == claims[rf[r].old].dev
       IN  /\ revokedUntil' = [revokedUntil EXCEPT ![d] = now + FlagTTL]
           /\ lastRevoke' = [lastRevoke EXCEPT ![d] = now]
    /\ rf' = [rf EXCEPT ![r] = DoneRefresh]
    /\ UNCHANGED <<now, claims, keyUntil, held, blockedUntil, overlayUntil,
                   attempts, published, rv, purged>>

\* Mutant: the rotation leaves the old key in place.
RotateWithoutDelete(r) ==
    /\ rf[r].pc = "del"
    /\ Len(claims) < MaxJti
    /\ LET old == rf[r].old
       IN  claims' = Append(claims, [sub |-> claims[old].sub, dev |-> claims[old].dev,
                                     iat |-> now, parent |-> old])
    /\ rf' = [rf EXCEPT ![r].pc = "set", ![r].new = Len(claims) + 1]
    /\ UNCHANGED <<now, keyUntil, held, flags, attempts, published, rv, purged>>

\* DEL of the old key, whose result is not looked at, and the signing of the
\* new pair, which happens before the handler awaits again.
DeleteOld(r) ==
    /\ rf[r].pc = "del"
    /\ Len(claims) < MaxJti
    /\ LET old == rf[r].old
       IN  /\ keyUntil' = [keyUntil EXCEPT ![old] = 0]
           /\ claims' = Append(claims, [sub |-> claims[old].sub, dev |-> claims[old].dev,
                                        iat |-> now, parent |-> old])
    /\ rf' = [rf EXCEPT ![r].pc = "set", ![r].new = Len(claims) + 1]
    /\ UNCHANGED <<now, held, flags, attempts, published, rv, purged>>

\* Mutant: no lower bound on the extended lifetime.
UnflooredTTL(ttl) ==
    LET existing == IF ttl > 0 THEN ttl ELSE BaseTTL
    IN  Lesser(MaxTTL, existing + ExtendTTL)

\* Sliding expiration: extend what was left, at least the base, at most the cap.
SlidingTTL(ttl) ==
    LET existing == IF ttl > 0 THEN ttl ELSE BaseTTL
    IN  Lesser(MaxTTL, Greater(BaseTTL, existing + ExtendTTL))

\* Mutant: the key is written under the old jti.
StoreUnderOld(r) ==
    /\ rf[r].pc = "set"
    /\ keyUntil' = [keyUntil EXCEPT ![rf[r].old] = now + BaseTTL]
    /\ held' = held \cup {rf[r].new}
    /\ rf' = [rf EXCEPT ![r] = DoneRefresh]
    /\ UNCHANGED <<now, claims, flags, attempts, published, rv, purged>>

\* SET of the new key and the response; when it is lost on the way, the client
\* is one that never presents the pair.
StoreNew(r) ==
    /\ rf[r].pc = "set"
    /\ keyUntil' = [keyUntil EXCEPT ![rf[r].new] = now + SlidingTTL(rf[r].ttl)]
    /\ held' = held \cup {rf[r].new}
    /\ rf' = [rf EXCEPT ![r] = DoneRefresh]
    /\ UNCHANGED <<now, claims, flags, attempts, published, rv, purged>>

\* The handler dies at one of its awaits.
AbortRefresh(r) ==
    /\ rf[r].pc \notin {"idle", "done"}
    /\ rf' = [rf EXCEPT ![r] = DoneRefresh]
    /\ UNCHANGED <<now, claims, keyUntil, held, flags, attempts, published, rv, purged>>

-----------------------------------------------------------------------------
(* revoke_and_block                                                        *)

StartRevoke(v, o, pub) ==
    /\ rv[v].pc = "idle"
    /\ rv' = [rv EXCEPT ![v] = [IdleRevoke EXCEPT !.pc = "scan", !.who = o, !.pub = pub]]
    /\ UNCHANGED <<now, claims, keyUntil, held, flags, attempts, published, rf, purged>>

\* POST /auth/logout with the access token of pair j; `block` is the client's.
Logout(v, j, block) ==
    /\ j \in held
    /\ Authenticates(j)
    /\ StartRevoke(v, Owner(j), block)

\* The other callers (heartbeat breach, EDR report, worker) act on a pair of
\* user and device that was authenticated at some time before.
ServerRevoke(v, o) ==
    /\ \E j \in held : Owner(j) = o
    /\ StartRevoke(v, o, TRUE)

\* Mutant: the loop ends with the first page.
ScanOnce(v) ==
    /\ rv[v].pc \in {"scan", "rescan"}
    /\ \E page \in SUBSET StoredKeys(rv[v].who) :
          rv' = [rv EXCEPT ![v].pc = "unlinkLast",
                           ![v].snap = StoredKeys(rv[v].who),
                           ![v].batch = page]
    /\ UNCHANGED <<now, claims, keyUntil, held, flags, attempts, published, rf, purged>>

\* One SCAN call.  A full iteration returns every key that is there from its
\* start to its end; keys added meanwhile may or may not be returned.
Scan(v) ==
    LET present == StoredKeys(rv[v].who)
        first   == rv[v].pc = "scan"
        owed    == IF first THEN present ELSE rv[v].owed \cap present
    IN  /\ rv[v].pc \in {"scan", "rescan"}
        /\ \E page \in SUBSET present, last \in BOOLEAN :
              /\ last => owed \subseteq page
              /\ rv' = [rv EXCEPT ![v].pc = IF last THEN "unlinkLast" ELSE "unlink",
                                  ![v].snap = IF first THEN present ELSE @,
                                  ![v].owed = owed \ page,
                                  ![v].batch = page]
        /\ UNCHANGED <<now, claims, keyUntil, held, flags, attempts, published, rf, purged>>

\* DEL of one page; the loop ends when the cursor has come back to 0.
Unlink(v) ==
    /\ rv[v].pc \in {"unlink", "unlinkLast"}
    /\ keyUntil' = [j \in Jti |-> IF j \in rv[v].batch THEN 0 ELSE keyUntil[j]]
    /\ \/ /\ rv[v].pc = "unlink"
          /\ rv' = [rv EXCEPT ![v].pc = "rescan", ![v].batch = {}]
          /\ UNCHANGED purged
       \/ /\ rv[v].pc = "unlinkLast"
          /\ rv' = [rv EXCEPT ![v].pc = IF rv[v].pub THEN "publish" ELSE "block",
                              ![v].snap = {}, ![v].owed = {}, ![v].batch = {}]
          /\ purged' = purged \cup rv[v].snap
    /\ UNCHANGED <<now, claims, held, flags, attempts, published, rf>>

PublishBlock(v) ==
    /\ rv[v].pc = "publish"
    /\ published' = published \cup {<<"block", rv[v].who[2]>>}
    /\ rv' = [rv EXCEPT ![v].pc = "block"]
    /\ UNCHANGED <<now, claims, keyUntil, held, flags, attempts, rf, purged>>

MarkBlocked(v) ==
    /\ rv[v].pc = "block"
    /\ blockedUntil' = [blockedUntil EXCEPT ![rv[v].who[2]] = now + FlagTTL]
    /\ rv' = [rv EXCEPT ![v].pc = "revoke"]
    /\ UNCHANGED <<now, claims, keyUntil, held, revokedUntil, overlayUntil, lastRevoke,
                   attempts, published, rf, purged>>

MarkRevoked(v) ==
    /\ rv[v].pc = "revoke"
    /\ revokedUntil' = [revokedUntil EXCEPT ![rv[v].who[2]] = now + FlagTTL]
    /\ lastRevoke' = [lastRevoke EXCEPT ![rv[v].who[2]] = now]
    /\ rv' = [rv EXCEPT ![v].pc = "overlay"]
    /\ UNCHANGED <<now, claims, keyUntil, held, blockedUntil, overlayUntil,
                   attempts, published, rf, purged>>

MarkOverlay(v) ==
    /\ rv[v].pc = "overlay"
    /\ overlayUntil' = [overlayUntil EXCEPT ![rv[v].who[2]] = now + FlagTTL]
    /\ rv' = [rv EXCEPT ![v] = DoneRevoke]
    /\ UNCHANGED <<now, claims, keyUntil, held, blockedUntil, revokedUntil, lastRevoke,
                   attempts, published, rf, purged>>

AbortRevoke(v) ==
    /\ rv[v].pc \notin {"idle", "done"}
    /\ rv' = [rv EXCEPT ![v] = DoneRevoke]
    /\ UNCHANGED <<now, claims, keyUntil, held, flags, attempts, published, rf, purged>>

-----------------------------------------------------------------------------
Tick ==
    /\ now < MaxTime
    /\ now' = now + 1
    /\ UNCHANGED <<claims, keyUntil, held, flags, attempts, published, rf, rv, purged>>

RefreshNext(r) ==
    \/ \E j \in held, good \in BOOLEAN : RefreshStart(r, j, good)
    \/ SetWindow(r)
    \/ ReadTTL(r)
    \/ FlagReuse(r)
    \/ DeleteOld(r)
    \/ StoreNew(r)
    \/ AbortRefresh(r)

RevokeNext(v) ==
    \/ \E j \in held, block \in BOOLEAN : Logout(v, j, block)
    \/ \E o \in Owners : ServerRevoke(v, o)
    \/ Scan(v)
    \/ Unlink(v)
    \/ PublishBlock(v)
    \/ MarkBlocked(v)
    \/ MarkRevoked(v)
    \/ MarkOverlay(v)
    \/ AbortRevoke(v)

Next ==
    \/ \E u \in Users, d \in Devices : Login(u, d)
    \/ \E r \in Refreshers : RefreshNext(r)
    \/ \E v \in Revokers : RevokeNext(v)
    \/ Tick

Spec == Init /\ [][Next]_vars
-----------------------------------------------------------------------------
(* Properties                                                              *)

\* An access token signed no later than a revocation of its device never
\* authenticates again: revoked:device outlives it, even when the flag is set
\* again and again by concurrent handlers (get_current_claims against the
\* ex=3600 of refresh_tokens and revoke_and_block).
RevokedPairsStayOut ==
    \A j \in held :
       claims[j].iat <= lastRevoke[claims[j].dev] => ~Authenticates(j)

\* Every key that was stored when a SCAN loop began is gone when the loop is
\* over, and stays gone, whatever is added, rotated or expires meanwhile
\* (revoke_device_tokens).
SweptStayDead == \A j \in purged : ~Live(j)

\* A refresh is refused as reuse only for a wrong fingerprint, a key that was
\* deleted, or a token past its nominal lifetime (refresh_tokens, ttl == -2):
\* the store never forgets a session earlier than the token itself does.
FlaggedForCause ==
    \A r \in Refreshers : rf[r].pc = "flag" =>
       LET j == rf[r].old
       IN  ~rf[r].good \/ keyUntil[j] = 0 \/ now >= claims[j].iat + BaseTTL

\* A token that was rotated yields no pair to any request that arrives later
\* (refresh_tokens, rotation on use), also when the rotation died half-way.
LateRequestsRefused ==
    \A r \in Refreshers : rf[r].late => rf[r].pc \notin {"del", "set"}

\* The refresh keys implement the life cycle of a credential.
Phase == [j \in Jti |-> IF j \notin Minted \/ Pending(j) THEN "unborn"
                        ELSE IF Live(j) THEN "live" ELSE "dead"]
Lifecycle == INSTANCE CredentialLifecycle WITH Credentials <- Jti, phase <- Phase
RefreshKeysLifecycle == Lifecycle!Spec

(* What comments and documents say and the code does not do                *)

\* tokens.py "Rotate on use: delete old key to prevent replay": a token yields
\* at most one pair.
RotationConsumesToken == \A j \in Minted : Cardinality(Successors(j)) <= 1
=============================================================================
