------------------------------- MODULE Access -------------------------------
(***************************************************************************)
(* Who gets past the paywall and the rate limit, for one (user, device):   *)
(* SubscriptionGuardMiddleware of app/core/subscription.py, the            *)
(* registration and trial of app/services/access.py, and POST /status of   *)
(* app/api/v1/billing.py, whose attestation registers a device.            *)
(*                                                                         *)
(* The subscription row and its hash change as the module Billing says:    *)
(* here the row is any of the contents a webhook may commit, and the hash  *)
(* any content that was ever committed.  A row of deviceregistration is    *)
(* its created_at: every insert of this code sets verified_at, so the      *)
(* branch of ensure_device_registration for unverified rows is not taken.  *)
(***************************************************************************)
EXTENDS Integers, FiniteSets

CONSTANTS
    Requests,      \* requests of one access token that is valid throughout
    Contents,      \* contents of the subscription row
    Limit,         \* Limit[t]: requests a window of tier t admits
    Window,        \* its length
    TrialLength,   \* the seven days of compute_paywall_state
    FlagTTL,       \* the ex=3600 of the device flags
    MaxTime        \* bound: last value of the clock

Tiers == {"trial", "paid_basic", "paid", "android_accessibility"}
Content == [status : {"active", "trial", "canceled"},
            tier : Tiers \ {"android_accessibility"}, ends : Nat]
NoContent == [status |-> "none", tier |-> "trial", ends |-> 0]

ASSUME AccessAssumption ==
    /\ IsFiniteSet(Requests)
    /\ Contents \subseteq Content
    /\ Limit \in [Tiers -> Nat \ {0}]
    /\ Window \in Nat \ {0} /\ TrialLength \in Nat /\ FlagTTL \in Nat \ {0}
    /\ MaxTime \in Nat

VARIABLES
    now,            \* the clock
    reg,            \* created_at of the registration, 0 when there is no row
    sub,            \* the subscription row
    cache,          \* the hash sub:{user}:{device}
    blockedUntil,   \* deadline of device:{id}:state = "blocked", 0: no key
    revokedUntil,   \* deadline of revoked:device:{id}, 0: no key
    win,            \* win[t]: the counter rl:{t}:... and its deadline (0: no TTL)
    rq,             \* rq[r]: the handler of request r
    known           \* history: the contents ever committed

vars == <<now, reg, sub, cache, blockedUntil, revokedUntil, win, rq, known>>
locks == <<blockedUntil, revokedUntil>>
billed == <<sub, cache, known>>

Ends == {"admitted", "answered", "refused", "error", "crashed"}
Steps == {"revoked", "state", "cache", "register", "attest", "insert", "commit",
          "subscription", "count", "window"}

Request == [pc : {"idle"} \cup Steps \cup Ends,
            guard : BOOLEAN,      \* through the middleware, or POST /status
            android : BOOLEAN,    \* sends the telemetry headers
            att : BOOLEAN,        \* sends an attestation
            checks : 0..2,        \* paywall checks still to make
            tier : Tiers,
            at : Nat,             \* the `now` of compute_paywall_state
            created : Nat,        \* created_at, once it is known
            counted : Nat,        \* history: when the rate limit counted it
            opened : BOOLEAN,     \* history: it was the first of its window
            since : Nat,          \* history: when it arrived
            barred : Nat]         \* history: end of the flags it found on arrival

Blank(pc) == [pc |-> pc, guard |-> FALSE, android |-> FALSE, att |-> FALSE,
              checks |-> 0, tier |-> "trial", at |-> 0, created |-> 0, counted |-> 0,
              opened |-> FALSE, since |-> 0, barred |-> 0]

NoKey == [n |-> 0, until |-> 0]

TypeOK ==
    /\ now \in Nat /\ reg \in Nat
    /\ sub \in Content \cup {NoContent} /\ cache \in Content \cup {NoContent}
    /\ blockedUntil \in Nat /\ revokedUntil \in Nat
    /\ win \in [Tiers -> [n : Nat, until : Nat]]
    /\ rq \in [Requests -> Request]
    /\ known \subseteq Content

Init ==
    /\ now = 1 /\ reg = 0
    /\ sub = NoContent /\ cache = NoContent /\ known = {}
    /\ blockedUntil = 0 /\ revokedUntil = 0
    /\ win = [t \in Tiers |-> NoKey]
    /\ rq = [r \in Requests |-> Blank("idle")]

Later(a, b) == IF a <= b THEN b ELSE a
Goto(r, pc) == rq' = [rq EXCEPT ![r].pc = pc]
End(r, pc) == rq' = [rq EXCEPT ![r] = Blank(pc)]

-----------------------------------------------------------------------------
(* Arrival and the device flags                                            *)

Arrive(r, guard, android, att) ==
    /\ rq[r].pc = "idle"
    /\ rq' = [rq EXCEPT ![r] =
                [@ EXCEPT !.pc = "revoked", !.guard = guard, !.android = guard /\ android,
                          !.att = ~guard /\ att, !.since = now,
                          !.barred = IF guard THEN Later(blockedUntil, revokedUntil)
                                     ELSE revokedUntil]]
    /\ UNCHANGED <<now, reg, billed, locks, win, known>>

\* GET revoked:device, by the middleware or by get_current_claims.
ReadRevoked(r) ==
    /\ rq[r].pc = "revoked"
    /\ IF revokedUntil # 0 THEN End(r, "refused")
       ELSE rq' = [rq EXCEPT ![r].pc = IF rq[r].guard THEN "state" ELSE "register",
                             ![r].at = now]
    /\ UNCHANGED <<now, reg, billed, locks, win>>

\* Mutant: the middleware relies on revoked:device alone.
SkipState(r) ==
    /\ rq[r].pc = "state"
    /\ Goto(r, "cache")
    /\ UNCHANGED <<now, reg, billed, locks, win>>

ReadState(r) ==
    /\ rq[r].pc = "state"
    /\ IF blockedUntil # 0 THEN End(r, "refused") ELSE Goto(r, "cache")
    /\ UNCHANGED <<now, reg, billed, locks, win>>

-----------------------------------------------------------------------------
(* Entitlement                                                             *)

\* Mutant: the plan is looked up by the status of the subscription.
StatusTier(r) == IF rq[r].android THEN "android_accessibility" ELSE cache.status

\* Telemetry has a tier of its own; without a hash the tier is "trial".
TierOf(r) == IF rq[r].android THEN "android_accessibility" ELSE cache.tier

\* HGETALL.  An empty hash sends the request to the database, and so does telemetry
\* of a trial user, with or without a hash.
ReadCache(r) ==
    LET android == rq[r].android
        checks  == (IF cache = NoContent THEN 1 ELSE 0)
                   + (IF android /\ cache.status \in {"none", "trial"} THEN 1 ELSE 0)
        valid   == cache = NoContent \/ (cache.ends >= now /\ cache.status \in {"active", "trial"})
    IN  /\ rq[r].pc = "cache"
        /\ IF ~valid THEN End(r, "refused")
           ELSE rq' = [rq EXCEPT ![r].pc = IF checks > 0 THEN "register" ELSE "count",
                                 ![r].checks = checks, ![r].at = now,
                                 ![r].tier = TierOf(r)]
        /\ UNCHANGED <<now, reg, billed, locks, win>>

\* The registration; a device without one has to send an attestation.
SelectRegistration(r) ==
    /\ rq[r].pc = "register"
    /\ \/ /\ reg # 0
          /\ rq' = [rq EXCEPT ![r].pc = "subscription", ![r].created = reg]
       \/ reg = 0 /\ rq[r].att /\ Goto(r, "attest")
       \/ reg = 0 /\ ~rq[r].att /\ End(r, "refused")
    /\ UNCHANGED <<now, reg, billed, locks, win>>

\* The attestation service answers.
Attest(r) ==
    /\ rq[r].pc = "attest"
    /\ Goto(r, "insert") \/ End(r, "refused")
    /\ UNCHANGED <<now, reg, billed, locks, win>>

\* Mutant: no unique index over user and device.
InsertUnchecked(r) ==
    /\ rq[r].pc = "insert"
    /\ rq' = [rq EXCEPT ![r].pc = "commit", ![r].created = now]
    /\ UNCHANGED <<now, reg, billed, locks, win>>

\* INSERT into the unique index: waits for an open transaction with the same
\* key, and fails when the key is there.
InsertRegistration(r) ==
    /\ rq[r].pc = "insert"
    /\ \A o \in Requests : rq[o].pc # "commit"
    /\ IF reg # 0 THEN End(r, "error")
       ELSE rq' = [rq EXCEPT ![r].pc = "commit", ![r].created = now]
    /\ UNCHANGED <<now, reg, billed, locks, win>>

CommitRegistration(r) ==
    /\ rq[r].pc = "commit"
    /\ reg' = rq[r].created
    /\ Goto(r, "subscription")
    /\ UNCHANGED <<now, billed, locks, win>>

\* Mutant: a subscription that has ended still counts.
PremiumForGood(at) == sub.status = "active"

IsPremium(at) == sub.status = "active" /\ sub.ends >= at

TrialExpired(r) == rq[r].at - rq[r].created > TrialLength

Unpaid(r) == TrialExpired(r) /\ ~IsPremium(rq[r].at)

\* POST /status tells the client.
AnswerStatus(r) == ~rq[r].guard /\ Goto(r, "answered")

\* The middleware goes on, for telemetry without a hash to its second check.
PassPaywall(r) ==
    /\ rq[r].guard
    /\ \/ /\ rq[r].checks <= 1
          /\ rq' = [rq EXCEPT ![r].pc = "count", ![r].checks = 0]
       \/ /\ rq[r].checks = 2
          /\ rq' = [rq EXCEPT ![r].pc = "register", ![r].checks = 1, ![r].at = now]

\* The subscription, and the verdict of compute_paywall_state.
SelectSubscription(r) ==
    /\ rq[r].pc = "subscription"
    /\ \/ Unpaid(r) /\ End(r, "refused")
       \/ ~Unpaid(r) /\ (AnswerStatus(r) \/ PassPaywall(r))
    /\ UNCHANGED <<now, reg, billed, locks, win>>

-----------------------------------------------------------------------------
(* check_rate_limit                                                        *)

\* INCR, which makes the key when there is none.
Count(r) ==
    LET t == rq[r].tier
        n == win[t].n + 1
    IN  /\ rq[r].pc = "count"
        /\ win' = [win EXCEPT ![t].n = n]
        /\ IF n > Limit[t] THEN End(r, "refused")
           ELSE rq' = [rq EXCEPT ![r].pc = IF n = 1 THEN "window" ELSE "admitted",
                                 ![r].counted = now, ![r].opened = (n = 1)]
        /\ UNCHANGED <<now, reg, billed, locks>>

\* Mutant: the deadline is set by writing the counter anew.
RestartWindow(r) ==
    /\ rq[r].pc = "window"
    /\ win' = [win EXCEPT ![rq[r].tier] = [n |-> 0, until |-> now + Window]]
    /\ Goto(r, "admitted")
    /\ UNCHANGED <<now, reg, billed, locks>>

\* EXPIRE
SetWindow(r) ==
    /\ rq[r].pc = "window"
    /\ win' = [win EXCEPT ![rq[r].tier].until = now + Window]
    /\ Goto(r, "admitted")
    /\ UNCHANGED <<now, reg, billed, locks>>

\* Redis, Postgres, the attestation service or the process fails.
Crash(r) ==
    /\ rq[r].pc \in Steps
    /\ IF rq[r].pc = "window" THEN Goto(r, "crashed") ELSE End(r, "crashed")
    /\ UNCHANGED <<now, reg, billed, locks, win>>

-----------------------------------------------------------------------------
(* The rest of the system                                                  *)

CommitWebhook(c) ==
    /\ c # sub
    /\ sub' = c
    /\ known' = known \cup {c}
    /\ UNCHANGED <<now, reg, cache, locks, win, rq>>

FillCache(c) ==
    /\ c # cache
    /\ cache' = c
    /\ UNCHANGED <<now, reg, sub, known, locks, win, rq>>

CacheExpires ==
    /\ cache # NoContent
    /\ cache' = NoContent
    /\ UNCHANGED <<now, reg, sub, known, locks, win, rq>>

\* revoke_and_block sets both flags, one after the other, and may die between
\* them; reuse detection sets the second.
SetBlocked ==
    /\ blockedUntil' = now + FlagTTL
    /\ UNCHANGED <<now, reg, billed, revokedUntil, win, rq>>

SetRevoked ==
    /\ revokedUntil' = now + FlagTTL
    /\ UNCHANGED <<now, reg, billed, blockedUntil, win, rq>>

\* Time passes, and Redis drops the keys whose TTL is over.
Tick ==
    LET Kept(until) == IF until = now + 1 THEN 0 ELSE until IN
    /\ now < MaxTime
    /\ now' = now + 1
    /\ blockedUntil' = Kept(blockedUntil)
    /\ revokedUntil' = Kept(revokedUntil)
    /\ win' = [t \in Tiers |-> IF win[t].until = now + 1 THEN NoKey ELSE win[t]]
    /\ UNCHANGED <<reg, billed, rq>>

RequestStep(r) ==
    \/ \E guard, android, att \in BOOLEAN : Arrive(r, guard, android, att)
    \/ ReadRevoked(r) \/ ReadState(r) \/ ReadCache(r)
    \/ SelectRegistration(r) \/ Attest(r) \/ InsertRegistration(r) \/ CommitRegistration(r)
    \/ SelectSubscription(r) \/ Count(r) \/ SetWindow(r) \/ Crash(r)

Next ==
    \/ \E r \in Requests : RequestStep(r)
    \/ \E c \in Contents : CommitWebhook(c)
    \/ \E c \in known : FillCache(c)
    \/ CacheExpires \/ SetBlocked \/ SetRevoked \/ Tick

Spec == Init /\ [][Next]_vars

-----------------------------------------------------------------------------
(* Properties                                                              *)

\* The trial of a device starts once: every answer is about the one committed
\* registration, also when first requests overlap or die
\* (ensure_device_registration).
TrialStartsOnce ==
    \A r \in Requests :
       rq[r].pc \in {"subscription", "answered", "admitted"} /\ rq[r].created # 0 =>
          rq[r].created = reg

\* Nobody is admitted who arrived after the trial and after the end of every
\* subscription ever committed, whether hash or database decided, however old
\* the hash was (SubscriptionGuardMiddleware, compute_paywall_state).
AdmittedEntitled ==
    \A r \in Requests : rq[r].pc \in {"admitted", "answered"} =>
       \/ reg # 0 /\ rq[r].since <= reg + TrialLength
       \/ \E c \in known : c.status # "canceled" /\ rq[r].since <= c.ends

\* A request that finds one of the device flags set on arrival gets no further
\* before that flag has ended, although the flags are set and read one by one.
FlagsBar ==
    \A r \in Requests :
       rq[r].pc \in (Steps \ {"revoked", "state"}) \cup {"admitted", "answered"} =>
          rq[r].barred <= now

\* From the request that opens a window, for as long as a window lasts, the tier
\* admits no more than its limit, whatever dies between INCR and EXPIRE and
\* however late EXPIRE comes (check_rate_limit).
WindowHolds ==
    \A o \in Requests : rq[o].opened =>
       Cardinality({r \in Requests :
          /\ rq[r].pc = "admitted" /\ rq[r].tier = rq[o].tier
          /\ rq[r].counted \in rq[o].counted..(rq[o].counted + Window - 1)}) <= Limit[rq[o].tier]
=============================================================================
