------------------------------ MODULE Lockout ------------------------------
(***************************************************************************)
(* Sessions and Access put together: the access tokens that requests of    *)
(* one (user, device) present are those of Sessions, and the flags the     *)
(* guard and get_current_claims read are those that revoke_and_block and   *)
(* the detection of reuse set.                                             *)
(***************************************************************************)
EXTENDS Sessions

CONSTANTS
    Subject,                                         \* the (user, device)
    Requests, Contents, Limit, Window, TrialLength   \* as in Access

VARIABLES
    reg, sub, cache, win, rq, known,   \* as in Access
    token,                             \* token[r]: the pair whose access token r presents
    found                              \* history: found[r]: lastRevoke when r arrived

guardVars == <<reg, sub, cache, win, rq, known>>
callVars == <<token, found>>
lockVars == <<vars, guardVars, callVars>>

Device == Subject[2]

\* A deadline, to a guard that takes a key that has expired for no key.
Up(until) == IF until > now THEN until ELSE 0

Guard == INSTANCE Access WITH blockedUntil <- Up(blockedUntil[Device]),
                              revokedUntil <- Up(revokedUntil[Device])

LockoutInit ==
    /\ Init /\ Guard!Init
    /\ token = [r \in Requests |-> 0]
    /\ found = [r \in Requests |-> 0]

\* verify_token, before anything else is read.
Verified(j) == Owner(j) = Subject /\ now <= claims[j].iat + AccessTTL + Leeway

Call(r) ==
    /\ UNCHANGED vars
    /\ \E j \in held :
          /\ Verified(j)
          /\ token' = [token EXCEPT ![r] = j]
    /\ \E guard, android, att \in BOOLEAN : Guard!Arrive(r, guard, android, att)
    /\ found' = [found EXCEPT ![r] = lastRevoke[Device]]

Serve(r) ==
    /\ UNCHANGED <<vars, callVars>>
    /\ rq[r].pc # "idle"
    /\ Guard!RequestStep(r)

Bill ==
    /\ UNCHANGED <<vars, callVars>>
    /\ \/ \E c \in Contents : Guard!CommitWebhook(c)
       \/ \E c \in known : Guard!FillCache(c)
       \/ Guard!CacheExpires

\* Time is the same for both; the windows of the rate limit end with it.
Pass ==
    /\ Tick
    /\ win' = [t \in Guard!Tiers |-> IF win[t].until = now + 1 THEN Guard!NoKey ELSE win[t]]
    /\ UNCHANGED <<reg, sub, cache, rq, known, callVars>>

LockoutNext ==
    \/ Next /\ now' = now /\ UNCHANGED <<guardVars, callVars>>
    \/ \E r \in Requests : Call(r) \/ Serve(r)
    \/ Bill \/ Pass

LockoutSpec == LockoutInit /\ [][LockoutNext]_lockVars

-----------------------------------------------------------------------------
(* Properties                                                              *)

\* A request that comes after a revocation with an access token signed before it
\* gets past the flags only once that token has ended by itself: whoever sets or
\* reads the flags, in whatever order and however slowly, the revocation is not
\* outlived by what it revoked.
RevokedGetNothing ==
    \A r \in Requests :
       /\ rq[r].pc \in (Guard!Steps \ {"revoked", "state"}) \cup {"admitted", "answered"}
       /\ claims[token[r]].iat <= found[r]
       => now > claims[token[r]].iat + AccessTTL + Leeway
=============================================================================
