------------------------------ MODULE Paywall ------------------------------
(***************************************************************************)
(* Billing and Access put together, for one (user, device): the row and    *)
(* the hash the guard reads are those that webhooks and readers write.     *)
(* Each step is one of either side; they meet in Postgres and Redis only.  *)
(***************************************************************************)
EXTENDS Billing, Integers

CONSTANTS
    ContentOf,     \* the status, tier and end that each event carries
    Requests, Limit, Window, TrialLength, FlagTTL, MaxTime   \* as in Access

VARIABLES now, reg, blockedUntil, revokedUntil, win, rq      \* as in Access

guardVars == <<now, reg, blockedUntil, revokedUntil, win, rq>>

\* What a row or hash named by e shows.
Shown(e) == IF e = None THEN [status |-> "none", tier |-> "trial", ends |-> 0] ELSE ContentOf[e]

LastEvent == IF log = <<>> THEN None ELSE log[Len(log)]

\* The row of the subscription.  Where there are two rows nobody reads either.
Subscription ==
    IF \E r \in Rows : Rows = {r} THEN Shown(rows[CHOOSE r \in Rows : TRUE]) ELSE Shown(LastEvent)

Guard == INSTANCE Access
         WITH Contents <- {ContentOf[e] : e \in Events},
              sub      <- Subscription,
              cache    <- Shown(cache.val),
              known    <- {ContentOf[e] : e \in recorded}

PaywallInit == Init /\ Guard!Init

\* A request; scalar_one_or_none raises where there are two rows.
GuardStep(r) ==
    /\ UNCHANGED vars
    /\ IF rq[r].pc = "subscription" /\ Cardinality(Rows) > 1
       THEN Guard!Crash(r)
       ELSE Guard!RequestStep(r)

PaywallNext ==
    \/ Next /\ UNCHANGED guardVars
    \/ \E r \in Requests : GuardStep(r)
    \/ UNCHANGED vars /\ (Guard!SetBlocked \/ Guard!SetRevoked \/ Guard!Tick)

PaywallSpec == PaywallInit /\ [][PaywallNext]_<<vars, guardVars>>

-----------------------------------------------------------------------------
(* Properties                                                              *)

\* Whoever gets past the paywall arrived in the trial of the device, or before
\* the end of a plan that a committed webhook brought, whatever overlaps, dies
\* or is stale on the way from the provider to the guard.
AdmittedPaid ==
    \A r \in Requests : rq[r].pc \in {"admitted", "answered"} =>
       \/ reg # 0 /\ rq[r].since <= reg + TrialLength
       \/ \E i \in DOMAIN log : /\ ContentOf[log[i]].status # "canceled"
                                /\ rq[r].since <= ContentOf[log[i]].ends
=============================================================================
