------------------------------ MODULE Billing ------------------------------
(***************************************************************************)
(* The billed state of one (user, device) pair: the webhook and the        *)
(* subscription endpoint of app/api/v1/billing.py over the tables          *)
(* billingevent and subscription and the Redis hash sub:{user}:{device}.   *)
(*                                                                         *)
(* The content of a row or of the hash is named by the event it came from. *)
(* Postgres runs at read committed: a statement sees what is committed, an *)
(* insert into the unique index of event_id waits for an open transaction  *)
(* that holds the same key, an update waits for the one that holds the     *)
(* row.                                                                    *)
(***************************************************************************)
EXTENDS Naturals, Sequences, FiniteSets

CONSTANTS
    Events,       \* event_id values: one content each, plan_tier not empty
    Deliveries,   \* webhook requests; the provider may deliver an event again
    Readers,      \* GET /subscription requests
    Crashes,      \* whether a handler may end at any await
    None          \* no content; no row

ASSUME BillingAssumption ==
    /\ Crashes \in BOOLEAN
    /\ None \notin Events /\ None \notin Deliveries

VARIABLES
    recorded,   \* event_id of the committed rows of billingevent
    rows,       \* rows[d]: content of the subscription row d inserted, or None
    cache,      \* the hash sub:{user}:{device}, and whether it has a TTL
    wh,         \* wh[d]: the webhook handler of delivery d
    rd,         \* rd[g]: the handler of reader g
    log         \* history: the events of committed webhooks, in order

vars == <<recorded, rows, cache, wh, rd, log>>

Contents == Events \cup {None}
Open == {"select", "write", "commit"}        \* inside the writing transaction
Answers == {"ok", "again", "missing", "error"}
\* Where a handler died: between COMMIT and HSET, between HSET and EXPIRE, elsewhere.
Deaths == {"uncached", "unexpired", "crashed"}
Ends == Answers \cup Deaths

WebhookState == [pc : {"idle", "insert", "replay", "hset", "expire", "reread"} \cup Open \cup Ends,
                 ev : Events, row : Deliveries \cup {None}]
ReaderState == [pc : {"idle", "select", "hset", "expire"} \cup Ends, val : Contents,
                at : Nat]       \* history: how many webhooks had committed when it read

TypeOK ==
    /\ recorded \subseteq Events
    /\ rows \in [Deliveries -> Contents]
    /\ cache \in [val : Contents, ttl : BOOLEAN,
                  late : BOOLEAN]   \* history: another webhook committed in between
    /\ wh \in [Deliveries -> WebhookState]
    /\ rd \in [Readers -> ReaderState]
    /\ log \in Seq(Events)

Rows == {d \in Deliveries : rows[d] # None}

NoHash == [val |-> None, ttl |-> FALSE, late |-> FALSE]

Init ==
    /\ recorded = {}
    /\ rows = [d \in Deliveries |-> None]
    /\ cache = NoHash
    /\ wh \in [Deliveries -> [pc : {"idle"}, ev : Events, row : {None}]]
    /\ rd = [g \in Readers |-> [pc |-> "idle", val |-> None, at |-> 0]]
    /\ log = <<>>

-----------------------------------------------------------------------------
(* The webhook                                                             *)

Goto(d, pc) == wh' = [wh EXCEPT ![d].pc = pc]

\* The signature holds; is the event known?
Verify(d) ==
    /\ wh[d].pc = "idle"
    /\ Goto(d, IF wh[d].ev \in recorded THEN "replay" ELSE "insert")
    /\ UNCHANGED <<recorded, rows, cache, rd, log>>

\* The event is known: answer with the subscription, if there is just one.
Replay(d) ==
    /\ wh[d].pc = "replay"
    /\ \/ Rows = {} /\ Goto(d, "missing")
       \/ Cardinality(Rows) = 1 /\ Goto(d, "again")
       \/ Cardinality(Rows) > 1 /\ Goto(d, "error")
    /\ UNCHANGED <<recorded, rows, cache, rd, log>>

\* Mutant: event_id has no unique index.
InsertUnchecked(d) ==
    /\ wh[d].pc = "insert"
    /\ Goto(d, "select")
    /\ UNCHANGED <<recorded, rows, cache, rd, log>>

\* Mutant: a failed handler does not roll its transaction back.
InsertBehindFailed(d) ==
    /\ wh[d].pc = "insert"
    /\ \A o \in Deliveries : wh[o].ev = wh[d].ev => wh[o].pc \notin Open \cup {"crashed"}
    /\ Goto(d, IF wh[d].ev \in recorded THEN "error" ELSE "select")
    /\ UNCHANGED <<recorded, rows, cache, rd, log>>

InsertEvent(d) ==
    /\ wh[d].pc = "insert"
    /\ \A o \in Deliveries : wh[o].ev = wh[d].ev => wh[o].pc \notin Open
    /\ Goto(d, IF wh[d].ev \in recorded THEN "error" ELSE "select")
    /\ UNCHANGED <<recorded, rows, cache, rd, log>>

\* scalar_one_or_none raises when there are two rows.
SelectRow(d) ==
    /\ wh[d].pc = "select"
    /\ \/ /\ Cardinality(Rows) <= 1
          /\ \E r \in Rows \cup {None} :
                /\ r = None <=> Rows = {}
                /\ wh' = [wh EXCEPT ![d] = [pc |-> "write", ev |-> @.ev, row |-> r]]
       \/ /\ Cardinality(Rows) > 1
          /\ Goto(d, "error")
    /\ UNCHANGED <<recorded, rows, cache, rd, log>>

\* Mutant: the cache is written through before the commit.
WriteThrough(d) ==
    /\ wh[d].pc = "write"
    /\ Goto(d, "commit")
    /\ cache' = [cache EXCEPT !.val = wh[d].ev]
    /\ UNCHANGED <<recorded, rows, rd, log>>

\* The UPDATE waits for the lock of the row; the INSERT for nothing.
Write(d) ==
    /\ wh[d].pc = "write"
    /\ wh[d].row # None =>
          \A o \in Deliveries : wh[o].row = wh[d].row => wh[o].pc # "commit"
    /\ Goto(d, "commit")
    /\ UNCHANGED <<recorded, rows, cache, rd, log>>

Commit(d) ==
    /\ wh[d].pc = "commit"
    /\ Goto(d, "hset")
    /\ recorded' = recorded \cup {wh[d].ev}
    /\ LET row == IF wh[d].row = None THEN d ELSE wh[d].row
       IN  rows' = [rows EXCEPT ![row] = wh[d].ev]
    /\ log' = Append(log, wh[d].ev)
    /\ UNCHANGED <<cache, rd>>

\* Mutant: the webhook fills the hash only when there is none.
CacheIfAbsent(d) ==
    /\ wh[d].pc = "hset"
    /\ Goto(d, "expire")
    /\ cache' = IF cache.val # None THEN cache ELSE [cache EXCEPT !.val = wh[d].ev]
    /\ UNCHANGED <<recorded, rows, rd, log>>

\* HSET replaces the fields and leaves the TTL of the key alone.
CacheEvent(d) ==
    /\ wh[d].pc = "hset"
    /\ Goto(d, "expire")
    /\ cache' = [cache EXCEPT !.val = wh[d].ev, !.late = (wh[d].ev # log[Len(log)])]
    /\ UNCHANGED <<recorded, rows, rd, log>>

ExpireEvent(d) ==
    /\ wh[d].pc = "expire"
    /\ Goto(d, "reread")
    /\ cache' = [cache EXCEPT !.ttl = (cache.val # None)]
    /\ UNCHANGED <<recorded, rows, rd, log>>

\* scalar_one
Reread(d) ==
    /\ wh[d].pc = "reread"
    /\ Goto(d, IF Cardinality(Rows) = 1 THEN "ok" ELSE "error")
    /\ UNCHANGED <<recorded, rows, cache, rd, log>>

DeathAt(pc) ==
    CASE pc = "hset"   -> "uncached"
      [] pc = "expire" -> "unexpired"
      [] OTHER         -> "crashed"

\* The process dies, or Redis or Postgres fails: an open transaction is undone.
Crash(d) ==
    /\ Crashes
    /\ wh[d].pc \notin {"idle"} \cup Ends
    /\ Goto(d, DeathAt(wh[d].pc))
    /\ UNCHANGED <<recorded, rows, cache, rd, log>>

-----------------------------------------------------------------------------
(* GET /subscription                                                       *)

ReadCache(g) ==
    /\ rd[g].pc = "idle"
    /\ rd' = [rd EXCEPT ![g] = [pc  |-> IF cache.val = None THEN "select" ELSE "ok",
                                val |-> cache.val, at |-> 0]]
    /\ UNCHANGED <<recorded, rows, cache, wh, log>>

\* Mutant: the row is cached in place of its content.
ReadRowId(g) ==
    /\ rd[g].pc = "select"
    /\ \E r \in Rows : rd' = [rd EXCEPT ![g] = [pc |-> "hset", val |-> r, at |-> Len(log)]]
    /\ UNCHANGED <<recorded, rows, cache, wh, log>>

ReadRow(g) ==
    /\ rd[g].pc = "select"
    /\ \/ /\ Rows = {}
          /\ rd' = [rd EXCEPT ![g].pc = "missing"]
       \/ /\ Cardinality(Rows) = 1
          /\ \E r \in Rows : rd' = [rd EXCEPT ![g] = [pc |-> "hset", val |-> rows[r],
                                                         at |-> Len(log)]]
       \/ /\ Cardinality(Rows) > 1
          /\ rd' = [rd EXCEPT ![g].pc = "error"]
    /\ UNCHANGED <<recorded, rows, cache, wh, log>>

FillCache(g) ==
    /\ rd[g].pc = "hset"
    /\ rd' = [rd EXCEPT ![g].pc = "expire"]
    /\ cache' = [cache EXCEPT !.val = rd[g].val, !.late = (rd[g].at < Len(log))]
    /\ UNCHANGED <<recorded, rows, wh, log>>

\* Mutant: the refreshed hash gets no TTL.
ExpireForgotten(g) ==
    /\ rd[g].pc = "expire"
    /\ rd' = [rd EXCEPT ![g].pc = "ok"]
    /\ UNCHANGED <<recorded, rows, cache, wh, log>>

ExpireFilled(g) ==
    /\ rd[g].pc = "expire"
    /\ rd' = [rd EXCEPT ![g].pc = "ok"]
    /\ cache' = [cache EXCEPT !.ttl = (cache.val # None)]
    /\ UNCHANGED <<recorded, rows, wh, log>>

CrashReader(g) ==
    /\ Crashes
    /\ rd[g].pc \notin {"idle"} \cup Ends
    /\ rd' = [rd EXCEPT ![g].pc = DeathAt(rd[g].pc)]
    /\ UNCHANGED <<recorded, rows, cache, wh, log>>

\* Redis drops the hash when its TTL is over.
CacheExpires ==
    /\ cache.val # None /\ cache.ttl
    /\ cache' = NoHash
    /\ UNCHANGED <<recorded, rows, wh, rd, log>>

-----------------------------------------------------------------------------
WebhookStep(d) ==
    \/ Verify(d) \/ Replay(d) \/ InsertEvent(d) \/ SelectRow(d) \/ Write(d) \/ Commit(d)
    \/ CacheEvent(d) \/ ExpireEvent(d) \/ Reread(d)

ReaderStep(g) == ReadCache(g) \/ ReadRow(g) \/ FillCache(g) \/ ExpireFilled(g)

Next ==
    \/ \E d \in Deliveries : WebhookStep(d) \/ Crash(d)
    \/ \E g \in Readers : ReaderStep(g) \/ CrashReader(g)
    \/ CacheExpires

Spec == Init /\ [][Next]_vars

\* Handlers run on, locks are granted, and Redis expires what has a TTL.  A
\* request that was not sent is not owed.
Fairness ==
    /\ \A d \in Deliveries : WF_vars(WebhookStep(d) /\ wh[d].pc # "idle")
    /\ \A g \in Readers : WF_vars(ReaderStep(g) /\ rd[g].pc # "idle")
    /\ WF_vars(CacheExpires)

FairSpec == Spec /\ Fairness

-----------------------------------------------------------------------------
(* Properties                                                              *)

\* An acknowledged event, first delivery or not, was applied exactly once, also
\* when its deliveries overlap (README "Idempotencia forte").
AckedOnce ==
    \A d \in Deliveries : wh[d].pc \in {"ok", "again"} =>
       Cardinality({i \in DOMAIN log : log[i] = wh[d].ev}) = 1

\* The hash never shows an event that is not committed.
CacheIsCommitted == cache.val # None => cache.val \in recorded

\* The hash shows what no row of the subscription says, in three cases only: the last
\* webhook has still to write it, or died before it could (its retry does not), or
\* whoever wrote it was overtaken by another commit between its own commit, or its
\* look at the row, and its HSET.  In particular no webhook is lost for the row, and
\* one that nobody overtakes leaves hash and row the same (billing_webhook,
\* get_subscription).
Stale == cache.val # None /\ \A r \in Rows : rows[r] # cache.val
LagHasCause ==
    Stale => \/ cache.late
             \/ \E d \in Deliveries : /\ wh[d].ev = log[Len(log)]
                                      /\ wh[d].pc \in {"hset", "uncached"}

\* What is stale in the hash does not stay there: the TTL ends it, or a write,
\* whoever has died in between.  A handler that dies between HSET and EXPIRE is the
\* one way to leave no TTL.
Interrupted ==
    \/ \E d \in Deliveries : wh[d].pc = "unexpired"
    \/ \E g \in Readers : rd[g].pc = "unexpired"
StaleEnds == Stale ~> (~Stale \/ Interrupted)

\* Every webhook under way is answered or dies: the key of an event and the row
\* of the subscription are never waited for in a circle, nor left locked.
Answered == \A d \in Deliveries : wh[d].pc # "idle" ~> wh[d].pc \in Ends

(* What documents say and the code does not do                             *)

\* billing.py reads the subscription with scalar_one: there is at most one.
OneSubscription == Cardinality(Rows) <= 1
=============================================================================
