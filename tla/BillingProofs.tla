--------------------------- MODULE BillingProofs ---------------------------
(***************************************************************************)
(* Theorems about Billing, for every number of events, deliveries and      *)
(* readers, with and without crashes.                                      *)
(***************************************************************************)
EXTENDS Paywall, FiniteSetTheorems, TLAPS

-----------------------------------------------------------------------------
(* Type correctness                                                        *)

(* What the hash may hold.                                                 *)
Hash == [val : Contents, ttl : BOOLEAN, late : BOOLEAN]

LEMMA SelectCases ==
    ASSUME NEW d \in Deliveries, SelectRow(d)
    PROVE  Goto(d, "error") \/ \E r \in Deliveries \cup {None} :
                                   wh' = [wh EXCEPT ![d] = [pc |-> "write", ev |-> @.ev, row |-> r]]
<1>1. CASE Goto(d, "error")
  BY <1>1
<1>2. ASSUME NEW r \in Rows \cup {None}, wh' = [wh EXCEPT ![d] = [pc |-> "write", ev |-> @.ev, row |-> r]]
      PROVE  \E q \in Deliveries \cup {None} : wh' = [wh EXCEPT ![d] = [pc |-> "write", ev |-> @.ev, row |-> q]]
  <2>1. r \in Deliveries \cup {None}
    BY DEF Rows
  <2> QED BY <1>2, <2>1, Zenon
<1> QED BY <1>1, <1>2, Zenon DEF SelectRow

LEMMA Moves ==
    ASSUME TypeOK, NEW d \in Deliveries, NEW pc, Goto(d, pc),
           pc \in {"idle", "insert", "replay", "hset", "expire", "reread"} \cup Open \cup Ends
    PROVE  wh' \in [Deliveries -> WebhookState]
<1>1. [wh[d] EXCEPT !.pc = pc] \in WebhookState
  BY Zenon DEF TypeOK, WebhookState
<1> QED BY <1>1, Zenon DEF TypeOK, Goto

LEMMA WebhookType ==
    ASSUME TypeOK, NEW d \in Deliveries, WebhookStep(d) \/ Crash(d)
    PROVE  wh' \in [Deliveries -> WebhookState]
<1> USE DEF Open, Ends, Answers, Deaths
<1>1. CASE Verify(d)
  <2>1. (IF wh[d].ev \in recorded THEN "replay" ELSE "insert") \in {"replay", "insert"}
    OBVIOUS
  <2> QED BY <1>1, <2>1, Moves, Zenon DEF Verify
<1>2. CASE Replay(d) BY <1>2, Moves, Zenon DEF Replay
<1>3. CASE InsertEvent(d)
  <2>1. (IF wh[d].ev \in recorded THEN "error" ELSE "select") \in {"error", "select"}
    OBVIOUS
  <2> QED BY <1>3, <2>1, Moves, Zenon DEF InsertEvent
<1>4. CASE SelectRow(d)
  <2>1. CASE Goto(d, "error") BY <2>1, Moves, Zenon
  <2>2. ASSUME NEW r \in Deliveries \cup {None},
               wh' = [wh EXCEPT ![d] = [pc |-> "write", ev |-> @.ev, row |-> r]]
        PROVE  wh' \in [Deliveries -> WebhookState]
    <3>1. [pc |-> "write", ev |-> wh[d].ev, row |-> r] \in WebhookState
      BY Zenon DEF TypeOK, WebhookState
    <3> QED BY <2>2, <3>1, Zenon DEF TypeOK
  <2> QED BY <1>4, <2>1, <2>2, SelectCases, Zenon
<1>5. CASE Write(d) BY <1>5, Moves, Zenon DEF Write
<1>6. CASE Commit(d) BY <1>6, Moves, Zenon DEF Commit
<1>7. CASE CacheEvent(d) BY <1>7, Moves, Zenon DEF CacheEvent
<1>8. CASE ExpireEvent(d) BY <1>8, Moves, Zenon DEF ExpireEvent
<1>9. CASE Reread(d)
  <2>1. (IF Cardinality(Rows) = 1 THEN "ok" ELSE "error") \in {"ok", "error"}
    OBVIOUS
  <2> QED BY <1>9, <2>1, Moves, Zenon DEF Reread
<1>10. CASE Crash(d)
  <2>1. DeathAt(wh[d].pc) \in Deaths
    BY DEF DeathAt
  <2> QED BY <1>10, <2>1, Moves, Zenon DEF Crash
<1> QED BY <1>1, <1>2, <1>3, <1>4, <1>5, <1>6, <1>7, <1>8, <1>9, <1>10, Zenon DEF WebhookStep

LEMMA ReaderType ==
    ASSUME TypeOK, NEW g \in Readers, ReaderStep(g) \/ CrashReader(g)
    PROVE  rd' \in [Readers -> ReaderState] /\ cache' \in Hash
<1> USE DEF Ends, Answers, Deaths
<1>0. /\ cache.val \in Contents /\ rd[g].val \in Contents
      /\ \A r \in Rows : rows[r] \in Contents
      /\ (IF cache.val = None THEN "select" ELSE "ok") \in {"select", "ok"}
      /\ (cache.val # None) \in BOOLEAN /\ (rd[g].at < Len(log)) \in BOOLEAN
      /\ Len(log) \in Nat /\ 0 \in Nat
  <2>1. Len(log) \in Nat /\ 0 \in Nat
    BY DEF TypeOK
  <2>2. (IF cache.val = None THEN "select" ELSE "ok") \in {"select", "ok"}
    OBVIOUS
  <2>3. (cache.val # None) \in BOOLEAN /\ (rd[g].at < Len(log)) \in BOOLEAN
    OBVIOUS
  <2>4. cache.val \in Contents /\ rd[g].val \in Contents /\ \A r \in Rows : rows[r] \in Contents
    BY Zenon DEF TypeOK, ReaderState, Rows
  <2> QED BY <2>1, <2>2, <2>3, <2>4
<1>1. \A v \in Contents, n \in Nat, pc \in {"select", "ok", "hset"} :
         [pc |-> pc, val |-> v, at |-> n] \in ReaderState
  BY Zenon DEF ReaderState
<1>2. \A pc \in {"missing", "error", "expire", "ok", "uncached", "unexpired", "crashed"} :
         [rd[g] EXCEPT !.pc = pc] \in ReaderState
  BY Zenon DEF TypeOK, ReaderState
<1>3. \A v \in Contents, b \in BOOLEAN : [cache EXCEPT !.val = v, !.late = b] \in Hash
  BY DEF TypeOK, Hash
<1>4. \A b \in BOOLEAN : [cache EXCEPT !.ttl = b] \in Hash
  BY Zenon DEF TypeOK, Hash
<1>5. CASE ReadCache(g)
  <2> DEFINE pc == IF cache.val = None THEN "select" ELSE "ok"
  <2>1. rd' = [rd EXCEPT ![g] = [pc |-> pc, val |-> cache.val, at |-> 0]] /\ cache' = cache
    BY <1>5, Zenon DEF ReadCache
  <2>2. pc \in {"select", "ok"}
    BY <1>0
  <2> HIDE DEF pc
  <2>3. [pc |-> pc, val |-> cache.val, at |-> 0] \in ReaderState
    BY <1>0, <1>1, <2>2, Zenon
  <2> QED BY <2>1, <2>3, Zenon DEF TypeOK, Hash
<1>6. CASE ReadRow(g)
  <2>1. ASSUME NEW r \in Rows, rd' = [rd EXCEPT ![g] = [pc |-> "hset", val |-> rows[r], at |-> Len(log)]]
        PROVE  rd' \in [Readers -> ReaderState]
    <3>1. [pc |-> "hset", val |-> rows[r], at |-> Len(log)] \in ReaderState
      BY <1>0, <1>1, Zenon
    <3> QED BY <2>1, <3>1, Zenon DEF TypeOK
  <2> QED BY <1>2, <1>6, <2>1, Zenon DEF ReadRow, TypeOK, Hash
<1>7. CASE FillCache(g) BY <1>0, <1>2, <1>3, <1>7, Zenon DEF FillCache, TypeOK
<1>8. CASE ExpireFilled(g) BY <1>0, <1>2, <1>4, <1>8, Zenon DEF ExpireFilled, TypeOK
<1>9. CASE CrashReader(g)
  <2>1. DeathAt(rd[g].pc) \in Deaths
    BY DEF DeathAt
  <2> QED BY <1>2, <1>9, <2>1, Zenon DEF CrashReader, TypeOK, Hash
<1> QED BY <1>5, <1>6, <1>7, <1>8, <1>9, Zenon DEF ReaderStep

LEMMA TablesType ==
    ASSUME TypeOK, NEW d \in Deliveries, WebhookStep(d) \/ Crash(d)
    PROVE  /\ recorded' \subseteq Events /\ rows' \in [Deliveries -> Contents]
           /\ cache' \in Hash /\ log' \in Seq(Events)
<1>1. wh[d].ev \in Events /\ wh[d].ev \in Contents /\ wh[d].row \in Deliveries \cup {None}
  BY Zenon DEF TypeOK, WebhookState, Contents
<1>2. CASE Commit(d)
  <2>1. log' \in Seq(Events)
    BY <1>1, <1>2 DEF Commit, TypeOK
  <2>2. (IF wh[d].row = None THEN d ELSE wh[d].row) \in Deliveries
    BY <1>1
  <2>3. rows' \in [Deliveries -> Contents]
    BY <1>1, <1>2, <2>2, Zenon DEF Commit, TypeOK
  <2> QED BY <1>1, <1>2, <2>1, <2>3, Zenon DEF Commit, TypeOK, Hash
<1>3. CASE CacheEvent(d)
  <2>1. (wh[d].ev # log[Len(log)]) \in BOOLEAN
    BY Zenon
  <2>2. \A b \in BOOLEAN : [cache EXCEPT !.val = wh[d].ev, !.late = b] \in Hash
    BY <1>1 DEF TypeOK, Hash
  <2> QED BY <1>3, <2>1, <2>2, Zenon DEF CacheEvent, TypeOK
<1>4. CASE ExpireEvent(d)
  <2>1. (cache.val # None) \in BOOLEAN
    BY Zenon
  <2>2. \A b \in BOOLEAN : [cache EXCEPT !.ttl = b] \in Hash
    BY Zenon DEF TypeOK, Hash
  <2> QED BY <1>4, <2>1, <2>2, Zenon DEF ExpireEvent, TypeOK
<1> QED BY <1>2, <1>3, <1>4, Zenon
        DEF TypeOK, Hash, WebhookStep, Verify, Replay, InsertEvent, SelectRow, Write, Reread, Crash

LEMMA TypeNext == TypeOK /\ [Next]_vars => TypeOK'
<1> SUFFICES ASSUME TypeOK, [Next]_vars PROVE TypeOK'
  OBVIOUS
<1>1. ASSUME NEW d \in Deliveries, WebhookStep(d) \/ Crash(d) PROVE TypeOK'
  <2>1. rd' = rd
    BY <1>1, Zenon DEF WebhookStep, Verify, Replay, InsertEvent, SelectRow, Write, Commit, CacheEvent,
                ExpireEvent, Reread, Crash
  <2> QED BY <1>1, <2>1, WebhookType, TablesType, Zenon DEF TypeOK, Hash
<1>2. ASSUME NEW g \in Readers, ReaderStep(g) \/ CrashReader(g) PROVE TypeOK'
  <2>1. UNCHANGED <<recorded, rows, wh, log>>
    BY <1>2, Zenon DEF ReaderStep, ReadCache, ReadRow, FillCache, ExpireFilled, CrashReader
  <2> QED BY <1>2, <2>1, ReaderType, Zenon DEF TypeOK, Hash
<1>3. CASE CacheExpires
  <2>1. NoHash \in Hash
    BY Zenon DEF NoHash, Hash, Contents
  <2> QED BY <1>3, <2>1, Zenon DEF CacheExpires, TypeOK, Hash
<1>4. CASE UNCHANGED vars BY <1>4, Zenon DEF vars, TypeOK
<1> QED BY <1>1, <1>2, <1>3, <1>4, Zenon DEF Next

LEMMA TypeInit == Init => TypeOK
<1> SUFFICES ASSUME Init PROVE TypeOK
  OBVIOUS
<1>1. log \in Seq(Events) BY DEF Init
<1>2. wh \in [Deliveries -> WebhookState]
  BY DEF Init, WebhookState
<1>3. rd \in [Readers -> ReaderState]
  BY DEF Init, ReaderState, Contents
<1> QED BY <1>1, <1>2, <1>3 DEF Init, TypeOK, NoHash, Contents

\* Every reachable state of tables, hash and handlers is well typed, whatever
\* the number of events, deliveries and readers.
THEOREM TypeCorrect == Spec => []TypeOK
BY TypeInit, TypeNext, PTL DEF Spec

-----------------------------------------------------------------------------
(* The inductive invariant                                                 *)

\* The handlers past the point where their event is known to be committed.
Past == {"replay", "hset", "expire", "reread", "ok", "again"}

\* Each recorded event was committed once, and nothing else was.
Ledger ==
    /\ \A i, j \in DOMAIN log : log[i] = log[j] => i = j
    /\ \A e \in Events : e \in recorded <=> \E i \in DOMAIN log : log[i] = e
\* An open transaction holds the key of an event that is not recorded.
Keys ==
    /\ \A d \in Deliveries : wh[d].pc \in Open => wh[d].ev \notin recorded
    /\ \A d, o \in Deliveries :
          wh[d].pc \in Open /\ wh[o].pc \in Open /\ wh[o].ev = wh[d].ev => o = d
    /\ \A d \in Deliveries : wh[d].pc \in Past => wh[d].ev \in recorded
\* Events and subscription are committed together.
Paired ==
    /\ IsFiniteSet(Rows)
    /\ recorded # {} => Rows # {}
    /\ \A r \in Rows : rows[r] \in recorded
    /\ log # <<>> => \E r \in Rows : rows[r] = log[Len(log)]
\* What is cached, or about to be, was committed.
Sources ==
    /\ CacheIsCommitted
    /\ \A g \in Readers : rd[g].pc = "hset" => rd[g].val \in recorded

\* A delivery that finds its event recorded finds a subscription.
ReplayFinds == \A d \in Deliveries : wh[d].pc # "missing"

BillInv == Ledger /\ Keys /\ Paired /\ ReplayFinds /\ Sources

\* A step of one webhook that leaves the tables alone.
LEMMA HandlerKeeps ==
    ASSUME TypeOK, BillInv, NEW d \in Deliveries, NEW pc,
           UNCHANGED <<recorded, rows, rd, log>>,
           cache'.val = None \/ cache'.val = cache.val \/ cache'.val \in recorded,
           wh'[d].pc = pc, wh'[d].ev = wh[d].ev,
           \A o \in Deliveries : o # d => wh'[o] = wh[o],
           pc \in Open => \/ wh[d].pc \in Open
                          \/ /\ wh[d].ev \notin recorded
                             /\ \A o \in Deliveries : wh[o].ev = wh[d].ev => wh[o].pc \notin Open,
           pc \in Past => wh[d].ev \in recorded,
           pc # "missing"
    PROVE  BillInv'
<1>1. Keys'
  <2>1. \A o \in Deliveries : wh'[o].ev = wh[o].ev
    OBVIOUS
  <2>2. ASSUME NEW o \in Deliveries, wh'[o].pc \in Open PROVE wh[o].ev \notin recorded
    BY <2>2 DEF BillInv, Keys
  <2>3. ASSUME NEW o \in Deliveries, NEW q \in Deliveries, wh'[o].pc \in Open, wh'[q].pc \in Open,
               wh[o].ev = wh[q].ev
        PROVE  o = q
    BY <2>3 DEF BillInv, Keys
  <2>4. ASSUME NEW o \in Deliveries, wh'[o].pc \in Past PROVE wh[o].ev \in recorded
    BY <2>4 DEF BillInv, Keys
  <2> QED BY <2>1, <2>2, <2>3, <2>4 DEF Keys
<1>2. ReplayFinds' BY DEF BillInv, ReplayFinds
<1>3. Sources' BY DEF BillInv, Sources, CacheIsCommitted
<1>4. Ledger' /\ Paired' BY DEF BillInv, Ledger, Paired, Rows
<1> QED BY <1>1, <1>2, <1>3, <1>4 DEF BillInv

LEMMA CommitKeeps ==
    ASSUME TypeOK, BillInv, NEW d \in Deliveries, Commit(d)
    PROVE  BillInv'
<1> DEFINE e == wh[d].ev
           row == IF wh[d].row = None THEN d ELSE wh[d].row
<1>1. /\ wh[d].pc = "commit" /\ e \in Events /\ e \notin recorded /\ row \in Deliveries
      /\ wh' = [wh EXCEPT ![d].pc = "hset"] /\ recorded' = recorded \cup {e}
      /\ rows' = [rows EXCEPT ![row] = e] /\ log' = Append(log, e)
      /\ UNCHANGED <<cache, rd>>
  BY DEF Commit, Goto, TypeOK, WebhookState, BillInv, Keys, Open
<1>2. /\ log \in Seq(Events) /\ Len(log') = Len(log) + 1 /\ Len(log) \in Nat
      /\ DOMAIN log' = 1..(Len(log) + 1) /\ DOMAIN log = 1..Len(log)
      /\ log'[Len(log) + 1] = e /\ \A i \in DOMAIN log : log'[i] = log[i]
  BY <1>1 DEF TypeOK
<1>3. wh'[d].pc = "hset" /\ wh'[d].ev = e /\ \A o \in Deliveries : o # d => wh'[o] = wh[o]
  BY <1>1 DEF TypeOK, WebhookState
<1>4. /\ rows'[row] = e /\ \A r \in Deliveries : r # row => rows'[r] = rows[r]
      /\ e # None /\ Rows' = Rows \cup {row}
  BY <1>1, BillingAssumption DEF TypeOK, Rows
<1> HIDE DEF e, row
<1>5. Ledger'
  <2>1. \A i \in DOMAIN log : log[i] # e
    BY <1>1, <1>2 DEF BillInv, Ledger
  <2>2. \A i \in DOMAIN log' : i \in DOMAIN log \/ i = Len(log) + 1
    BY <1>2
  <2>3. \A i, j \in DOMAIN log' : log'[i] = log'[j] => i = j
    BY <1>2, <2>1, <2>2 DEF BillInv, Ledger
  <2>4. \A x \in Events : x \in recorded' <=> \E i \in DOMAIN log' : log'[i] = x
    <3> TAKE x \in Events
    <3>1. CASE x = e
      BY <1>1, <1>2, <3>1
    <3>2. CASE x # e
      <4>1. x \in recorded' <=> x \in recorded
        BY <1>1, <3>2
      <4>2. (\E i \in DOMAIN log' : log'[i] = x) <=> \E i \in DOMAIN log : log[i] = x
        BY <1>2, <2>2, <3>2
      <4> QED BY <4>1, <4>2 DEF BillInv, Ledger
    <3> QED BY <3>1, <3>2
  <2> QED BY <2>3, <2>4 DEF Ledger
<1>6. Keys'
  <2>1. \A o \in Deliveries : wh'[o].ev = wh[o].ev
    BY <1>3 DEF e
  <2>2. ASSUME NEW o \in Deliveries, wh'[o].pc \in Open PROVE o # d /\ wh[o].pc \in Open /\ wh[o].ev # e
    <3>1. o # d BY <1>3, <2>2 DEF Open
    <3>2. wh[o].pc \in Open BY <1>3, <2>2, <3>1
    <3> QED BY <1>1, <3>1, <3>2 DEF BillInv, Keys, Open, e
  <2>3. ASSUME NEW o \in Deliveries, wh'[o].pc \in Past PROVE wh[o].ev \in recorded'
    BY <1>1, <1>3, <2>3 DEF BillInv, Keys, e
  <2> QED BY <1>1, <2>1, <2>2, <2>3 DEF BillInv, Keys
<1>7. Paired'
  <2>1. \A r \in Rows' : rows'[r] \in recorded'
    BY <1>1, <1>4 DEF BillInv, Paired
  <2>2. \E r \in Rows' : rows'[r] = log'[Len(log')]
    BY <1>2, <1>4
  <2>3. IsFiniteSet(Rows')
    BY <1>4, FS_AddElement DEF BillInv, Paired
  <2> QED BY <1>4, <2>1, <2>2, <2>3 DEF Paired
<1>8. ReplayFinds'
  BY <1>3 DEF BillInv, ReplayFinds
<1>9. Sources'
  BY <1>1 DEF BillInv, Sources, CacheIsCommitted
<1> QED BY <1>5, <1>6, <1>7, <1>8, <1>9 DEF BillInv

LEMMA WebhookKeeps ==
    ASSUME TypeOK, BillInv, NEW d \in Deliveries, WebhookStep(d) \/ Crash(d)
    PROVE  BillInv'
<1>1. ASSUME NEW pc, Goto(d, pc)
      PROVE  /\ wh'[d].pc = pc /\ wh'[d].ev = wh[d].ev
             /\ \A o \in Deliveries : o # d => wh'[o] = wh[o]
  BY <1>1 DEF Goto, TypeOK, WebhookState
<1> USE DEF Open, Past, Ends, Answers, Deaths
<1>2. CASE Verify(d)
  BY <1>1, <1>2, HandlerKeeps DEF Verify
<1>3. CASE Replay(d)
  <2>1. Rows # {}
    BY <1>3 DEF Replay, BillInv, Keys, Paired
  <2>2. wh[d].ev \in recorded
    BY <1>3 DEF Replay, BillInv, Keys
  <2> QED BY <1>1, <1>3, <2>1, <2>2, HandlerKeeps DEF Replay
<1>4. CASE InsertEvent(d)
  BY <1>1, <1>4, HandlerKeeps DEF InsertEvent
<1>5. CASE SelectRow(d)
  <2>1. UNCHANGED <<recorded, rows, cache, rd, log>> /\ wh[d].pc = "select"
    BY <1>5 DEF SelectRow
  <2>2. CASE Goto(d, "error")
    BY <1>1, <2>1, <2>2, HandlerKeeps
  <2>3. ASSUME NEW r, wh' = [wh EXCEPT ![d] = [pc |-> "write", ev |-> @.ev, row |-> r]] PROVE BillInv'
    <3>1. /\ wh'[d].pc = "write" /\ wh'[d].ev = wh[d].ev
          /\ \A o \in Deliveries : o # d => wh'[o] = wh[o]
      BY <2>3 DEF TypeOK, WebhookState
    <3> QED BY <2>1, <3>1, HandlerKeeps
  <2> QED BY <1>5, <2>2, <2>3 DEF SelectRow
<1>6. CASE Write(d)
  BY <1>1, <1>6, HandlerKeeps DEF Write
<1>7. CASE Commit(d)
  BY <1>7, CommitKeeps
<1>8. CASE CacheEvent(d)
  <2>1. wh[d].ev \in recorded
    BY <1>8 DEF CacheEvent, BillInv, Keys
  <2>2. cache'.val = wh[d].ev
    BY <1>8 DEF CacheEvent, TypeOK
  <2> QED BY <1>1, <1>8, <2>1, <2>2, HandlerKeeps DEF CacheEvent
<1>9. CASE ExpireEvent(d)
  <2>1. wh[d].ev \in recorded
    BY <1>9 DEF ExpireEvent, BillInv, Keys
  <2>2. cache'.val = cache.val
    BY <1>9 DEF ExpireEvent, TypeOK
  <2> QED BY <1>1, <1>9, <2>1, <2>2, HandlerKeeps DEF ExpireEvent
<1>10. CASE Reread(d)
  <2>1. wh[d].ev \in recorded
    BY <1>10 DEF Reread, BillInv, Keys
  <2> QED BY <1>1, <1>10, <2>1, HandlerKeeps DEF Reread
<1>11. CASE Crash(d)
  BY <1>1, <1>11, HandlerKeeps DEF Crash, DeathAt
<1> QED BY <1>2, <1>3, <1>4, <1>5, <1>6, <1>7, <1>8, <1>9, <1>10, <1>11 DEF WebhookStep

LEMMA ReaderKeeps ==
    ASSUME TypeOK, BillInv, NEW g \in Readers, ReaderStep(g) \/ CrashReader(g)
    PROVE  BillInv'
<1>1. UNCHANGED <<recorded, rows, wh, log>>
  BY DEF ReaderStep, ReadCache, ReadRow, FillCache, ExpireFilled, CrashReader
<1>2. \A h \in Readers : h # g => rd'[h] = rd[h]
  BY DEF ReaderStep, ReadCache, ReadRow, FillCache, ExpireFilled, CrashReader, TypeOK
<1>3. cache'.val = cache.val \/ cache'.val = None \/ cache'.val \in recorded
  BY DEF ReaderStep, ReadCache, ReadRow, FillCache, ExpireFilled, CrashReader, TypeOK,
         BillInv, Sources
<1>4. rd'[g].pc = "hset" => rd'[g].val \in recorded
  <2>a. rd \in [Readers -> ReaderState]
    BY DEF TypeOK
  <2>1. rd'[g].pc # "hset" \/ ReadRow(g)
    BY <2>a DEF ReaderStep, ReadCache, FillCache, ExpireFilled, CrashReader, DeathAt, ReaderState
  <2>2. CASE ReadRow(g)
    <3>1. rd'[g].pc = "hset" => \E r \in Rows : rd'[g].val = rows[r]
      BY <2>a, <2>2 DEF ReadRow, ReaderState
    <3> QED BY <3>1 DEF BillInv, Paired
  <2> QED BY <2>1, <2>2
<1>5. Sources'
  BY <1>1, <1>2, <1>3, <1>4 DEF BillInv, Sources, CacheIsCommitted
<1> QED BY <1>1, <1>5 DEF BillInv, Ledger, Keys, Paired, ReplayFinds, Rows

LEMMA BillNext == TypeOK /\ BillInv /\ [Next]_vars => BillInv'
<1> SUFFICES ASSUME TypeOK, BillInv, [Next]_vars PROVE BillInv'
  OBVIOUS
<1>1. CASE CacheExpires \/ UNCHANGED vars
  <2>1. UNCHANGED <<recorded, rows, wh, rd, log>>
    BY <1>1 DEF CacheExpires, vars
  <2>2. cache'.val = None \/ cache'.val = cache.val
    BY <1>1 DEF CacheExpires, NoHash, vars
  <2> QED BY <2>1, <2>2 DEF BillInv, Ledger, Keys, Paired, ReplayFinds, Sources, Rows,
                            CacheIsCommitted
<1> QED BY <1>1, WebhookKeeps, ReaderKeeps DEF Next

LEMMA BillInit == Init => BillInv
<1> SUFFICES ASSUME Init PROVE BillInv
  OBVIOUS
<1>1. Rows = {} /\ DOMAIN log = {}
  BY DEF Init, Rows
<1>2. \A d \in Deliveries : wh[d].pc = "idle"
  BY DEF Init
<1> QED BY <1>1, <1>2, FS_EmptySet DEF Init, BillInv, Ledger, Keys, Paired, ReplayFinds, Sources, Open, Past,
                          CacheIsCommitted, NoHash

LEMMA BillAlways == Spec => [](TypeOK /\ BillInv)
BY TypeInit, TypeNext, BillInit, BillNext, PTL DEF Spec

\* An acknowledged event was applied exactly once, however many deliveries of it
\* overlap, fail or are repeated.
THEOREM AppliedOnce == Spec => []AckedOnce
<1>1. TypeOK /\ BillInv => AckedOnce
  <2> SUFFICES ASSUME TypeOK, BillInv, NEW d \in Deliveries, wh[d].pc \in {"ok", "again"}
               PROVE  Cardinality({i \in DOMAIN log : log[i] = wh[d].ev}) = 1
    BY DEF AckedOnce
  <2>1. wh[d].ev \in Events /\ wh[d].ev \in recorded
    BY DEF BillInv, Keys, Past, TypeOK, WebhookState
  <2>2. PICK i \in DOMAIN log : log[i] = wh[d].ev
    BY <2>1 DEF BillInv, Ledger
  <2>3. {j \in DOMAIN log : log[j] = wh[d].ev} = {i}
    BY <2>2 DEF BillInv, Ledger
  <2> QED BY <2>3, FS_Singleton
<1> QED BY <1>1, BillAlways, PTL

\* A delivery whose event is recorded always finds a subscription.
THEOREM ReplaysFind == Spec => []ReplayFinds
<1>1. BillInv => ReplayFinds BY DEF BillInv
<1> QED BY <1>1, BillAlways, PTL

\* The hash never shows what was not committed.
THEOREM CacheHasSource == Spec => []CacheIsCommitted
<1>1. BillInv => CacheIsCommitted BY DEF BillInv, Sources
<1> QED BY <1>1, BillAlways, PTL

\* Where the hash may differ from the row: a reader that is about to fill it holds the
\* last event, unless one was committed since it read; a hash that nobody wrote late
\* holds the last event, unless the webhook of that event has not written, or died.
LagInv ==
    /\ \A g \in Readers : rd[g].pc = "hset" =>
          rd[g].at <= Len(log) /\ (rd[g].at = Len(log) => rd[g].val = log[Len(log)])
    /\ cache.val # None /\ ~cache.late =>
          \/ cache.val = log[Len(log)]
          \/ \E d \in Deliveries : wh[d].ev = log[Len(log)] /\ wh[d].pc \in {"hset", "uncached"}

LEMMA OneRow ==
    ASSUME IsFiniteSet(Rows), Cardinality(Rows) = 1, NEW r \in Rows, NEW q \in Rows
    PROVE  q = r
<1>1. PICK x : Rows = {x}
  BY FS_Singleton
<1> QED BY <1>1

LEMMA RowsWereLogged == TypeOK /\ BillInv /\ recorded # {} => log # <<>>
BY DEF BillInv, Ledger, TypeOK

\* A step that leaves the log, the readers and the content of the hash alone.
LEMMA LagKept ==
    ASSUME TypeOK, LagInv, NEW d \in Deliveries, UNCHANGED <<log, rd>>,
           cache'.val = cache.val, cache'.late = cache.late,
           \A o \in Deliveries : o # d => wh'[o] = wh[o],
           \/ wh[d].pc \notin {"hset", "uncached"}
           \/ wh'[d].ev = wh[d].ev /\ wh'[d].pc \in {"hset", "uncached"}
    PROVE  LagInv'
<1>1. ASSUME NEW o \in Deliveries, wh[o].ev = log[Len(log)], wh[o].pc \in {"hset", "uncached"}
      PROVE  wh'[o].ev = log'[Len(log')] /\ wh'[o].pc \in {"hset", "uncached"}
  BY <1>1
<1> QED BY <1>1 DEF LagInv

LEMMA WebhookLag ==
    ASSUME TypeOK, BillInv, LagInv, NEW d \in Deliveries, WebhookStep(d) \/ Crash(d)
    PROVE  LagInv'
<1>a. /\ cache \in Hash /\ wh \in [Deliveries -> WebhookState] /\ log \in Seq(Events)
      /\ rd \in [Readers -> ReaderState]
  BY Zenon DEF TypeOK, Hash
<1>1. CASE Commit(d)
  <2>1. /\ log' = Append(log, wh[d].ev) /\ UNCHANGED <<rd, cache>>
        /\ wh'[d].ev = wh[d].ev /\ wh'[d].pc = "hset"
    BY <1>a, <1>1 DEF Commit, Goto, WebhookState
  <2>2. Len(log') = Len(log) + 1 /\ log'[Len(log')] = wh[d].ev /\ Len(log) \in Nat
    BY <1>a, <2>1 DEF WebhookState
  <2>3. ASSUME NEW g \in Readers, rd[g].pc = "hset" PROVE rd[g].at < Len(log')
    BY <1>a, <2>2, <2>3 DEF LagInv, ReaderState
  <2> QED BY <1>a, <2>1, <2>2, <2>3 DEF LagInv, ReaderState
<1>2. CASE CacheEvent(d)
  <2>1. cache' = [cache EXCEPT !.val = wh[d].ev, !.late = (wh[d].ev # log[Len(log)])]
    BY <1>2, Zenon DEF CacheEvent
  <2>2. cache'.val = wh[d].ev /\ cache'.late = (wh[d].ev # log[Len(log)])
    BY <1>a, <2>1 DEF Hash
  <2>3. UNCHANGED <<rd, log>>
    BY <1>2, Zenon DEF CacheEvent
  <2>4. ~cache'.late => cache'.val = log'[Len(log')]
    BY <2>2, <2>3, Zenon
  <2> QED BY <2>3, <2>4 DEF LagInv
<1>3. CASE ExpireEvent(d)
  <2>1. cache'.val = cache.val /\ cache'.late = cache.late
    BY <1>a, <1>3 DEF ExpireEvent, Hash
  <2>2. wh[d].pc = "expire" /\ UNCHANGED <<log, rd>> /\ \A o \in Deliveries : o # d => wh'[o] = wh[o]
    BY <1>a, <1>3 DEF ExpireEvent, Goto
  <2> QED BY <2>1, <2>2, LagKept
<1>4. CASE Crash(d)
  <2>1. /\ UNCHANGED <<log, rd, cache>> /\ \A o \in Deliveries : o # d => wh'[o] = wh[o]
        /\ wh'[d].ev = wh[d].ev /\ wh'[d].pc = DeathAt(wh[d].pc) /\ wh[d].pc # "uncached"
    BY <1>a, <1>4 DEF Crash, Goto, WebhookState, Ends, Deaths
  <2>2. wh[d].pc = "hset" => wh'[d].pc = "uncached"
    BY <2>1 DEF DeathAt
  <2> QED BY <2>1, <2>2, LagKept
<1>5. ASSUME Verify(d) \/ Replay(d) \/ InsertEvent(d) \/ SelectRow(d) \/ Write(d) \/ Reread(d)
      PROVE  LagInv'
  <2>1. /\ UNCHANGED <<log, rd, cache>> /\ \A o \in Deliveries : o # d => wh'[o] = wh[o]
        /\ wh[d].pc \notin {"hset", "uncached"}
    BY <1>a, <1>5 DEF Verify, Replay, InsertEvent, SelectRow, Write, Reread, Goto
  <2> QED BY <2>1, LagKept
<1> QED BY <1>1, <1>2, <1>3, <1>4, <1>5, Zenon DEF WebhookStep

LEMMA ReaderLag ==
    ASSUME TypeOK, BillInv, LagInv, NEW g \in Readers, ReaderStep(g) \/ CrashReader(g)
    PROVE  LagInv'
<1>a. /\ cache \in Hash /\ log \in Seq(Events) /\ rd \in [Readers -> ReaderState] /\ Len(log) \in Nat
  BY DEF TypeOK, Hash
<1>1. UNCHANGED <<log, wh>> /\ \A h \in Readers : h # g => rd'[h] = rd[h]
  BY DEF ReaderStep, ReadCache, ReadRow, FillCache, ExpireFilled, CrashReader, TypeOK
<1>2. ASSUME rd'[g].pc # "hset", cache'.val = cache.val, cache'.late = cache.late
      PROVE  LagInv'
  BY <1>1, <1>2 DEF LagInv
<1>3. CASE ReadCache(g)
  <2>1. rd'[g].pc # "hset" /\ UNCHANGED cache
    BY <1>a, <1>3 DEF ReadCache
  <2> QED BY <1>2, <2>1
<1>4. CASE ReadRow(g)
  <2>1. UNCHANGED cache
    BY <1>4 DEF ReadRow
  <2>2. CASE rd'[g].pc # "hset"
    BY <1>2, <2>1, <2>2
  <2>3. CASE rd'[g].pc = "hset"
    <3>1. PICK r \in Rows : Cardinality(Rows) = 1 /\ rd'[g] = [pc |-> "hset", val |-> rows[r], at |-> Len(log)]
      BY <1>a, <1>4, <2>3 DEF ReadRow, ReaderState
    <3>2. log # <<>>
      BY RowsWereLogged, <3>1 DEF BillInv, Paired
    <3>3. PICK q \in Rows : rows[q] = log[Len(log)]
      BY <3>2 DEF BillInv, Paired
    <3>4. q = r
      BY <3>1, OneRow DEF BillInv, Paired
    <3>5. rd'[g].val = log[Len(log)] /\ rd'[g].at = Len(log)
      BY <3>1, <3>3, <3>4
    <3> QED BY <1>a, <1>1, <2>1, <3>5 DEF LagInv
  <2> QED BY <2>2, <2>3
<1>5. CASE FillCache(g)
  <2>1. cache' = [cache EXCEPT !.val = rd[g].val, !.late = (rd[g].at < Len(log))]
    BY <1>5, Zenon DEF FillCache
  <2>2. cache'.val = rd[g].val /\ (cache'.late <=> rd[g].at < Len(log))
    BY <1>a, <2>1 DEF Hash
  <2>3. rd'[g].pc # "hset" /\ rd[g].pc = "hset" /\ rd[g].at \in Nat
    BY <1>a, <1>5 DEF FillCache, ReaderState
  <2>4. rd[g].at <= Len(log) /\ (rd[g].at = Len(log) => rd[g].val = log[Len(log)])
    BY <2>3, Zenon DEF LagInv
  <2>5. ~cache'.late => cache'.val = log[Len(log)]
    BY <1>a, <2>2, <2>3, <2>4
  <2> QED BY <1>1, <2>3, <2>5 DEF LagInv
<1>6. CASE ExpireFilled(g)
  <2>1. rd'[g].pc # "hset" /\ cache'.val = cache.val /\ cache'.late = cache.late
    BY <1>a, <1>6 DEF ExpireFilled, Hash, ReaderState
  <2> QED BY <1>2, <2>1
<1>7. CASE CrashReader(g)
  <2>1. rd'[g].pc # "hset" /\ UNCHANGED cache
    BY <1>a, <1>7 DEF CrashReader, DeathAt, ReaderState
  <2> QED BY <1>2, <2>1
<1> QED BY <1>3, <1>4, <1>5, <1>6, <1>7, Zenon DEF ReaderStep

LEMMA LagNext == TypeOK /\ BillInv /\ LagInv /\ [Next]_vars => LagInv'
<1> SUFFICES ASSUME TypeOK, BillInv, LagInv, [Next]_vars PROVE LagInv'
  OBVIOUS
<1>1. CASE CacheExpires
  BY <1>1 DEF CacheExpires, NoHash, LagInv
<1>2. CASE UNCHANGED vars
  BY <1>2 DEF vars, LagInv
<1> QED BY <1>1, <1>2, WebhookLag, ReaderLag, Zenon DEF Next

\* However webhooks, readers, deaths and expiry overlap, the hash differs from the
\* rows only while the last webhook has still to write it, when that webhook died
\* before it could, or when its writer was overtaken by another commit.
THEOREM LagsHaveCause == Spec => []LagHasCause
<1>1. Init => LagInv
  BY DEF Init, LagInv, NoHash
<1>2. TypeOK /\ BillInv /\ LagInv => LagHasCause
  <2> SUFFICES ASSUME TypeOK, BillInv, LagInv, Stale, ~cache.late
               PROVE  \E d \in Deliveries : /\ wh[d].ev = log[Len(log)]
                                            /\ wh[d].pc \in {"hset", "uncached"}
    BY DEF LagHasCause
  <2>1. log # <<>>
    BY RowsWereLogged DEF Stale, BillInv, Sources, CacheIsCommitted
  <2>2. cache.val # log[Len(log)]
    BY <2>1 DEF Stale, BillInv, Paired
  <2> QED BY <2>2 DEF LagInv, Stale
<1> QED BY <1>1, <1>2, LagNext, BillAlways, PTL DEF Spec

\* A hash without TTL is owed one by a handler between HSET and EXPIRE, or by one
\* that died there.
TTLOwed ==
    cache.val # None /\ ~cache.ttl =>
       \/ \E d \in Deliveries : wh[d].pc = "expire"
       \/ \E g \in Readers : rd[g].pc = "expire"
       \/ Interrupted

LEMMA OwedNext == TypeOK /\ TTLOwed /\ [Next]_vars => TTLOwed'
<1> SUFFICES ASSUME TypeOK, TTLOwed, [Next]_vars PROVE TTLOwed'
  OBVIOUS
<1>a. /\ cache \in Hash
      /\ wh \in [Deliveries -> WebhookState] /\ rd \in [Readers -> ReaderState]
  BY Zenon DEF TypeOK, Hash
\* Whoever is at EXPIRE or dead stays there, but for the one that sets the TTL.
<1>b. ASSUME NEW d \in Deliveries, NEW pc, Goto(d, pc), UNCHANGED rd
      PROVE  /\ wh'[d].pc = pc /\ \A o \in Deliveries \ {d} : wh'[o] = wh[o]
             /\ rd' = rd
  BY <1>a, <1>b DEF Goto, WebhookState
<1>1. ASSUME NEW d \in Deliveries, NEW pc, Goto(d, pc), UNCHANGED <<cache, rd>>,
             wh[d].pc \notin {"expire", "unexpired"}
      PROVE  TTLOwed'
  BY <1>1, <1>b DEF TTLOwed, Interrupted
<1>2. ASSUME NEW d \in Deliveries, WebhookStep(d) PROVE TTLOwed'
  <2>1. CASE SelectRow(d)
    <3>1. /\ wh[d].pc = "select" /\ UNCHANGED <<cache, rd>>
          /\ \A o \in Deliveries \ {d} : wh'[o] = wh[o]
      BY <1>a, <2>1 DEF SelectRow, Goto
    <3> QED BY <3>1 DEF TTLOwed, Interrupted
  <2>2. CASE CacheEvent(d)
    <3>1. wh'[d].pc = "expire"
      BY <1>b, <2>2 DEF CacheEvent
    <3> QED BY <3>1 DEF TTLOwed
  <2>3. CASE ExpireEvent(d)
    <3>1. cache' = [cache EXCEPT !.ttl = (cache.val # None)]
      BY <2>3, Zenon DEF ExpireEvent
    <3>2. cache'.val = cache.val /\ cache'.ttl = (cache.val # None)
      BY <1>a, <3>1
    <3> QED BY <3>2 DEF TTLOwed
  <2>4. CASE Verify(d)
    BY <1>1, <2>4 DEF Verify
  <2>5. CASE InsertEvent(d)
    BY <1>1, <2>5 DEF InsertEvent
  <2>6. CASE Replay(d) \/ Write(d) \/ Commit(d)
    BY <1>1, <2>6 DEF Replay, Write, Commit
  <2>7. CASE Reread(d)
    BY <1>1, <2>7 DEF Reread
  <2> QED BY <1>2, <2>1, <2>2, <2>3, <2>4, <2>5, <2>6, <2>7, Zenon DEF WebhookStep
<1>3. ASSUME NEW d \in Deliveries, Crash(d) PROVE TTLOwed'
  BY <1>a, <1>b, <1>3 DEF Crash, TTLOwed, Interrupted, DeathAt, Ends, Deaths
<1>4. ASSUME NEW g \in Readers, ReaderStep(g) \/ CrashReader(g) PROVE TTLOwed'
  <2>1. /\ wh' = wh /\ \A h \in Readers \ {g} : rd'[h] = rd[h]
    BY <1>a, <1>4 DEF ReaderStep, ReadCache, ReadRow, FillCache, ExpireFilled, CrashReader
  <2>2. CASE (ReadCache(g) \/ ReadRow(g)) /\ UNCHANGED cache
    <3>1. rd[g].pc \notin {"expire", "unexpired"}
      BY <2>2 DEF ReadCache, ReadRow
    <3> QED BY <2>1, <2>2, <3>1 DEF TTLOwed, Interrupted
  <2>3. CASE FillCache(g)
    <3>1. rd'[g].pc = "expire"
      BY <1>a, <2>3 DEF FillCache, ReaderState
    <3> QED BY <3>1 DEF TTLOwed
  <2>4. CASE ExpireFilled(g)
    <3>1. cache' = [cache EXCEPT !.ttl = (cache.val # None)]
      BY <2>4, Zenon DEF ExpireFilled
    <3>2. cache'.val = cache.val /\ cache'.ttl = (cache.val # None)
      BY <1>a, <3>1
    <3> QED BY <3>2 DEF TTLOwed
  <2>5. CASE CrashReader(g)
    <3>1. UNCHANGED cache /\ rd'[g].pc = DeathAt(rd[g].pc) /\ rd[g].pc # "unexpired"
      BY <1>a, <2>5 DEF CrashReader, ReaderState, Ends, Deaths
    <3>2. rd[g].pc = "expire" => rd'[g].pc = "unexpired"
      BY <3>1 DEF DeathAt
    <3> QED BY <2>1, <3>1, <3>2 DEF TTLOwed, Interrupted
  <2> QED BY <1>4, <2>2, <2>3, <2>4, <2>5, Zenon DEF ReaderStep, ReadCache, ReadRow
<1>5. CASE CacheExpires
  BY <1>5 DEF CacheExpires, NoHash, TTLOwed
<1>6. CASE UNCHANGED vars
  BY <1>6 DEF vars, TTLOwed, Interrupted
<1> QED BY <1>2, <1>3, <1>4, <1>5, <1>6, Zenon DEF Next

\* However webhooks, readers and expiry overlap, the hash has a TTL or somebody who
\* is about to give it one, unless a handler died between HSET and EXPIRE (what
\* StaleEnds needs beside fairness: a fill that comes after an expiry does not stay
\* for ever).
THEOREM HashIsOwedItsTTL == Spec => []TTLOwed
<1>1. Init => TTLOwed
  BY DEF Init, NoHash, TTLOwed
<1> QED BY <1>1, TypeInit, TypeNext, OwedNext, PTL DEF Spec

-----------------------------------------------------------------------------
(* Billing and Access together                                             *)

\* The proofs about Access, read over what Billing keeps.
Proved == INSTANCE AccessProofs
          WITH Contents <- {ContentOf[e] : e \in Events},
               sub      <- Subscription,
               cache    <- Shown(cache.val),
               known    <- {ContentOf[e] : e \in recorded}

(* The one row is the last event; with two rows it is so by definition.    *)
RowIsLastEvent == Subscription = Shown(LastEvent)

LEMMA RowShown == TypeOK /\ BillInv => RowIsLastEvent
<1> SUFFICES ASSUME TypeOK, BillInv PROVE Subscription = Shown(LastEvent)
  BY DEF RowIsLastEvent
<1>1. ASSUME NEW r \in Rows, Rows = {r} PROVE rows[CHOOSE q \in Rows : TRUE] = LastEvent
  <2>1. (CHOOSE q \in Rows : TRUE) = r
    BY <1>1
  <2>2. log # <<>>
    BY <1>1, RowsWereLogged DEF BillInv, Paired
  <2>3. rows[r] = log[Len(log)]
    BY <1>1, <2>2 DEF BillInv, Paired
  <2> QED BY <2>1, <2>2, <2>3 DEF LastEvent
<1> QED BY <1>1 DEF Subscription

LEMMA RowShownNext == (TypeOK /\ BillInv)' => RowIsLastEvent'
BY RowShown, PTL

(* What a step of Billing means for who reads row and hash.                *)
LEMMA BillingEffect ==
    ASSUME TypeOK, BillInv, [Next]_vars
    PROVE  \/ /\ UNCHANGED <<recorded, log>>
              /\ cache'.val \in recorded \cup {None, cache.val}
           \/ /\ UNCHANGED cache
              /\ \E e \in Events : recorded' = recorded \cup {e} /\ log' = Append(log, e)
<1>1. ASSUME NEW d \in Deliveries, Commit(d)
      PROVE  /\ UNCHANGED cache
             /\ \E e \in Events : recorded' = recorded \cup {e} /\ log' = Append(log, e)
  BY <1>1 DEF Commit, TypeOK, WebhookState
<1>2. ASSUME NEW d \in Deliveries, CacheEvent(d)
      PROVE  UNCHANGED <<recorded, log>> /\ cache'.val \in recorded \cup {None, cache.val}
  BY <1>2 DEF CacheEvent, TypeOK, WebhookState, BillInv, Keys, Past
<1>3. ASSUME NEW d \in Deliveries, ExpireEvent(d)
      PROVE  UNCHANGED <<recorded, log>> /\ cache'.val \in recorded \cup {None, cache.val}
  BY <1>3 DEF ExpireEvent, TypeOK
<1>4. ASSUME NEW g \in Readers, ReaderStep(g) \/ CrashReader(g)
      PROVE  UNCHANGED <<recorded, log>> /\ cache'.val \in recorded \cup {None, cache.val}
  BY <1>4 DEF ReaderStep, ReadCache, ReadRow, FillCache, ExpireFilled, CrashReader, TypeOK,
              BillInv, Sources
<1>5. ASSUME NEW d \in Deliveries, WebhookStep(d) \/ Crash(d)
      PROVE  \/ Commit(d) \/ CacheEvent(d) \/ ExpireEvent(d)
             \/ UNCHANGED <<recorded, log>> /\ cache'.val \in recorded \cup {None, cache.val}
  BY <1>5 DEF WebhookStep, Verify, Replay, InsertEvent, SelectRow, Write, Reread, Crash
<1>6. CASE CacheExpires \/ UNCHANGED vars
  BY <1>6 DEF CacheExpires, NoHash, vars
<1> QED BY <1>1, <1>2, <1>3, <1>4, <1>5, <1>6 DEF Next

(* It is what the guard's view allows: a commit, a write of the hash of a  *)
(* content that was committed, an expiry, or nothing that can be seen.     *)
LEMMA GuardSeesBilling ==
    ASSUME Guard!AccessAssumption, TypeOK, TypeOK', BillInv, BillInv', [Next]_vars,
           UNCHANGED guardVars
    PROVE  [Guard!Next]_Guard!vars
<1> DEFINE contents == {ContentOf[e] : e \in Events}
           known    == {ContentOf[e] : e \in recorded}
<1>1. Subscription = Shown(LastEvent)
  BY RowShown DEF RowIsLastEvent
<1>2. Subscription' = Shown(LastEvent')
  BY RowShownNext DEF RowIsLastEvent, Shown
<1>3. \A e \in Events : Shown(e) = ContentOf[e] /\ ContentOf[e] # Shown(None)
  BY BillingAssumption DEF Shown, Guard!AccessAssumption, Guard!Content
<1>4. UNCHANGED <<now, reg, blockedUntil, revokedUntil, win, rq>>
  BY DEF guardVars
<1>5. ASSUME UNCHANGED <<recorded, log>>, cache'.val \in recorded \cup {None, cache.val}
      PROVE  [Guard!Next]_Guard!vars
  <2>1. LastEvent' = LastEvent /\ known' = known
    BY <1>5 DEF LastEvent
  <2>2. Subscription' = Subscription
    BY <1>1, <1>2, <2>1
  <2>3. CASE Shown(cache'.val) = Shown(cache.val)
    BY <1>4, <2>1, <2>2, <2>3 DEF Guard!vars
  <2>4. CASE Shown(cache'.val) # Shown(cache.val) /\ cache'.val \in recorded
    <3>1. ContentOf[cache'.val] \in known /\ ContentOf[cache'.val] = Shown(cache'.val)
      BY <1>3, <2>4 DEF TypeOK
    <3>2. Guard!FillCache(ContentOf[cache'.val])
      BY <1>4, <2>1, <2>2, <2>4, <3>1 DEF Guard!FillCache, Guard!locks
    <3> QED BY <3>1, <3>2 DEF Guard!Next
  <2>5. CASE Shown(cache'.val) # Shown(cache.val) /\ cache'.val = None
    <3>1. Guard!CacheExpires
      BY <1>4, <2>1, <2>2, <2>5 DEF Guard!CacheExpires, Guard!locks, Guard!NoContent, Shown
    <3> QED BY <3>1 DEF Guard!Next
  <2> QED BY <1>5, <2>3, <2>4, <2>5
<1>6. ASSUME UNCHANGED cache, NEW e \in Events, recorded' = recorded \cup {e}, log' = Append(log, e)
      PROVE  [Guard!Next]_Guard!vars
  <2>1. LastEvent' = e
    <3>1. log \in Seq(Events)
      BY DEF TypeOK
    <3>2. log' # <<>> /\ log'[Len(log')] = e
      BY <1>6, <3>1
    <3> QED BY <3>2 DEF LastEvent
  <2>2. Subscription' = ContentOf[e] /\ known' = known \cup {ContentOf[e]}
    BY <1>2, <1>3, <1>6, <2>1
  <2>3. CASE ContentOf[e] = Subscription
    <3>1. LastEvent \in Events
      BY <1>1, <1>3, <2>3 DEF LastEvent, TypeOK
    <3>2. LastEvent \in recorded
      BY <1>1, <1>3, <2>3, <3>1 DEF LastEvent, TypeOK, BillInv, Ledger
    <3>3. ContentOf[e] \in known
      BY <1>1, <1>3, <2>3, <3>1, <3>2
    <3> QED BY <1>4, <1>6, <2>2, <2>3, <3>3 DEF Guard!vars
  <2>4. CASE ContentOf[e] # Subscription
    <3>1. Guard!CommitWebhook(ContentOf[e])
      BY <1>4, <1>6, <2>2, <2>4 DEF Guard!CommitWebhook, Guard!locks
    <3> QED BY <3>1 DEF Guard!Next
  <2> QED BY <2>3, <2>4
<1> QED BY <1>5, <1>6, BillingEffect

(* Its own steps are those of Access; with two rows it may only crash.     *)
LEMMA GuardMoves ==
    ASSUME [PaywallNext]_<<vars, guardVars>>
    PROVE  [Next]_vars /\ (UNCHANGED guardVars \/ Guard!Next)
<1>1. ASSUME NEW r \in Requests, GuardStep(r) PROVE UNCHANGED vars /\ Guard!Next
  BY <1>1 DEF GuardStep, Guard!Next, Guard!RequestStep
<1> QED BY <1>1 DEF PaywallNext, Guard!Next

\* What Access takes for granted of row and hash is what Billing does: with the
\* webhooks behind it, the guard behaves as Access says.
THEOREM GuardImplemented ==
    ASSUME Guard!AccessAssumption
    PROVE  PaywallSpec => Guard!Spec
<1>1. PaywallInit => Init /\ Guard!Init
  BY DEF PaywallInit
<1>2. [PaywallNext]_<<vars, guardVars>> => [Next]_vars
  BY GuardMoves
<1>3. PaywallSpec => Spec
  BY <1>1, <1>2, PTL DEF PaywallSpec, Spec
<1>4. TypeOK /\ BillInv /\ (TypeOK /\ BillInv)' /\ [PaywallNext]_<<vars, guardVars>>
         => [Guard!Next]_Guard!vars
  BY GuardMoves, GuardSeesBilling
<1> QED BY <1>1, <1>3, <1>4, BillAlways, PTL DEF PaywallSpec, Guard!Spec

(* Specification and proofs speak of the same guard: each action of one is *)
(* the action of that name of the other.                                   *)
LEMMA SameGuard ==
    /\ Guard!AccessAssumption => Proved!AccessAssumption
    /\ Guard!Spec => Proved!Spec
<1>1. Guard!AccessAssumption => Proved!AccessAssumption
  BY
      DEF Guard!AccessAssumption, Proved!AccessAssumption, Guard!Content, Proved!Content,
          Guard!Tiers, Proved!Tiers, Guard!IsFiniteSet, Proved!IsFiniteSet
<1>2. Guard!Init => Proved!Init
  BY
      DEF Guard!Init, Proved!Init, Guard!NoContent, Proved!NoContent, Guard!Tiers,
          Proved!Tiers, Guard!Blank, Proved!Blank, Guard!NoKey, Proved!NoKey
<1>3. [Guard!Next]_Guard!vars => [Proved!Next]_Proved!vars
  <2>1. ASSUME NEW r \in Requests, Guard!RequestStep(r) PROVE Proved!RequestStep(r)
    BY <2>1
      DEF Guard!Tiers, Proved!Tiers, Guard!Content, Proved!Content, Guard!NoContent,
          Proved!NoContent, Guard!Steps, Proved!Steps, Guard!Ends, Proved!Ends,
          Guard!Request, Proved!Request, Guard!Blank, Proved!Blank, Guard!NoKey,
          Proved!NoKey, Guard!Later, Proved!Later, Guard!Goto, Proved!Goto, Guard!End,
          Proved!End, Guard!locks, Proved!locks, Guard!billed, Proved!billed, Guard!Arrive,
          Proved!Arrive, Guard!ReadRevoked, Proved!ReadRevoked, Guard!ReadState,
          Proved!ReadState, Guard!TierOf, Proved!TierOf, Guard!ReadCache, Proved!ReadCache,
          Guard!SelectRegistration, Proved!SelectRegistration, Guard!Attest, Proved!Attest,
          Guard!InsertRegistration, Proved!InsertRegistration, Guard!CommitRegistration,
          Proved!CommitRegistration, Guard!IsPremium, Proved!IsPremium, Guard!TrialExpired,
          Proved!TrialExpired, Guard!Unpaid, Proved!Unpaid, Guard!AnswerStatus,
          Proved!AnswerStatus, Guard!PassPaywall, Proved!PassPaywall,
          Guard!SelectSubscription, Proved!SelectSubscription, Guard!Count, Proved!Count,
          Guard!SetWindow, Proved!SetWindow, Guard!Crash, Proved!Crash, Guard!RequestStep,
          Proved!RequestStep
  <2>2. UNCHANGED Guard!vars => UNCHANGED Proved!vars
    BY DEF Guard!vars, Proved!vars
  <2>3. Guard!Next => Proved!Next
    BY <2>1
      DEF Guard!Next, Proved!Next, Guard!CommitWebhook, Proved!CommitWebhook,
          Guard!FillCache, Proved!FillCache, Guard!CacheExpires, Proved!CacheExpires,
          Guard!SetBlocked, Proved!SetBlocked, Guard!SetRevoked, Proved!SetRevoked,
          Guard!Tick, Proved!Tick, Guard!NoContent, Proved!NoContent, Guard!NoKey,
          Proved!NoKey, Guard!Tiers, Proved!Tiers, Guard!locks, Proved!locks, Guard!billed,
          Proved!billed
  <2> QED BY <2>2, <2>3
<1> QED BY <1>1, <1>2, <1>3, PTL DEF Guard!Spec, Proved!Spec

\* Whoever gets past the paywall arrived in the trial of the device, or before
\* the end of a plan that a committed webhook brought.
THEOREM AdmittedHavePaid ==
    ASSUME Guard!AccessAssumption
    PROVE  PaywallSpec => []AdmittedPaid
<1>1. Proved!AccessAssumption
  BY SameGuard
<1>2. Proved!Spec => []Proved!AdmittedEntitled
  BY <1>1, Proved!OnlyEntitled
<1>3. PaywallSpec => Spec
  BY GuardMoves, PTL DEF PaywallSpec, PaywallInit, Spec
<1>4. TypeOK /\ BillInv /\ Proved!AdmittedEntitled => AdmittedPaid
  <2> SUFFICES ASSUME TypeOK, BillInv, Proved!AdmittedEntitled, NEW r \in Requests,
                      rq[r].pc \in {"admitted", "answered"},
                      ~(reg # 0 /\ rq[r].since <= reg + TrialLength)
               PROVE  \E i \in DOMAIN log : /\ ContentOf[log[i]].status # "canceled"
                                            /\ rq[r].since <= ContentOf[log[i]].ends
    BY DEF AdmittedPaid
  <2>1. PICK e \in recorded : ContentOf[e].status # "canceled" /\ rq[r].since <= ContentOf[e].ends
    BY DEF Proved!AdmittedEntitled
  <2>2. \E i \in DOMAIN log : log[i] = e
    BY <2>1 DEF TypeOK, BillInv, Ledger
  <2> QED BY <2>1, <2>2
<1> QED BY <1>2, <1>3, <1>4, GuardImplemented, SameGuard, BillAlways, PTL
=============================================================================
