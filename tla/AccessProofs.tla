---------------------------- MODULE AccessProofs ----------------------------
(***************************************************************************)
(* Theorems about Access, for every number of requests, all lifetimes and  *)
(* limits, and any contents of the subscription.                           *)
(***************************************************************************)
EXTENDS Access, FiniteSetTheorems, TLAPS

-----------------------------------------------------------------------------
(* Type correctness                                                        *)

(* The updates of a handler keep its type.                                 *)
LEMMA Fields ==
    ASSUME NEW q \in Request, NEW pc \in {"idle"} \cup Steps \cup Ends
    PROVE  /\ [q EXCEPT !.pc = pc] \in Request
           /\ \A n \in Nat : /\ [q EXCEPT !.pc = pc, !.at = n] \in Request
                             /\ [q EXCEPT !.pc = pc, !.created = n] \in Request
           /\ \A k \in 0..2 : [q EXCEPT !.pc = pc, !.checks = k] \in Request
           /\ \A k \in 0..2, n \in Nat :
                /\ [q EXCEPT !.pc = pc, !.checks = k, !.at = n] \in Request
                /\ \A t \in Tiers :
                     [q EXCEPT !.pc = pc, !.checks = k, !.at = n, !.tier = t] \in Request
           /\ \A n \in Nat, b \in BOOLEAN :
                [q EXCEPT !.pc = pc, !.counted = n, !.opened = b] \in Request
<1>1. [q EXCEPT !.pc = pc] \in Request
  BY Zenon DEF Request
<1>2. \A n \in Nat : [q EXCEPT !.pc = pc, !.at = n] \in Request
  BY Zenon DEF Request
<1>3. \A n \in Nat : [q EXCEPT !.pc = pc, !.created = n] \in Request
  BY Zenon DEF Request
<1>4. \A k \in 0..2 : [q EXCEPT !.pc = pc, !.checks = k] \in Request
  BY Zenon DEF Request
<1>5. \A k \in 0..2, n \in Nat : [q EXCEPT !.pc = pc, !.checks = k, !.at = n] \in Request
  BY Zenon DEF Request
<1>6. \A k \in 0..2, n \in Nat : \A t \in Tiers :
         [q EXCEPT !.pc = pc, !.checks = k, !.at = n, !.tier = t] \in Request
  BY Zenon DEF Request
<1>7. \A n \in Nat, b \in BOOLEAN : [q EXCEPT !.pc = pc, !.counted = n, !.opened = b] \in Request
  BY Zenon DEF Request
<1> QED BY <1>1, <1>2, <1>3, <1>4, <1>5, <1>6, <1>7, Zenon

LEMMA EndType ==
    ASSUME TypeOK, NEW r \in Requests, NEW pc \in Ends, End(r, pc)
    PROVE  rq' \in [Requests -> Request]
<1>1. Blank(pc) \in Request
  BY 0 \in 0..2, 0 \in Nat, Zenon DEF Blank, Request, Tiers
<1> QED BY <1>1 DEF TypeOK, End

LEMMA GotoType ==
    ASSUME TypeOK, NEW r \in Requests, NEW pc \in {"idle"} \cup Steps \cup Ends, Goto(r, pc)
    PROVE  rq' \in [Requests -> Request]
<1>1. [rq[r] EXCEPT !.pc = pc] \in Request
  BY Fields, Zenon DEF TypeOK
<1> QED BY <1>1 DEF TypeOK, Goto

LEMMA ArriveType ==
    ASSUME TypeOK, NEW r \in Requests, NEW guard \in BOOLEAN, NEW android \in BOOLEAN,
           NEW att \in BOOLEAN, Arrive(r, guard, android, att)
    PROVE  rq' \in [Requests -> Request]
<1> DEFINE new == [rq[r] EXCEPT !.pc = "revoked", !.guard = guard, !.android = guard /\ android,
                                !.att = ~guard /\ att, !.since = now,
                                !.barred = IF guard THEN Later(blockedUntil, revokedUntil)
                                           ELSE revokedUntil]
<1>1. (IF guard THEN Later(blockedUntil, revokedUntil) ELSE revokedUntil) \in Nat
  BY DEF TypeOK, Later
<1>2. (guard /\ android) \in BOOLEAN /\ (~guard /\ att) \in BOOLEAN
  BY Zenon
<1>3. rq[r] \in Request /\ now \in Nat /\ "revoked" \in {"idle"} \cup Steps \cup Ends
  BY Zenon DEF TypeOK, Steps
<1>4. ASSUME NEW q \in Request, NEW a \in BOOLEAN, NEW b \in BOOLEAN, NEW n \in Nat
      PROVE  [q EXCEPT !.pc = "revoked", !.guard = guard, !.android = a, !.att = b,
                       !.since = now, !.barred = n] \in Request
  BY <1>3, Zenon DEF Request
<1>5. new \in Request
  BY <1>1, <1>2, <1>3, <1>4, Zenon
<1>6. rq' = [rq EXCEPT ![r] = new]
  BY Zenon DEF Arrive
<1> HIDE DEF new
<1> QED BY <1>5, <1>6, Zenon DEF TypeOK

LEMMA RequestType ==
    ASSUME TypeOK, NEW r \in Requests, RequestStep(r)
    PROVE  rq' \in [Requests -> Request]
<1> USE DEF Steps, Ends
<1>0. rq[r] \in Request /\ now \in Nat /\ reg \in Nat /\ 0 \in 0..2 /\ 1 \in 0..2
  BY DEF TypeOK
<1>1. ASSUME NEW guard \in BOOLEAN, NEW android \in BOOLEAN, NEW att \in BOOLEAN,
             Arrive(r, guard, android, att)
      PROVE  rq' \in [Requests -> Request]
  BY <1>1, ArriveType
<1>2. CASE ReadRevoked(r)
  <2>1. CASE End(r, "refused") BY <2>1, EndType
  <2>2. CASE revokedUntil = 0
    <3>1. [rq[r] EXCEPT !.pc = IF rq[r].guard THEN "state" ELSE "register", !.at = now] \in Request
      BY <1>0, Fields, Zenon
    <3> QED BY <1>2, <2>2, <3>1 DEF ReadRevoked, TypeOK
  <2> QED BY <1>2, <2>1, <2>2 DEF ReadRevoked
<1>3. CASE ReadState(r) BY <1>3, EndType, GotoType DEF ReadState
<1>4. CASE ReadCache(r)
  <2>1. CASE End(r, "refused") BY <2>1, EndType
  <2>2. ASSUME NEW checks \in 0..2, NEW pc \in {"register", "count"},
               rq' = [rq EXCEPT ![r].pc = pc, ![r].checks = checks, ![r].at = now,
                                ![r].tier = TierOf(r)]
        PROVE  rq' \in [Requests -> Request]
    <3>1. TierOf(r) \in Tiers
      BY DEF TypeOK, TierOf, Tiers, Content, NoContent
    <3>2. [rq[r] EXCEPT !.pc = pc, !.checks = checks, !.at = now, !.tier = TierOf(r)] \in Request
      BY <1>0, <3>1, Fields, Zenon
    <3> QED BY <2>2, <3>2 DEF TypeOK
  <2>3. \A b, c \in BOOLEAN : (IF b THEN 1 ELSE 0) + (IF c THEN 1 ELSE 0) \in 0..2
    OBVIOUS
  <2> DEFINE missing == cache = NoContent
             trial == rq[r].android /\ cache.status \in {"none", "trial"}
             checks == (IF missing THEN 1 ELSE 0) + (IF trial THEN 1 ELSE 0)
             pc == IF checks > 0 THEN "register" ELSE "count"
  <2>4. checks \in 0..2 /\ pc \in {"register", "count"}
    BY <2>3
  <2>5. \/ End(r, "refused")
        \/ rq' = [rq EXCEPT ![r].pc = pc, ![r].checks = checks, ![r].at = now,
                            ![r].tier = TierOf(r)]
    BY <1>4, Zenon DEF ReadCache
  <2> HIDE DEF checks, pc
  <2> QED BY <2>1, <2>2, <2>4, <2>5
<1>5. CASE SelectRegistration(r)
  <2>1. ASSUME rq' = [rq EXCEPT ![r].pc = "subscription", ![r].created = reg]
        PROVE  rq' \in [Requests -> Request]
    <3>1. [rq[r] EXCEPT !.pc = "subscription", !.created = reg] \in Request
      BY <1>0, Fields, Zenon
    <3> QED BY <2>1, <3>1 DEF TypeOK
  <2> QED BY <1>5, <2>1, EndType, GotoType DEF SelectRegistration
<1>6. CASE Attest(r) BY <1>6, EndType, GotoType DEF Attest
<1>7. CASE InsertRegistration(r)
  <2>1. ASSUME rq' = [rq EXCEPT ![r].pc = "commit", ![r].created = now]
        PROVE  rq' \in [Requests -> Request]
    <3>1. [rq[r] EXCEPT !.pc = "commit", !.created = now] \in Request
      BY <1>0, Fields, Zenon
    <3> QED BY <2>1, <3>1 DEF TypeOK
  <2> QED BY <1>7, <2>1, EndType DEF InsertRegistration
<1>8. CASE CommitRegistration(r) BY <1>8, GotoType DEF CommitRegistration
<1>9. CASE SelectSubscription(r)
  <2>1. ASSUME rq' = [rq EXCEPT ![r].pc = "count", ![r].checks = 0]
        PROVE  rq' \in [Requests -> Request]
    <3>1. [rq[r] EXCEPT !.pc = "count", !.checks = 0] \in Request
      BY <1>0, Fields, Zenon
    <3> QED BY <2>1, <3>1 DEF TypeOK
  <2>2. ASSUME rq' = [rq EXCEPT ![r].pc = "register", ![r].checks = 1, ![r].at = now]
        PROVE  rq' \in [Requests -> Request]
    <3>1. [rq[r] EXCEPT !.pc = "register", !.checks = 1, !.at = now] \in Request
      BY <1>0, Fields, Zenon
    <3> QED BY <2>2, <3>1 DEF TypeOK
  <2> QED BY <1>9, <2>1, <2>2, EndType, GotoType DEF SelectSubscription, AnswerStatus, PassPaywall
<1>10. CASE Count(r)
  <2>1. ASSUME NEW pc \in {"window", "admitted"}, NEW opened \in BOOLEAN,
               rq' = [rq EXCEPT ![r].pc = pc, ![r].counted = now, ![r].opened = opened]
        PROVE  rq' \in [Requests -> Request]
    <3>1. [rq[r] EXCEPT !.pc = pc, !.counted = now, !.opened = opened] \in Request
      BY <1>0, Fields, Zenon
    <3> QED BY <2>1, <3>1 DEF TypeOK
  <2> QED BY <1>10, <2>1, EndType DEF Count
<1>11. CASE SetWindow(r) BY <1>11, GotoType DEF SetWindow
<1>12. CASE Crash(r) BY <1>12, EndType, GotoType DEF Crash
<1> QED BY <1>1, <1>2, <1>3, <1>4, <1>5, <1>6, <1>7, <1>8, <1>9, <1>10, <1>11, <1>12 DEF RequestStep

LEMMA TypeInit == Init => TypeOK
<1> SUFFICES ASSUME Init PROVE TypeOK
  OBVIOUS
<1>1. Blank("idle") \in Request
  BY 0 \in 0..2, 0 \in Nat, Zenon DEF Blank, Request, Tiers
<1>2. win \in [Tiers -> [n : Nat, until : Nat]]
  BY DEF Init, NoKey
<1> QED BY <1>1, <1>2 DEF Init, TypeOK

LEMMA TypeNext == TypeOK /\ [Next]_vars => TypeOK'
<1> SUFFICES ASSUME TypeOK, [Next]_vars PROVE TypeOK'
  OBVIOUS
<1>1. ASSUME NEW r \in Requests, RequestStep(r) PROVE TypeOK'
  <2>1. rq' \in [Requests -> Request]
    BY <1>1, RequestType
  <2>2. reg' \in Nat
    BY <1>1 DEF RequestStep, Arrive, ReadRevoked, ReadState, ReadCache, SelectRegistration, Attest,
       InsertRegistration, CommitRegistration, SelectSubscription, Count, SetWindow, Crash,
       TypeOK, Request
  <2>3. win' \in [Tiers -> [n : Nat, until : Nat]]
    <3>1. CASE Count(r)
      <4>1. rq[r].tier \in Tiers /\ win[rq[r].tier].n + 1 \in Nat
        BY DEF TypeOK, Request
      <4> QED BY <3>1, <4>1 DEF Count, TypeOK
    <3>2. CASE SetWindow(r)
      <4>1. rq[r].tier \in Tiers /\ now + Window \in Nat
        BY AccessAssumption DEF TypeOK, Request
      <4> QED BY <3>2, <4>1 DEF SetWindow, TypeOK
    <3>3. CASE UNCHANGED win
      BY <3>3 DEF TypeOK
    <3> QED BY <1>1, <3>1, <3>2, <3>3 DEF RequestStep, Arrive, ReadRevoked, ReadState, ReadCache,
       SelectRegistration, Attest, InsertRegistration, CommitRegistration, SelectSubscription, Crash
  <2>4. UNCHANGED <<now, sub, cache, known, blockedUntil, revokedUntil>>
    BY <1>1 DEF RequestStep, Arrive, ReadRevoked, ReadState, ReadCache, SelectRegistration, Attest,
       InsertRegistration, CommitRegistration, SelectSubscription, Count, SetWindow, Crash, billed, locks
  <2> QED BY <2>1, <2>2, <2>3, <2>4 DEF TypeOK
<1>2. ASSUME NEW c \in Contents, CommitWebhook(c) PROVE TypeOK'
  BY <1>2, AccessAssumption DEF CommitWebhook, TypeOK, locks
<1>3. ASSUME NEW c \in known, FillCache(c) PROVE TypeOK'
  BY <1>3 DEF FillCache, TypeOK, locks
<1>4. CASE CacheExpires BY <1>4 DEF CacheExpires, TypeOK, locks
<1>5. CASE SetBlocked BY <1>5, AccessAssumption DEF SetBlocked, TypeOK, billed
<1>6. CASE SetRevoked BY <1>6, AccessAssumption DEF SetRevoked, TypeOK, billed
<1>7. CASE Tick
  <2>1. win' \in [Tiers -> [n : Nat, until : Nat]]
    BY <1>7 DEF Tick, TypeOK, NoKey
  <2> QED BY <1>7, <2>1 DEF Tick, TypeOK, billed
<1>8. CASE UNCHANGED vars
  BY <1>8 DEF vars, TypeOK
<1> QED BY <1>1, <1>2, <1>3, <1>4, <1>5, <1>6, <1>7, <1>8 DEF Next

\* Every reachable state of guard, registration and rate windows is well typed,
\* whatever the number of requests and the limits.
THEOREM TypeCorrect == Spec => []TypeOK
BY TypeInit, TypeNext, PTL DEF Spec

-----------------------------------------------------------------------------
(* One registration                                                        *)

\* A step of one request leaves the others alone.
LEMMA Others ==
    ASSUME NEW r \in Requests, RequestStep(r), TypeOK
    PROVE  \A o \in Requests \ {r} : rq'[o] = rq[o]
BY DEF RequestStep, Arrive, ReadRevoked, ReadState, ReadCache, SelectRegistration, Attest,
   InsertRegistration, CommitRegistration, SelectSubscription, AnswerStatus, PassPaywall, Count, SetWindow, Crash,
   TypeOK, Goto, End

\* One transaction at a time has inserted the row, and only while there is none
\* committed; a created_at that a request knows is that of the row.
TrialInv ==
    /\ now # 0
    /\ \A r, o \in Requests : rq[r].pc = "commit" /\ rq[o].pc = "commit" => r = o
    /\ \A r \in Requests :
          /\ rq[r].pc = "commit" => reg = 0
          /\ rq[r].pc \in {"commit", "subscription"} => rq[r].created # 0
          /\ rq[r].created # 0 /\ rq[r].pc # "commit" => rq[r].created = reg

\* What has to hold of the request that moves, when no row is committed.
LEMMA TrialKept ==
    ASSUME TypeOK, TrialInv, NEW r \in Requests, UNCHANGED <<now, reg>>,
           \A o \in Requests \ {r} : rq'[o] = rq[o],
           rq'[r].pc = "commit" => reg = 0 /\ rq'[r].created # 0,
           rq'[r].pc = "commit" => \A o \in Requests \ {r} : rq[o].pc # "commit",
           rq'[r].pc = "subscription" => rq'[r].created # 0,
           rq'[r].created # 0 /\ rq'[r].pc # "commit" => rq'[r].created = reg
    PROVE  TrialInv'
BY DEF TrialInv

LEMMA TrialEnd ==
    ASSUME TypeOK, TrialInv, NEW r \in Requests, NEW pc \in Ends, End(r, pc), UNCHANGED <<now, reg>>
    PROVE  TrialInv'
<1>1. rq'[r] = Blank(pc) /\ \A o \in Requests \ {r} : rq'[o] = rq[o]
  BY DEF TypeOK, End
<1>2. rq'[r].pc = pc /\ rq'[r].created = 0 /\ pc \notin {"commit", "subscription"}
  BY <1>1 DEF Blank, Ends
<1> QED BY <1>1, <1>2, TrialKept

LEMMA TrialMove ==
    ASSUME TypeOK, TrialInv, NEW r \in Requests, RequestStep(r), UNCHANGED <<now, reg>>,
           rq'[r].created = rq[r].created, rq[r].pc # "commit",
           rq'[r].pc \notin {"commit", "subscription"}
    PROVE  TrialInv'
BY TrialKept, Others DEF TrialInv

LEMMA TrialStep ==
    ASSUME TypeOK, TrialInv, NEW r \in Requests, RequestStep(r)
    PROVE  TrialInv'
<1>0. rq \in [Requests -> Request] /\ rq[r] \in Request /\ \A o \in Requests \ {r} : rq'[o] = rq[o]
  BY Others DEF TypeOK
<1> USE <1>0 DEF Ends
<1>1. ASSUME NEW guard \in BOOLEAN, NEW android \in BOOLEAN, NEW att \in BOOLEAN,
             Arrive(r, guard, android, att)
      PROVE  TrialInv'
  BY <1>1, TrialMove DEF Arrive, Request
<1>2. CASE ReadRevoked(r) BY <1>2, TrialEnd, TrialMove DEF ReadRevoked, Request
<1>3. CASE ReadState(r) BY <1>3, TrialEnd, TrialMove DEF ReadState, Goto, Request
<1>4. CASE ReadCache(r)
  <2>1. UNCHANGED <<now, reg>> /\ rq[r].pc = "cache"
    BY <1>4 DEF ReadCache
  <2>2. \/ End(r, "refused")
        \/ rq'[r].pc \in {"register", "count"} /\ rq'[r].created = rq[r].created
    BY <1>4 DEF ReadCache, Request
  <2> QED BY <2>1, <2>2, TrialEnd, TrialMove
<1>5. CASE SelectRegistration(r)
  <2>1. CASE Goto(r, "attest") BY <1>5, <2>1, TrialMove DEF SelectRegistration, Goto, Request
  <2>2. CASE reg # 0 /\ rq' = [rq EXCEPT ![r].pc = "subscription", ![r].created = reg]
    <3>1. rq'[r].pc = "subscription" /\ rq'[r].created = reg
      BY <2>2 DEF Request
    <3> QED BY <1>5, <2>2, <3>1, TrialKept DEF SelectRegistration
  <2> QED BY <1>5, <2>1, <2>2, TrialEnd DEF SelectRegistration
<1>6. CASE Attest(r) BY <1>6, TrialEnd, TrialMove DEF Attest, Goto, Request
<1>7. CASE InsertRegistration(r)
  <2>1. CASE rq' = [rq EXCEPT ![r].pc = "commit", ![r].created = now] /\ reg = 0
    <3>1. rq'[r].pc = "commit" /\ rq'[r].created = now
      BY <2>1 DEF Request
    <3> QED BY <1>7, <2>1, <3>1, TrialKept DEF InsertRegistration, TrialInv
  <2> QED BY <1>7, <2>1, TrialEnd DEF InsertRegistration
<1>8. CASE CommitRegistration(r)
  <2>1. /\ rq'[r].pc = "subscription" /\ rq'[r].created = rq[r].created /\ rq[r].pc = "commit"
        /\ reg' = rq[r].created /\ now' = now
    BY <1>8 DEF CommitRegistration, Goto, Request
  <2>2. \A o \in Requests \ {r} : rq[o].pc # "commit" /\ rq[o].created = 0 /\ rq[o].pc # "subscription"
    BY <2>1 DEF TrialInv
  <2> QED BY <2>1, <2>2 DEF TrialInv
<1>9. CASE SelectSubscription(r) BY <1>9, TrialEnd, TrialMove DEF SelectSubscription, AnswerStatus, PassPaywall, Goto, Request
<1>10. CASE Count(r)
  <2>1. UNCHANGED <<now, reg>> /\ rq[r].pc = "count"
    BY <1>10 DEF Count
  <2>2. \/ End(r, "refused")
        \/ rq'[r].pc \in {"window", "admitted"} /\ rq'[r].created = rq[r].created
    BY <1>10 DEF Count, Request
  <2> QED BY <2>1, <2>2, TrialEnd, TrialMove
<1>11. CASE SetWindow(r) BY <1>11, TrialMove DEF SetWindow, Goto, Request
<1>12. CASE Crash(r) BY <1>12, TrialEnd, TrialMove DEF Crash, Goto, Request
<1> QED BY <1>1, <1>2, <1>3, <1>4, <1>5, <1>6, <1>7, <1>8, <1>9, <1>10, <1>11, <1>12 DEF RequestStep

LEMMA TrialNext == TypeOK /\ TrialInv /\ [Next]_vars => TrialInv'
<1> SUFFICES ASSUME TypeOK, TrialInv, [Next]_vars PROVE TrialInv'
  OBVIOUS
<1>1. ASSUME NEW r \in Requests, RequestStep(r) PROVE TrialInv'
  BY <1>1, TrialStep
<1>2. CASE UNCHANGED <<reg, rq>> /\ now' \in {now, now + 1}
  BY <1>2 DEF TrialInv, TypeOK
<1> QED BY <1>1, <1>2 DEF Next, CommitWebhook, FillCache, CacheExpires, SetBlocked, SetRevoked, Tick, vars

\* The trial of a device starts once: every answer is about the one committed
\* registration, although first requests overlap and die at any await.
THEOREM OneTrial == Spec => []TrialStartsOnce
<1>1. Init => TrialInv
  BY DEF Init, TrialInv, Blank
<1>2. TrialInv => TrialStartsOnce
  BY DEF TrialInv, TrialStartsOnce
<1> QED BY <1>1, <1>2, TypeInit, TypeNext, TrialNext, PTL DEF Spec

-----------------------------------------------------------------------------
(* Entitlement                                                             *)

\* Somebody who arrived at time s is in the trial or has paid.
Covered(s) ==
    \/ reg # 0 /\ s <= reg + TrialLength
    \/ \E c \in known : c.status # "canceled" /\ s <= c.ends

Cleared == {"count", "window", "admitted", "answered"}

\* Row and hash were committed; the time that decides is not before the arrival;
\* who is past the decision was entitled.
EntitledInv ==
    /\ {sub, cache} \subseteq known \cup {NoContent}
    /\ \A r \in Requests :
          /\ rq[r].since <= now
          /\ rq[r].pc # "revoked" => rq[r].since <= rq[r].at
          /\ rq[r].pc \in Cleared => Covered(rq[r].since)

LEMMA EntitledKept ==
    ASSUME TypeOK, EntitledInv, NEW r \in Requests, UNCHANGED <<now, billed>>, reg' = reg \/ reg = 0,
           \A o \in Requests \ {r} : rq'[o] = rq[o],
           rq'[r].since <= now,
           rq'[r].pc # "revoked" => rq'[r].since <= rq'[r].at,
           rq'[r].pc \in Cleared => Covered(rq'[r].since)
    PROVE  EntitledInv'
<1>1. known' = known /\ sub' = sub /\ cache' = cache
  BY DEF billed
<1>2. ASSUME NEW o \in Requests, rq'[o].pc \in Cleared PROVE Covered(rq[o].since)'
  <2>1. Covered(rq'[o].since)
    BY <1>2 DEF EntitledInv
  <2>2. CASE reg = 0
    BY <1>1, <2>1, <2>2 DEF Covered
  <2>3. CASE reg' = reg
    BY <1>1, <2>1, <2>3 DEF Covered
  <2> QED BY <2>2, <2>3
<1>3. \A o \in Requests : rq'[o].since <= now' /\ (rq'[o].pc # "revoked" => rq'[o].since <= rq'[o].at)
  BY DEF EntitledInv
<1> QED BY <1>1, <1>2, <1>3 DEF EntitledInv

LEMMA EntitledEnd ==
    ASSUME TypeOK, EntitledInv, NEW r \in Requests, NEW pc \in {"refused", "error", "crashed"},
           End(r, pc), UNCHANGED <<now, reg, billed>>
    PROVE  EntitledInv'
<1>1. rq'[r] = Blank(pc) /\ \A o \in Requests \ {r} : rq'[o] = rq[o]
  BY DEF TypeOK, End
<1>2. rq'[r].pc = pc /\ rq'[r].since = 0 /\ rq'[r].at = 0 /\ pc \notin Cleared
  BY <1>1 DEF Blank, Cleared
<1> QED BY <1>1, <1>2, EntitledKept DEF TypeOK

LEMMA EntitledMove ==
    ASSUME TypeOK, EntitledInv, NEW r \in Requests, RequestStep(r), UNCHANGED <<now, billed>>,
           reg' = reg \/ reg = 0,
           rq'[r].since = rq[r].since,
           rq'[r].at = now \/ (rq'[r].at = rq[r].at /\ rq[r].pc # "revoked"),
           rq'[r].pc \in Cleared => Covered(rq[r].since)
    PROVE  EntitledInv'
BY EntitledKept, Others DEF EntitledInv

LEMMA EntitledStep ==
    ASSUME TypeOK, TrialInv, EntitledInv, NEW r \in Requests, RequestStep(r)
    PROVE  EntitledInv'
<1>0. rq \in [Requests -> Request] /\ rq[r] \in Request /\ \A o \in Requests \ {r} : rq'[o] = rq[o]
  BY Others DEF TypeOK
<1> USE <1>0 DEF Cleared
<1>1. ASSUME NEW guard \in BOOLEAN, NEW android \in BOOLEAN, NEW att \in BOOLEAN,
             Arrive(r, guard, android, att)
      PROVE  EntitledInv'
  <2>1. UNCHANGED <<now, reg, billed>> /\ rq'[r].pc = "revoked" /\ rq'[r].since = now
    BY <1>1 DEF Arrive, Request, billed
  <2> QED BY <2>1, EntitledKept DEF TypeOK
<1>2. CASE ReadRevoked(r) BY <1>2, EntitledEnd, EntitledMove DEF ReadRevoked, Request
<1>3. CASE ReadState(r) BY <1>3, EntitledEnd, EntitledMove DEF ReadState, Goto, Request
<1>4. CASE ReadCache(r)
  <2>1. UNCHANGED <<now, reg, billed>> /\ rq[r].pc = "cache"
    BY <1>4 DEF ReadCache
  <2>2. \/ End(r, "refused")
        \/ /\ rq'[r].pc = "register" \/ cache # NoContent
           /\ cache = NoContent \/ (cache.ends >= now /\ cache.status \in {"active", "trial"})
           /\ rq'[r].since = rq[r].since /\ rq'[r].at = now
    BY <1>4 DEF ReadCache, Request
  <2>3. cache # NoContent /\ cache.ends >= now /\ cache.status \in {"active", "trial"} =>
           Covered(rq[r].since)
    BY DEF Covered, EntitledInv, TypeOK, Content, Request
  <2> QED BY <2>1, <2>2, <2>3, EntitledEnd, EntitledMove
<1>5. CASE SelectRegistration(r)
  <2>1. CASE Goto(r, "attest") BY <1>5, <2>1, EntitledMove DEF SelectRegistration, Goto, Request
  <2>2. CASE reg # 0 /\ rq' = [rq EXCEPT ![r].pc = "subscription", ![r].created = reg]
    BY <1>5, <2>2, EntitledMove DEF SelectRegistration, Request
  <2> QED BY <1>5, <2>1, <2>2, EntitledEnd DEF SelectRegistration
<1>6. CASE Attest(r) BY <1>6, EntitledEnd, EntitledMove DEF Attest, Goto, Request
<1>7. CASE InsertRegistration(r)
  <2>1. CASE rq' = [rq EXCEPT ![r].pc = "commit", ![r].created = now]
    BY <1>7, <2>1, EntitledMove DEF InsertRegistration, Request
  <2> QED BY <1>7, <2>1, EntitledEnd DEF InsertRegistration
<1>8. CASE CommitRegistration(r)
  <2>1. UNCHANGED <<now, billed>> /\ reg = 0
    BY <1>8 DEF CommitRegistration, TrialInv
  <2> QED BY <1>8, <2>1, EntitledMove DEF CommitRegistration, Goto, Request
<1>9. CASE SelectSubscription(r)
  <2>1. UNCHANGED <<now, reg, billed>> /\ rq[r].pc = "subscription"
    BY <1>9 DEF SelectSubscription, AnswerStatus, PassPaywall
  <2>2. rq[r].created = reg /\ reg # 0 /\ rq[r].since <= rq[r].at
    BY <2>1 DEF TrialInv, EntitledInv
  <2>3. ~TrialExpired(r) => Covered(rq[r].since)
    BY <2>2, AccessAssumption DEF TrialExpired, Covered, TypeOK, Request
  <2>4. IsPremium(rq[r].at) => Covered(rq[r].since)
    BY <2>2 DEF IsPremium, Covered, TypeOK, Request, Content, NoContent, EntitledInv
  <2>5. \/ End(r, "refused")
        \/ /\ ~TrialExpired(r) \/ IsPremium(rq[r].at)
           /\ rq'[r].since = rq[r].since /\ rq'[r].at \in {now, rq[r].at}
    BY <1>9 DEF SelectSubscription, Unpaid, AnswerStatus, PassPaywall, Goto, Request
  <2> QED BY <2>1, <2>3, <2>4, <2>5, EntitledEnd, EntitledMove
<1>10. CASE Count(r)
  <2>1. UNCHANGED <<now, reg, billed>> /\ rq[r].pc = "count"
    BY <1>10 DEF Count
  <2>2. \/ End(r, "refused")
        \/ rq'[r].since = rq[r].since /\ rq'[r].at = rq[r].at
    BY <1>10 DEF Count, Request
  <2>3. Covered(rq[r].since)
    BY <2>1 DEF EntitledInv
  <2> QED BY <2>1, <2>2, <2>3, EntitledEnd, EntitledMove
<1>11. CASE SetWindow(r)
  <2>1. Covered(rq[r].since)
    BY <1>11 DEF EntitledInv, SetWindow
  <2> QED BY <1>11, <2>1, EntitledMove DEF SetWindow, Goto, Request
<1>12. CASE Crash(r)
  BY <1>12, EntitledEnd, EntitledMove DEF Crash, Goto, Request, Steps
<1> QED BY <1>1, <1>2, <1>3, <1>4, <1>5, <1>6, <1>7, <1>8, <1>9, <1>10, <1>11, <1>12 DEF RequestStep

LEMMA EntitledNext == TypeOK /\ TrialInv /\ EntitledInv /\ [Next]_vars => EntitledInv'
<1> SUFFICES ASSUME TypeOK, TrialInv, EntitledInv, [Next]_vars PROVE EntitledInv'
  OBVIOUS
<1>1. ASSUME NEW r \in Requests, RequestStep(r) PROVE EntitledInv'
  BY <1>1, EntitledStep
<1>2. CASE UNCHANGED <<reg, rq>> /\ now' \in {now, now + 1} /\ known \subseteq known'
           /\ {sub', cache'} \subseteq known' \cup {NoContent}
  <2>1. \A r \in Requests : Covered(rq[r].since) => Covered(rq[r].since)'
    BY <1>2 DEF Covered
  <2>2. \A r \in Requests : rq[r].since <= now'
    BY <1>2 DEF EntitledInv, TypeOK, Request
  <2> QED BY <1>2, <2>1, <2>2 DEF EntitledInv
<1>3. ASSUME NEW c \in Contents, CommitWebhook(c) PROVE EntitledInv'
  BY <1>2, <1>3 DEF CommitWebhook, EntitledInv
<1>4. ASSUME NEW c \in known, FillCache(c) PROVE EntitledInv'
  BY <1>2, <1>4 DEF FillCache, EntitledInv
<1>5. CASE CacheExpires \/ SetBlocked \/ SetRevoked \/ Tick \/ UNCHANGED vars
  BY <1>2, <1>5 DEF CacheExpires, SetBlocked, SetRevoked, Tick, vars, billed, EntitledInv
<1> QED BY <1>1, <1>3, <1>4, <1>5 DEF Next

\* Nobody gets past the paywall who arrived after the trial and after the end of
\* every subscription ever committed, however stale the hash was.
THEOREM OnlyEntitled == Spec => []AdmittedEntitled
<1>1. Init => EntitledInv
  BY DEF Init, EntitledInv, Blank, Cleared
<1>2. EntitledInv => AdmittedEntitled
  BY DEF EntitledInv, AdmittedEntitled, Covered, Cleared
<1>3. Init => TrialInv
  BY DEF Init, TrialInv, Blank
<1> QED BY <1>1, <1>2, <1>3, TypeInit, TypeNext, TrialNext, EntitledNext, PTL DEF Spec

-----------------------------------------------------------------------------
(* Device flags                                                            *)

\* A request under way keeps what it found on arrival until it is refused or dies.
LEMMA BarredKept ==
    ASSUME TypeOK, NEW r \in Requests, RequestStep(r), rq[r].pc # "idle"
    PROVE  /\ rq[r].pc \in Steps
           /\ rq'[r].pc \in {"refused", "error", "crashed"} \/ rq'[r].barred = rq[r].barred
<1>0. rq \in [Requests -> Request] /\ rq[r] \in Request
  BY DEF TypeOK
<1> USE <1>0 DEF Steps
<1>1. ASSUME NEW pc, End(r, pc) PROVE rq'[r].pc = pc
  BY <1>1 DEF End, Blank
<1>2. ASSUME NEW pc, Goto(r, pc) PROVE rq'[r].barred = rq[r].barred
  BY <1>2 DEF Goto, Request
<1>3. CASE ReadRevoked(r) BY <1>1, <1>3 DEF ReadRevoked, Request
<1>4. CASE ReadState(r) BY <1>1, <1>2, <1>4 DEF ReadState
<1>5. CASE ReadCache(r) BY <1>1, <1>5 DEF ReadCache, Request
<1>6. CASE SelectRegistration(r) BY <1>1, <1>2, <1>6 DEF SelectRegistration, Request
<1>7. CASE Attest(r) BY <1>1, <1>2, <1>7 DEF Attest
<1>8. CASE InsertRegistration(r) BY <1>1, <1>8 DEF InsertRegistration, Request
<1>9. CASE CommitRegistration(r) BY <1>2, <1>9 DEF CommitRegistration
<1>10. CASE SelectSubscription(r)
  BY <1>1, <1>2, <1>10 DEF SelectSubscription, AnswerStatus, PassPaywall, Request
<1>11. CASE Count(r) BY <1>1, <1>11 DEF Count, Request
<1>12. CASE SetWindow(r) BY <1>2, <1>12 DEF SetWindow
<1>13. CASE Crash(r) BY <1>1, <1>2, <1>13 DEF Crash
<1> QED BY <1>3, <1>4, <1>5, <1>6, <1>7, <1>8, <1>9, <1>10, <1>11, <1>12, <1>13 DEF RequestStep, Arrive

Beyond == (Steps \ {"revoked", "state"}) \cup {"admitted", "answered"}

\* The flags a request found on arrival are over, or one that it has still to
\* read is in force.
Awaited(r) ==
    \/ rq[r].barred <= now
    \/ rq[r].barred <= revokedUntil
    \/ rq[r].guard /\ rq[r].barred <= blockedUntil

FlagInv ==
    /\ \A until \in {blockedUntil, revokedUntil} :
          until = 0 \/ (now < until /\ until <= now + FlagTTL)
    /\ \A r \in Requests :
          /\ rq[r].pc = "revoked" => Awaited(r)
          /\ rq[r].pc = "state" => rq[r].barred <= now \/ rq[r].barred <= blockedUntil
          /\ rq[r].pc \in Beyond => rq[r].barred <= now

LEMMA AwaitedKept ==
    ASSUME TypeOK, NEW r \in Requests, rq'[r] = rq[r], now' = now, Awaited(r),
           blockedUntil <= blockedUntil', revokedUntil <= revokedUntil',
           blockedUntil' \in Nat, revokedUntil' \in Nat
    PROVE  Awaited(r)'
<1>1. rq[r].barred \in Nat
  BY DEF TypeOK, Request
<1>2. CASE rq[r].barred <= now BY <1>2 DEF Awaited
<1>3. CASE rq[r].barred <= revokedUntil BY <1>1, <1>3 DEF Awaited, TypeOK
<1>4. CASE rq[r].guard /\ rq[r].barred <= blockedUntil BY <1>1, <1>4 DEF Awaited, TypeOK
<1> QED BY <1>2, <1>3, <1>4 DEF Awaited

LEMMA FlagKept ==
    ASSUME TypeOK, FlagInv, NEW r \in Requests, RequestStep(r), UNCHANGED <<now, locks>>,
           rq'[r].pc \notin {"revoked", "state"},
           rq'[r].pc \in Beyond => rq'[r].barred <= now
    PROVE  FlagInv'
<1>1. \A o \in Requests \ {r} : rq'[o] = rq[o]
  BY Others
<1>2. now' = now /\ blockedUntil' = blockedUntil /\ revokedUntil' = revokedUntil
  BY DEF locks
<1>3. \A o \in Requests \ {r} : Awaited(o) => Awaited(o)'
  BY <1>1, <1>2, AwaitedKept DEF TypeOK
<1> QED BY <1>1, <1>2, <1>3 DEF FlagInv

LEMMA FlagEnd ==
    ASSUME TypeOK, FlagInv, NEW r \in Requests, RequestStep(r), UNCHANGED <<now, locks>>,
           NEW pc \in {"refused", "error", "crashed"}, End(r, pc)
    PROVE  FlagInv'
<1>1. rq'[r].pc = pc /\ pc \notin Beyond
  BY DEF End, Blank, TypeOK, Beyond, Steps
<1> QED BY <1>1, FlagKept

LEMMA FlagStep ==
    ASSUME TypeOK, FlagInv, NEW r \in Requests, RequestStep(r)
    PROVE  FlagInv'
<1>0. /\ rq \in [Requests -> Request] /\ rq[r] \in Request
      /\ \A o \in Requests \ {r} : rq'[o] = rq[o]
      /\ UNCHANGED <<now, locks>>
  BY Others DEF TypeOK, RequestStep, Arrive, ReadRevoked, ReadState, ReadCache, SelectRegistration,
     Attest, InsertRegistration, CommitRegistration, SelectSubscription, Count, SetWindow, Crash
<1>a. ASSUME rq[r].pc \in Beyond, rq'[r].barred = rq[r].barred, rq'[r].pc \notin {"revoked", "state"}
      PROVE  FlagInv'
  BY <1>a, <1>0, FlagKept DEF FlagInv
<1> USE <1>0
<1>1. ASSUME NEW guard \in BOOLEAN, NEW android \in BOOLEAN, NEW att \in BOOLEAN,
             Arrive(r, guard, android, att)
      PROVE  FlagInv'
  <2>1. rq'[r].barred = IF guard THEN Later(blockedUntil, revokedUntil) ELSE revokedUntil
    BY <1>1 DEF Arrive, Request
  <2>2. rq'[r].pc = "revoked" /\ rq'[r].guard = guard
    BY <1>1 DEF Arrive, Request
  <2>3. \/ rq'[r].barred <= revokedUntil
        \/ guard /\ rq'[r].barred <= blockedUntil
    BY <2>1 DEF Later, TypeOK
  <2>4. rq'[r].pc \notin Beyond
    BY <2>2 DEF Beyond
  <2>5. blockedUntil' = blockedUntil /\ revokedUntil' = revokedUntil /\ now' = now
    BY DEF locks
  <2>6. Awaited(r)'
    BY <2>2, <2>3, <2>5 DEF Awaited
  <2>7. \A o \in Requests \ {r} : Awaited(o) => Awaited(o)'
    BY <2>5 DEF Awaited
  <2> QED BY <2>2, <2>4, <2>5, <2>6, <2>7 DEF FlagInv
<1>2. CASE ReadRevoked(r)
  <2>1. CASE revokedUntil = 0
    <3>1. /\ rq[r].pc = "revoked" /\ rq'[r].barred = rq[r].barred
          /\ rq'[r].pc = IF rq[r].guard THEN "state" ELSE "register"
      BY <1>2, <2>1 DEF ReadRevoked, Request
    <3>2. rq[r].barred <= now \/ (rq[r].guard /\ rq[r].barred <= blockedUntil)
      BY <2>1, <3>1 DEF FlagInv, Awaited, TypeOK, Request
    <3>3. rq'[r].pc = "state" => rq[r].guard
      BY <3>1
    <3>4. rq'[r].pc \in Beyond => rq'[r].barred <= now
      BY <1>2, <2>1, <3>1, <3>2 DEF Beyond, Steps, FlagInv, TypeOK, Request
    <3>5. now' = now /\ blockedUntil' = blockedUntil /\ revokedUntil' = revokedUntil
      BY DEF locks
    <3>6. \A o \in Requests \ {r} : Awaited(o) => Awaited(o)'
      BY <3>5, AwaitedKept DEF TypeOK
    <3>7. rq'[r].pc = "state" => rq'[r].barred <= now' \/ rq'[r].barred <= blockedUntil'
      BY <3>1, <3>2, <3>5
    <3> QED BY <3>1, <3>4, <3>5, <3>6, <3>7 DEF FlagInv
  <2> QED BY <1>2, <2>1, FlagEnd DEF ReadRevoked
<1>3. CASE ReadState(r)
  <2>1. CASE blockedUntil = 0
    <3>1. rq[r].pc = "state" /\ rq'[r].barred = rq[r].barred /\ rq'[r].pc = "cache"
      BY <1>3, <2>1 DEF ReadState, Goto, Request
    <3>2. rq[r].barred <= now
      BY <2>1, <3>1 DEF FlagInv, TypeOK, Request
    <3> QED BY <3>1, <3>2, FlagKept
  <2> QED BY <1>3, <2>1, FlagEnd DEF ReadState
<1> USE DEF Beyond, Steps
<1>4. CASE ReadCache(r)
  <2>1. \/ End(r, "refused")
        \/ rq'[r].pc \in {"register", "count"} /\ rq'[r].barred = rq[r].barred
    BY <1>4 DEF ReadCache, Request
  <2> QED BY <1>4, <2>1, <1>a, FlagEnd DEF ReadCache
<1>5. CASE SelectRegistration(r)
  <2>1. \/ End(r, "refused")
        \/ rq'[r].pc \in {"subscription", "attest"} /\ rq'[r].barred = rq[r].barred
    BY <1>5 DEF SelectRegistration, Goto, Request
  <2> QED BY <1>5, <2>1, <1>a, FlagEnd DEF SelectRegistration
<1>6. CASE Attest(r) BY <1>6, <1>a, FlagEnd DEF Attest, Goto, Request
<1>7. CASE InsertRegistration(r)
  <2>1. \/ End(r, "error")
        \/ rq'[r].pc = "commit" /\ rq'[r].barred = rq[r].barred
    BY <1>7 DEF InsertRegistration, Request
  <2> QED BY <1>7, <2>1, <1>a, FlagEnd DEF InsertRegistration
<1>8. CASE CommitRegistration(r) BY <1>8, <1>a DEF CommitRegistration, Goto, Request
<1>9. CASE SelectSubscription(r)
  <2>1. \/ End(r, "refused")
        \/ rq'[r].pc \in {"answered", "count", "register"} /\ rq'[r].barred = rq[r].barred
    BY <1>9 DEF SelectSubscription, AnswerStatus, PassPaywall, Goto, Request
  <2> QED BY <1>9, <2>1, <1>a, FlagEnd DEF SelectSubscription, AnswerStatus, PassPaywall
<1>10. CASE Count(r)
  <2>1. \/ End(r, "refused")
        \/ rq'[r].pc \in {"window", "admitted"} /\ rq'[r].barred = rq[r].barred
    BY <1>10 DEF Count, Request
  <2> QED BY <1>10, <2>1, <1>a, FlagEnd DEF Count
<1>11. CASE SetWindow(r) BY <1>11, <1>a DEF SetWindow, Goto, Request
<1>12. CASE Crash(r)
  BY <1>12, FlagEnd, <1>a DEF Crash, Goto, Request
<1> QED BY <1>1, <1>2, <1>3, <1>4, <1>5, <1>6, <1>7, <1>8, <1>9, <1>10, <1>11, <1>12 DEF RequestStep

LEMMA FlagNext == TypeOK /\ FlagInv /\ [Next]_vars => FlagInv'
<1> SUFFICES ASSUME TypeOK, FlagInv, [Next]_vars PROVE FlagInv'
  OBVIOUS
<1>1. ASSUME NEW r \in Requests, RequestStep(r) PROVE FlagInv'
  BY <1>1, FlagStep
<1>2. ASSUME UNCHANGED <<now, rq>>,
             \A until \in {blockedUntil', revokedUntil'} :
                until = 0 \/ (now < until /\ until <= now + FlagTTL),
             blockedUntil <= blockedUntil', revokedUntil <= revokedUntil',
             blockedUntil' \in Nat, revokedUntil' \in Nat
      PROVE  FlagInv'
  <2>1. \A r \in Requests : Awaited(r) => Awaited(r)'
    BY <1>2, AwaitedKept
  <2>2. \A r \in Requests : rq[r].barred <= blockedUntil => rq[r].barred <= blockedUntil'
    BY <1>2 DEF TypeOK, Request
  <2> QED BY <1>2, <2>1, <2>2 DEF FlagInv
<1>3. CASE SetBlocked
  BY <1>2, <1>3, AccessAssumption DEF SetBlocked, FlagInv, TypeOK
<1>4. CASE SetRevoked
  BY <1>2, <1>4, AccessAssumption DEF SetRevoked, FlagInv, TypeOK
<1>5. CASE Tick
  <2>1. /\ now' = now + 1 /\ rq' = rq
        /\ blockedUntil' = IF blockedUntil = now + 1 THEN 0 ELSE blockedUntil
        /\ revokedUntil' = IF revokedUntil = now + 1 THEN 0 ELSE revokedUntil
    BY <1>5 DEF Tick
  <2>2. \A until \in {blockedUntil', revokedUntil'} :
           until = 0 \/ (now' < until /\ until <= now' + FlagTTL)
    BY <2>1, AccessAssumption DEF FlagInv, TypeOK
  <2>3. \A n \in Nat : /\ n <= now => n <= now'
                       /\ n <= blockedUntil => n <= now' \/ n <= blockedUntil'
                       /\ n <= revokedUntil => n <= now' \/ n <= revokedUntil'
    BY <2>1 DEF TypeOK
  <2>4. \A r \in Requests : rq[r].barred \in Nat
    BY DEF TypeOK, Request
  <2>5. ASSUME NEW r \in Requests
        PROVE  /\ rq'[r].pc = "revoked" => Awaited(r)'
               /\ rq'[r].pc = "state" => rq'[r].barred <= now' \/ rq'[r].barred <= blockedUntil'
               /\ rq'[r].pc \in Beyond => rq'[r].barred <= now'
    <3>1. rq'[r] = rq[r] /\ rq[r].barred \in Nat
      BY <2>1, <2>4
    <3>2. CASE rq[r].pc = "revoked"
      <4>1. Awaited(r)'
        BY <2>3, <3>1, <3>2 DEF FlagInv, Awaited
      <4> QED BY <3>1, <3>2, <4>1 DEF Beyond, Steps
    <3>3. CASE rq[r].pc = "state" BY <2>3, <3>1, <3>3 DEF FlagInv, Beyond, Steps
    <3>4. CASE rq[r].pc \in Beyond BY <2>3, <3>1, <3>4 DEF FlagInv, Beyond, Steps
    <3> QED BY <3>1, <3>2, <3>3, <3>4
  <2> QED BY <2>2, <2>5 DEF FlagInv
<1>6. CASE UNCHANGED <<now, rq, locks>>
  BY <1>2, <1>6 DEF FlagInv, TypeOK, locks
<1> QED BY <1>1, <1>3, <1>4, <1>5, <1>6 DEF Next, CommitWebhook, FillCache, CacheExpires, vars, locks

\* Whoever finds a flag set on arrival gets nowhere before it has ended, although
\* the two flags are set and read one after the other.
THEOREM FlagsHold == Spec => []FlagsBar
<1>1. Init => FlagInv
  BY DEF Init, FlagInv, Blank, Beyond, Steps
<1>2. FlagInv => FlagsBar
  BY DEF FlagInv, FlagsBar, Beyond
<1> QED BY <1>1, <1>2, TypeInit, TypeNext, FlagNext, PTL DEF Spec

-----------------------------------------------------------------------------
(* Rate windows                                                            *)

Counting == {"window", "admitted"}

\* The requests of tier t admitted, or about to be, in the window opened at c.
InWindow(t, c) ==
    {r \in Requests : rq[r].pc \in Counting /\ rq[r].tier = t /\ rq[r].counted \in c..(c + Window - 1)}

\* Somebody opened a window of tier t at time c.
Opened(t, c) == \E o \in Requests : rq[o].opened /\ rq[o].tier = t /\ rq[o].counted = c

\* For as long as a window lasts its key is there, counts what it admits, and does
\* not end before it.
Held(t, c) ==
    /\ c <= now
    /\ Cardinality(InWindow(t, c)) <= Limit[t]
    /\ now < c + Window => /\ Cardinality(InWindow(t, c)) <= win[t].n
                           /\ win[t].n # 0
                           /\ win[t].until = 0 \/ c + Window <= win[t].until

\* A request between INCR and EXPIRE is alone in its tier and its key has no
\* deadline; a key that is not there has counted nobody at this time.
KeysInv ==
    /\ \A t \in Tiers : win[t].n = 0 => win[t].until = 0
    /\ \A r \in Requests :
          /\ rq[r].opened => rq[r].pc \in {"window", "admitted", "crashed"}
          /\ rq[r].pc = "window" => win[rq[r].tier].n # 0 /\ win[rq[r].tier].until = 0
          /\ rq[r].pc \in Counting => /\ rq[r].counted <= now
                                      /\ rq[r].counted = now => win[rq[r].tier].n # 0
    /\ \A r, o \in Requests :
          rq[r].pc = "window" /\ rq[o].pc = "window" /\ rq[r].tier = rq[o].tier => r = o

WindowInv == KeysInv /\ \A t \in Tiers, c \in Nat : Opened(t, c) => Held(t, c)

LEMMA InWindowFinite ==
    ASSUME NEW t, NEW c
    PROVE  IsFiniteSet(InWindow(t, c)) /\ Cardinality(InWindow(t, c)) \in Nat
<1>1. InWindow(t, c) \subseteq Requests
  BY DEF InWindow
<1> QED BY <1>1, AccessAssumption, FS_Subset, FS_CardinalityType

\* A step that adds nobody to a window, and neither counts nor drops its key.
LEMMA HeldKept ==
    ASSUME TypeOK, NEW t \in Tiers, NEW c \in Nat, Held(t, c), now' = now,
           InWindow(t, c)' \subseteq InWindow(t, c),
           win'[t].n \in Nat, win[t].n <= win'[t].n,
           win'[t].until \in {0, win[t].until, now + Window}
    PROVE  Held(t, c)'
<1>1. /\ Cardinality(InWindow(t, c)') <= Cardinality(InWindow(t, c))
      /\ Cardinality(InWindow(t, c)') \in Nat /\ Cardinality(InWindow(t, c)) \in Nat
  BY InWindowFinite, FS_Subset, FS_CardinalityType
<1>2. Limit[t] \in Nat /\ win[t].n \in Nat /\ now \in Nat /\ Window \in Nat
  BY AccessAssumption DEF TypeOK
<1> QED BY <1>1, <1>2 DEF Held

\* A step of a request that is not counted, neither before nor after.
LEMMA WindowQuiet ==
    ASSUME TypeOK, WindowInv, NEW r \in Requests, RequestStep(r), now' = now,
           rq'[r].pc \notin Counting, ~rq'[r].opened,
           win' \in [Tiers -> [n : Nat, until : Nat]],
           \A t \in Tiers : win[t].n <= win'[t].n /\ win'[t].until = win[t].until
    PROVE  WindowInv'
<1>1. \A o \in Requests \ {r} : rq'[o] = rq[o]
  BY Others
<1>2. KeysInv'
  <2>1. \A t \in Tiers : win'[t].n \in Nat /\ win[t].n \in Nat
    BY DEF TypeOK
  <2>2. \A o \in Requests : rq[o].tier \in Tiers
    BY DEF TypeOK, Request
  <2> QED BY <1>1, <2>1, <2>2 DEF WindowInv, KeysInv, Counting
<1>3. ASSUME NEW t \in Tiers, NEW c \in Nat, Opened(t, c)' PROVE Held(t, c)'
  <2>1. Opened(t, c)
    BY <1>1, <1>3 DEF Opened
  <2>2. InWindow(t, c)' \subseteq InWindow(t, c)
    BY <1>1 DEF InWindow
  <2> QED BY <2>1, <2>2, HeldKept DEF WindowInv
<1> QED BY <1>2, <1>3 DEF WindowInv

LEMMA CountHolds ==
    ASSUME TypeOK, WindowInv, NEW r \in Requests, Count(r), ~End(r, "refused")
    PROVE  WindowInv'
<1> DEFINE tr == rq[r].tier
           n == win[tr].n + 1
<1>0. rq[r] \in Request /\ tr \in Tiers /\ n \in Nat \ {0} /\ Limit[tr] \in Nat
  BY AccessAssumption DEF TypeOK, Request
<1>a. /\ rq[r].pc = "count"
      /\ win' = [win EXCEPT ![tr].n = n] /\ now' = now
      /\ rq' = [rq EXCEPT ![r].pc = IF n = 1 THEN "window" ELSE "admitted",
                          ![r].counted = now, ![r].opened = (n = 1)]
  BY Zenon DEF Count
<1>1. /\ rq[r].pc = "count" /\ tr \in Tiers /\ n \in Nat \ {0} /\ n <= Limit[tr]
      /\ win' = [win EXCEPT ![tr].n = n] /\ now' = now
  <2>1. ~(n > Limit[tr])
    BY Zenon DEF Count
  <2>2. n <= Limit[tr]
    BY <1>0, <2>1
  <2> QED BY <1>0, <1>a, <2>2, Zenon
<1>2. /\ \A o \in Requests \ {r} : rq'[o] = rq[o]
      /\ rq'[r].tier = tr /\ rq'[r].counted = now
      /\ rq'[r].pc = IF n = 1 THEN "window" ELSE "admitted"
      /\ rq'[r].opened = (n = 1)
  BY <1>0, <1>a, Zenon DEF TypeOK, Request
<1>3. /\ win'[tr].n = n /\ win'[tr].until = win[tr].until
      /\ \A t \in Tiers \ {tr} : win'[t] = win[t]
  BY <1>1 DEF TypeOK
<1>4. n = 1 => win[tr].n = 0 /\ win[tr].until = 0
  <2>1. win[tr].n \in Nat
    BY <1>0, Zenon DEF TypeOK
  <2>2. win[tr].n = 0 => win[tr].until = 0
    BY <1>0, Zenon DEF WindowInv, KeysInv
  <2> QED BY <2>1, <2>2
<1> HIDE DEF n
<1>5. \A o \in Requests : rq[o].tier \in Tiers
  BY Zenon DEF TypeOK, Request
<1>6. KeysInv'
  <2>1. \A t \in Tiers : win'[t].n = 0 => win'[t].until = 0
    BY <1>1, <1>3 DEF WindowInv, KeysInv
  <2>2. ASSUME NEW o \in Requests
        PROVE  /\ rq'[o].opened => rq'[o].pc \in {"window", "admitted", "crashed"}
               /\ rq'[o].pc = "window" => win'[rq'[o].tier].n # 0 /\ win'[rq'[o].tier].until = 0
               /\ rq'[o].pc \in Counting => /\ rq'[o].counted <= now'
                                            /\ rq'[o].counted = now' => win'[rq'[o].tier].n # 0
    <3>1. CASE o = r BY <1>1, <1>2, <1>3, <1>4, <3>1 DEF TypeOK
    <3>2. CASE o # r
      <4>1. rq'[o] = rq[o]
        BY <1>2, <3>2
      <4>2. CASE rq[o].tier = tr BY <1>1, <1>3, <4>1, <4>2 DEF WindowInv, KeysInv
      <4>3. CASE rq[o].tier # tr BY <1>1, <1>3, <1>5, <4>1, <4>3 DEF WindowInv, KeysInv
      <4> QED BY <4>2, <4>3
    <3> QED BY <3>1, <3>2
  <2>3. ASSUME NEW o \in Requests \ {r}, rq[o].pc = "window", rq[o].tier = tr
        PROVE  n # 1
    BY <1>4, <2>3 DEF WindowInv, KeysInv
  <2>4. ASSUME NEW o \in Requests, NEW q \in Requests,
               rq'[o].pc = "window", rq'[q].pc = "window", rq'[o].tier = rq'[q].tier
        PROVE  o = q
    BY <1>2, <2>3, <2>4 DEF WindowInv, KeysInv
  <2> QED BY <2>1, <2>2, <2>4 DEF KeysInv
<1>7. ASSUME NEW t \in Tiers, NEW c \in Nat, Opened(t, c)' PROVE Held(t, c)'
  <2>1. CASE Opened(t, c) /\ (t # tr \/ now \notin c..(c + Window - 1))
    <3>1. InWindow(t, c)' \subseteq InWindow(t, c)
      BY <1>2, <2>1 DEF InWindow
    <3>2. win'[t].n \in Nat /\ win[t].n \in Nat /\ win[t].n <= win'[t].n /\ win'[t].until = win[t].until
      BY <1>1, <1>3 DEF TypeOK, n
    <3> QED BY <1>1, <2>1, <3>1, <3>2, HeldKept DEF WindowInv
  <2>2. CASE Opened(t, c) /\ t = tr /\ now \in c..(c + Window - 1)
    <3>1. Held(t, c) /\ now < c + Window
      BY <2>2, AccessAssumption DEF WindowInv, TypeOK
    <3>2. r \notin InWindow(t, c)
      BY <1>1 DEF InWindow, Counting
    <3>3. InWindow(t, c)' = InWindow(t, c) \cup {r}
      BY <1>2, <2>2 DEF InWindow, Counting
    <3>4. Cardinality(InWindow(t, c)') = Cardinality(InWindow(t, c)) + 1
      BY <3>2, <3>3, InWindowFinite, FS_AddElement
    <3>5. Cardinality(InWindow(t, c)) + 1 <= n
      BY <1>1, <2>2, <3>1, InWindowFinite DEF Held, n, TypeOK
    <3>6. Cardinality(InWindow(t, c)) \in Nat /\ Limit[t] \in Nat
      BY InWindowFinite, AccessAssumption
    <3> QED BY <1>1, <1>3, <2>2, <3>1, <3>4, <3>5, <3>6 DEF Held
  <2>3. CASE ~Opened(t, c)
    <3>1. n = 1 /\ t = tr /\ c = now
      <4>1. PICK o \in Requests : rq'[o].opened /\ rq'[o].tier = t /\ rq'[o].counted = c
        BY <1>7 DEF Opened
      <4>2. o = r
        BY <1>2, <2>3, <4>1 DEF Opened
      <4>3. n = 1
        BY <1>2, <4>1, <4>2, Zenon
      <4>4. rq'[r].tier = t /\ rq'[r].counted = c
        BY <4>1, <4>2
      <4>5. rq'[r].tier = tr /\ rq'[r].counted = now
        BY <1>2, Zenon
      <4> QED BY <4>3, <4>4, <4>5
    <3>2. \A o \in Requests : rq[o].pc \in Counting /\ rq[o].tier = tr => rq[o].counted < now
      <4>1. win[tr].n = 0
        BY <1>4, <3>1
      <4>2. \A o \in Requests : rq[o].counted \in Nat /\ now \in Nat
        BY DEF TypeOK, Request
      <4>3. \A o \in Requests : rq[o].pc \in Counting /\ rq[o].tier = tr =>
               rq[o].counted <= now /\ rq[o].counted # now
        BY <4>1 DEF WindowInv, KeysInv
      <4> QED BY <4>2, <4>3
    <3>3. InWindow(t, c)' = {r}
      BY <1>2, <3>1, <3>2, AccessAssumption DEF InWindow, Counting, TypeOK, Request
    <3>4. Cardinality(InWindow(t, c)') = 1
      BY <3>3, FS_Singleton
    <3> QED BY <1>1, <1>3, <1>4, <3>1, <3>4, AccessAssumption DEF Held, TypeOK
  <2> QED BY <2>1, <2>2, <2>3
<1> QED BY <1>6, <1>7 DEF WindowInv

LEMMA SetWindowHolds ==
    ASSUME TypeOK, WindowInv, NEW r \in Requests, SetWindow(r)
    PROVE  WindowInv'
<1> DEFINE tr == rq[r].tier
<1>1. /\ rq[r].pc = "window" /\ tr \in Tiers /\ now' = now
      /\ \A o \in Requests \ {r} : rq'[o] = rq[o]
      /\ rq'[r].pc = "admitted" /\ rq'[r].tier = tr /\ rq'[r].counted = rq[r].counted
      /\ rq'[r].opened = rq[r].opened
  BY DEF SetWindow, Goto, TypeOK, Request
<1>2. /\ win'[tr].n = win[tr].n /\ win'[tr].until = now + Window
      /\ \A t \in Tiers \ {tr} : win'[t] = win[t]
  BY <1>1 DEF SetWindow, TypeOK
<1>3. \A o \in Requests : rq[o].tier \in Tiers
  BY DEF TypeOK, Request
<1>4. KeysInv'
  <2>1. win[tr].n # 0
    BY <1>1 DEF WindowInv, KeysInv
  <2>2. \A t \in Tiers : win'[t].n = win[t].n
    BY <1>2
  <2>3. \A o \in Requests : rq'[o].tier = rq[o].tier /\ rq'[o].counted = rq[o].counted
    BY <1>1
  <2>4. \A o \in Requests : rq'[o].pc = "window" => rq[o].pc = "window" /\ rq[o].tier # tr
    BY <1>1 DEF WindowInv, KeysInv
  <2>5. \A o \in Requests : rq'[o].pc \in Counting => rq[o].pc \in Counting
    BY <1>1 DEF Counting
  <2>6. \A o \in Requests : rq'[o].opened => rq'[o].pc \in {"window", "admitted", "crashed"}
    BY <1>1 DEF WindowInv, KeysInv
  <2>7. \A t \in Tiers : win'[t].n = 0 => win'[t].until = 0
    BY <1>1, <1>2, <2>1, <2>2 DEF WindowInv, KeysInv
  <2>8. \A o \in Requests :
           rq'[o].pc = "window" => win'[rq'[o].tier].n # 0 /\ win'[rq'[o].tier].until = 0
    BY <1>2, <1>3, <2>2, <2>3, <2>4 DEF WindowInv, KeysInv
  <2>9. \A o \in Requests : rq'[o].pc \in Counting =>
           rq'[o].counted <= now' /\ (rq'[o].counted = now' => win'[rq'[o].tier].n # 0)
    BY <1>1, <1>3, <2>2, <2>3, <2>5 DEF WindowInv, KeysInv
  <2>10. \A p, o \in Requests :
           rq'[p].pc = "window" /\ rq'[o].pc = "window" /\ rq'[p].tier = rq'[o].tier => p = o
    BY <2>3, <2>4 DEF WindowInv, KeysInv
  <2> QED BY <2>6, <2>7, <2>8, <2>9, <2>10, Zenon DEF KeysInv
<1>5. ASSUME NEW t \in Tiers, NEW c \in Nat, Opened(t, c)' PROVE Held(t, c)'
  <2>1. Opened(t, c)
    BY <1>1, <1>5 DEF Opened
  <2>2. InWindow(t, c)' \subseteq InWindow(t, c)
    BY <1>1 DEF InWindow, Counting
  <2>3. win'[t].n = win[t].n /\ win[t].n \in Nat /\ win'[t].until \in {0, win[t].until, now + Window}
    BY <1>2 DEF TypeOK
  <2> QED BY <1>1, <2>1, <2>2, <2>3, HeldKept DEF WindowInv
<1> QED BY <1>4, <1>5 DEF WindowInv

LEMMA WindowStep ==
    ASSUME TypeOK, WindowInv, NEW r \in Requests, RequestStep(r)
    PROVE  WindowInv'
<1>0. rq \in [Requests -> Request] /\ rq[r] \in Request
  BY DEF TypeOK
<1>a. ASSUME NEW pc \in {"refused", "error", "crashed"}, End(r, pc), UNCHANGED <<now, win>>
      PROVE  WindowInv'
  <2>1. rq'[r].pc = pc /\ pc \notin Counting /\ ~rq'[r].opened
    BY <1>0, <1>a DEF End, Blank, Counting
  <2> QED BY <1>a, <2>1, WindowQuiet DEF TypeOK
<1>b. ASSUME UNCHANGED <<now, win>>, rq'[r].pc \notin Counting, rq'[r].opened = rq[r].opened,
             rq[r].pc \notin {"window", "admitted", "crashed"}
      PROVE  WindowInv'
  <2>1. ~rq'[r].opened
    BY <1>b DEF WindowInv, KeysInv
  <2> QED BY <1>b, <2>1, WindowQuiet DEF TypeOK
<1> USE <1>0 DEF Counting
<1>1. ASSUME NEW guard \in BOOLEAN, NEW android \in BOOLEAN, NEW att \in BOOLEAN,
             Arrive(r, guard, android, att)
      PROVE  WindowInv'
  BY <1>1, <1>b DEF Arrive, Request
<1>2. CASE ReadRevoked(r)
  <2>1. CASE rq' = [rq EXCEPT ![r].pc = IF rq[r].guard THEN "state" ELSE "register", ![r].at = now]
    BY <1>2, <2>1, <1>b DEF ReadRevoked, Request
  <2> QED BY <1>2, <2>1, <1>a DEF ReadRevoked
<1>3. CASE ReadState(r) BY <1>3, <1>a, <1>b DEF ReadState, Goto, Request
<1>4. CASE ReadCache(r)
  <2>1. \/ End(r, "refused")
        \/ rq'[r].pc \in {"register", "count"} /\ rq'[r].opened = rq[r].opened
    BY <1>4 DEF ReadCache, Request
  <2> QED BY <1>4, <2>1, <1>a, <1>b DEF ReadCache
<1>5. CASE SelectRegistration(r)
  <2>1. \/ End(r, "refused")
        \/ rq'[r].pc \in {"subscription", "attest"} /\ rq'[r].opened = rq[r].opened
    BY <1>5 DEF SelectRegistration, Goto, Request
  <2> QED BY <1>5, <2>1, <1>a, <1>b DEF SelectRegistration
<1>6. CASE Attest(r) BY <1>6, <1>a, <1>b DEF Attest, Goto, Request
<1>7. CASE InsertRegistration(r)
  <2>1. \/ End(r, "error")
        \/ rq'[r].pc = "commit" /\ rq'[r].opened = rq[r].opened
    BY <1>7 DEF InsertRegistration, Request
  <2> QED BY <1>7, <2>1, <1>a, <1>b DEF InsertRegistration
<1>8. CASE CommitRegistration(r) BY <1>8, <1>b DEF CommitRegistration, Goto, Request
<1>9. CASE SelectSubscription(r)
  <2>1. \/ End(r, "refused")
        \/ rq'[r].pc \in {"answered", "count", "register"} /\ rq'[r].opened = rq[r].opened
    BY <1>9 DEF SelectSubscription, AnswerStatus, PassPaywall, Goto, Request
  <2> QED BY <1>9, <2>1, <1>a, <1>b DEF SelectSubscription, AnswerStatus, PassPaywall
<1>10. CASE Count(r)
  <2>1. CASE End(r, "refused")
    <3>1. now' = now /\ win' = [win EXCEPT ![rq[r].tier].n = win[rq[r].tier].n + 1] /\ rq[r].tier \in Tiers
      BY <1>10 DEF Count, Request
    <3>2. rq'[r].pc = "refused" /\ ~rq'[r].opened
      BY <2>1 DEF End, Blank
    <3>3. \A t \in Tiers : win[t].n <= win'[t].n /\ win'[t].until = win[t].until
      BY <3>1 DEF TypeOK
    <3>4. win' \in [Tiers -> [n : Nat, until : Nat]]
      <4>1. win[rq[r].tier].n + 1 \in Nat
        BY <3>1 DEF TypeOK
      <4> QED BY <3>1, <4>1 DEF TypeOK
    <3> QED BY <3>1, <3>2, <3>3, <3>4, WindowQuiet
  <2> QED BY <1>10, <2>1, CountHolds
<1>11. CASE SetWindow(r) BY <1>11, SetWindowHolds
<1>12. CASE Crash(r)
  <2>1. CASE rq[r].pc = "window"
    <3>1. /\ UNCHANGED <<now, win>> /\ rq'[r].pc = "crashed"
          /\ rq'[r].opened = rq[r].opened /\ rq'[r].tier = rq[r].tier /\ rq'[r].counted = rq[r].counted
      BY <1>12, <2>1 DEF Crash, Goto, Request
    <3>2. \A o \in Requests \ {r} : rq'[o] = rq[o]
      BY Others
    <3>3. KeysInv'
      BY <3>1, <3>2 DEF WindowInv, KeysInv
    <3>4. ASSUME NEW t \in Tiers, NEW c \in Nat, Opened(t, c)' PROVE Held(t, c)'
      <4>1. Opened(t, c)
        BY <3>1, <3>2, <3>4 DEF Opened
      <4>2. InWindow(t, c)' \subseteq InWindow(t, c)
        BY <3>1, <3>2 DEF InWindow
      <4> QED BY <3>1, <4>1, <4>2, HeldKept DEF WindowInv, TypeOK
    <3> QED BY <3>3, <3>4 DEF WindowInv
  <2>2. CASE rq[r].pc # "window"
    BY <1>12, <2>2, <1>a DEF Crash
  <2> QED BY <2>1, <2>2
<1> QED BY <1>1, <1>2, <1>3, <1>4, <1>5, <1>6, <1>7, <1>8, <1>9, <1>10, <1>11, <1>12 DEF RequestStep

LEMMA WindowNext == TypeOK /\ WindowInv /\ [Next]_vars => WindowInv'
<1> SUFFICES ASSUME TypeOK, WindowInv, [Next]_vars PROVE WindowInv'
  OBVIOUS
<1>1. ASSUME NEW r \in Requests, RequestStep(r) PROVE WindowInv'
  BY <1>1, WindowStep
<1>2. CASE UNCHANGED <<now, rq, win>>
  <2>1. KeysInv'
    BY <1>2 DEF WindowInv, KeysInv
  <2>2. ASSUME NEW t \in Tiers, NEW c \in Nat, Opened(t, c)' PROVE Held(t, c)'
    BY <1>2, <2>2 DEF WindowInv, Opened, Held, InWindow
  <2> QED BY <2>1, <2>2 DEF WindowInv
<1>3. CASE Tick
  <2>1. /\ now' = now + 1 /\ rq' = rq /\ now \in Nat
        /\ \A t \in Tiers : win'[t] = IF win[t].until = now + 1 THEN NoKey ELSE win[t]
    BY <1>3 DEF Tick, TypeOK
  <2>2. KeysInv'
    <3>1. \A t \in Tiers : win'[t].n = 0 => win'[t].until = 0
      BY <2>1 DEF WindowInv, KeysInv, NoKey
    <3>2. \A r \in Requests : rq[r].counted \in Nat /\ rq[r].tier \in Tiers
      BY DEF TypeOK, Request
    <3>3. ASSUME NEW r \in Requests, rq[r].pc = "window"
          PROVE  win'[rq[r].tier].n # 0 /\ win'[rq[r].tier].until = 0
      <4>1. win[rq[r].tier].n # 0 /\ win[rq[r].tier].until = 0
        BY <3>3 DEF WindowInv, KeysInv
      <4> QED BY <2>1, <3>2, <4>1
    <3>4. \A r \in Requests : rq[r].pc \in Counting => rq[r].counted < now'
      BY <2>1, <3>2 DEF WindowInv, KeysInv
    <3> QED BY <2>1, <3>1, <3>2, <3>3, <3>4 DEF WindowInv, KeysInv
  <2>3. ASSUME NEW t \in Tiers, NEW c \in Nat, Opened(t, c)' PROVE Held(t, c)'
    <3>1. Held(t, c)
      BY <2>1, <2>3 DEF WindowInv, Opened
    <3>2. InWindow(t, c)' = InWindow(t, c)
      BY <2>1 DEF InWindow
    <3>3. now' < c + Window => win'[t] = win[t]
      BY <2>1, <3>1, AccessAssumption DEF Held, TypeOK
    <3> QED BY <2>1, <3>1, <3>2, <3>3, AccessAssumption DEF Held
  <2> QED BY <2>2, <2>3 DEF WindowInv
<1> QED BY <1>1, <1>2, <1>3 DEF Next, CommitWebhook, FillCache, CacheExpires, SetBlocked, SetRevoked, vars

\* No window of a tier admits more than its limit, whatever dies between INCR and
\* EXPIRE and however late EXPIRE comes.
THEOREM WindowsHold == Spec => []WindowHolds
<1>1. Init => WindowInv
  BY DEF Init, WindowInv, KeysInv, Opened, Blank, NoKey, Counting
<1>2. TypeOK /\ WindowInv => WindowHolds
  <2> SUFFICES ASSUME TypeOK, WindowInv, NEW o \in Requests, rq[o].opened
               PROVE  Cardinality({r \in Requests :
                         /\ rq[r].pc = "admitted" /\ rq[r].tier = rq[o].tier
                         /\ rq[r].counted \in rq[o].counted..(rq[o].counted + Window - 1)}) <= Limit[rq[o].tier]
    BY DEF WindowHolds
  <2> DEFINE t == rq[o].tier
             c == rq[o].counted
             S == {r \in Requests : /\ rq[r].pc = "admitted" /\ rq[r].tier = t
                                    /\ rq[r].counted \in c..(c + Window - 1)}
  <2>1. t \in Tiers /\ c \in Nat /\ Limit[t] \in Nat
    BY AccessAssumption DEF TypeOK, Request
  <2>2. Cardinality(InWindow(t, c)) <= Limit[t]
    BY <2>1 DEF WindowInv, Opened, Held
  <2>3. S \subseteq InWindow(t, c)
    BY DEF InWindow, Counting
  <2>4. Cardinality(S) <= Cardinality(InWindow(t, c)) /\ Cardinality(S) \in Nat
        /\ Cardinality(InWindow(t, c)) \in Nat
    BY <2>3, InWindowFinite, FS_Subset, FS_CardinalityType
  <2> QED BY <2>1, <2>2, <2>4
<1> QED BY <1>1, <1>2, TypeInit, TypeNext, WindowNext, PTL DEF Spec

-----------------------------------------------------------------------------
(* Windows without an end                                                  *)

\* A request is about to set the TTL of the window it opened, or has died there.
Opener(t) == \E r \in Requests :
                rq[r].opened /\ rq[r].pc \in {"window", "crashed"} /\ rq[r].tier = t

WindowOwed == \A t \in Tiers : win[t].n > 0 /\ win[t].until = 0 => Opener(t)

\* A step of another request takes no opener away.
LEMMA OpenersStay ==
    ASSUME NEW r \in Requests, rq[r].pc \notin {"window", "crashed"}, NEW t, Opener(t),
           \A o \in Requests \ {r} : rq'[o] = rq[o]
    PROVE  Opener(t)'
<1>1. PICK o \in Requests : rq[o].opened /\ rq[o].pc \in {"window", "crashed"} /\ rq[o].tier = t
  BY Zenon DEF Opener
<1>2. rq'[o] = rq[o]
  BY <1>1, Zenon
<1> QED BY <1>1, <1>2, Zenon DEF Opener

LEMMA OwedNext == TypeOK /\ WindowOwed /\ [Next]_vars => WindowOwed'
<1> SUFFICES ASSUME TypeOK, WindowOwed, [Next]_vars PROVE WindowOwed'
  OBVIOUS
<1>a. win \in [Tiers -> [n : Nat, until : Nat]] /\ rq \in [Requests -> Request] /\ now \in Nat
  BY DEF TypeOK
<1>b. \A r \in Requests : rq[r].tier \in Tiers
  BY <1>a DEF Request
<1>1. ASSUME NEW r \in Requests, RequestStep(r), rq[r].pc \notin {"window", "crashed"}, UNCHANGED win
      PROVE  WindowOwed'
  BY <1>1, Others, OpenersStay, Zenon DEF WindowOwed
<1>2. ASSUME NEW r \in Requests,
             \/ \E guard, android, att \in BOOLEAN : Arrive(r, guard, android, att)
             \/ ReadRevoked(r) \/ ReadState(r) \/ ReadCache(r)
             \/ SelectRegistration(r) \/ Attest(r) \/ InsertRegistration(r)
             \/ CommitRegistration(r) \/ SelectSubscription(r)
      PROVE  WindowOwed'
  <2>1. CASE \E guard, android, att \in BOOLEAN : Arrive(r, guard, android, att)
    <3>1. rq[r].pc \notin {"window", "crashed"} /\ UNCHANGED win
      BY <2>1 DEF Arrive
    <3> QED BY <1>1, <2>1, <3>1, Zenon DEF RequestStep
  <2>2. CASE ~\E guard, android, att \in BOOLEAN : Arrive(r, guard, android, att)
    <3>1. rq[r].pc \in Steps \ {"window"}
      BY <1>2, <2>2, Zenon DEF ReadRevoked, ReadState, ReadCache, SelectRegistration, Attest,
         InsertRegistration, CommitRegistration, SelectSubscription, Steps
    <3>2. UNCHANGED win
      BY <1>2, <2>2, Zenon DEF ReadRevoked, ReadState, ReadCache, SelectRegistration, Attest,
         InsertRegistration, CommitRegistration, SelectSubscription
    <3>3. rq[r].pc \notin {"window", "crashed"}
      BY <3>1 DEF Steps
    <3> QED BY <1>1, <1>2, <3>2, <3>3, Zenon DEF RequestStep
  <2> QED BY <2>1, <2>2
<1>3. ASSUME NEW r \in Requests, Count(r) PROVE WindowOwed'
  <2>0. PICK t \in Tiers : t = rq[r].tier
    BY <1>b, Zenon
  <2>1. /\ win' = [win EXCEPT ![t].n = win[t].n + 1]
        /\ rq[r].pc \notin {"window", "crashed"} /\ RequestStep(r)
    BY <1>3, <2>0 DEF Count, RequestStep
  <2>2. /\ win'[t].n = win[t].n + 1 /\ \A u \in Tiers : win'[u].until = win[u].until
        /\ \A u \in Tiers \ {t} : win'[u] = win[u]
    BY <1>a, <2>1
  <2>3. win[t].n = 0 => Opener(t)'
    <3>1. win[t].n = 0 => win[t].n + 1 = 1 /\ ~(1 > Limit[t])
      BY <2>1, AccessAssumption
    <3>2. ASSUME win[t].n = 0
          PROVE  rq' = [rq EXCEPT ![r].pc = "window", ![r].counted = now, ![r].opened = (1 = 1)]
      BY <1>3, <2>0, <3>1, <3>2, Zenon DEF Count
    <3>3. win[t].n = 0 => rq'[r].opened /\ rq'[r].pc = "window" /\ rq'[r].tier = t
      BY <1>a, <2>0, <3>2 DEF Request
    <3> QED BY <3>3, Zenon DEF Opener
  <2>4. ASSUME NEW u \in Tiers, win'[u].n > 0, win'[u].until = 0 PROVE Opener(u)'
    <3>1. CASE u = t /\ win[t].n = 0 BY <2>3, <3>1, Zenon
    <3>2. CASE ~(u = t /\ win[t].n = 0)
      <4>1. win[u].n > 0 /\ win[u].until = 0
        BY <1>a, <2>2, <2>4, <3>2
      <4>2. Opener(u)
        BY <4>1, Zenon DEF WindowOwed
      <4> QED BY <2>1, <4>2, Others, OpenersStay, Zenon
    <3> QED BY <3>1, <3>2
  <2> QED BY <2>4, Zenon DEF WindowOwed
<1>4. ASSUME NEW r \in Requests, SetWindow(r) PROVE WindowOwed'
  <2>1. win' = [win EXCEPT ![rq[r].tier].until = now + Window] /\ RequestStep(r)
    BY <1>4 DEF SetWindow, RequestStep
  <2>2. /\ win'[rq[r].tier].until # 0
        /\ \A u \in Tiers : u # rq[r].tier => win'[u] = win[u]
    BY <1>a, <1>b, <2>1, AccessAssumption
  <2>3. ASSUME NEW u \in Tiers, win'[u].n > 0, win'[u].until = 0 PROVE Opener(u)'
    <3>1. u # rq[r].tier /\ Opener(u)
      BY <2>2, <2>3 DEF WindowOwed
    <3>2. PICK o \in Requests : rq[o].opened /\ rq[o].pc \in {"window", "crashed"} /\ rq[o].tier = u
      BY <3>1, Zenon DEF Opener
    <3>3. rq'[o] = rq[o]
      BY <2>1, <3>1, <3>2, Others, Zenon
    <3> QED BY <3>2, <3>3, Zenon DEF Opener
  <2> QED BY <2>3, Zenon DEF WindowOwed
<1>5. ASSUME NEW r \in Requests, Crash(r) PROVE WindowOwed'
  <2>0. RequestStep(r) /\ UNCHANGED win
    BY <1>5 DEF Crash, RequestStep
  <2>1. CASE rq[r].pc # "window"
    <3>1. rq[r].pc # "crashed"
      BY <1>5 DEF Crash, Steps
    <3> QED BY <1>1, <2>0, <2>1, <3>1
  <2>2. CASE rq[r].pc = "window"
    <3>1. rq' = [rq EXCEPT ![r].pc = "crashed"]
      BY <1>5, <2>2 DEF Crash, Goto
    <3>2. rq'[r].pc = "crashed" /\ rq'[r].opened = rq[r].opened /\ rq'[r].tier = rq[r].tier
      BY <1>a, <3>1 DEF Request
    <3>3. ASSUME NEW t, Opener(t) PROVE Opener(t)'
      <4>1. PICK o \in Requests : rq[o].opened /\ rq[o].pc \in {"window", "crashed"} /\ rq[o].tier = t
        BY <3>3, Zenon DEF Opener
      <4>2. CASE o = r
        BY <3>2, <4>1, <4>2, Zenon DEF Opener
      <4>3. CASE o # r
        <5>1. rq'[o] = rq[o]
          BY <2>0, <4>3, Others, Zenon
        <5> QED BY <4>1, <5>1, Zenon DEF Opener
      <4> QED BY <4>2, <4>3
    <3> QED BY <2>0, <3>3, Zenon DEF WindowOwed
  <2> QED BY <2>1, <2>2
<1>6. CASE Tick
  <2>1. UNCHANGED rq /\ \A t \in Tiers : win'[t] = IF win[t].until = now + 1 THEN NoKey ELSE win[t]
    BY <1>6 DEF Tick
  <2>2. ASSUME NEW t \in Tiers, win'[t].n > 0 PROVE win'[t] = win[t]
    BY <2>1, <2>2 DEF NoKey
  <2> QED BY <2>1, <2>2, Zenon DEF WindowOwed, Opener
<1>7. ASSUME UNCHANGED <<win, rq>> PROVE WindowOwed'
  BY <1>7, Zenon DEF WindowOwed, Opener
<1>8. UNCHANGED vars \/ (\E c \in Contents : CommitWebhook(c)) \/ (\E c \in known : FillCache(c))
      \/ CacheExpires \/ SetBlocked \/ SetRevoked => UNCHANGED <<win, rq>>
  BY DEF vars, CommitWebhook, FillCache, CacheExpires, SetBlocked, SetRevoked
<1> QED BY <1>2, <1>3, <1>4, <1>5, <1>6, <1>7, <1>8, Zenon DEF Next, RequestStep

\* However requests overlap and whenever EXPIRE comes, a rate window without an end
\* is that of a request which is at EXPIRE or died there: nothing else shuts a device
\* out of its tier for good (check_rate_limit).
THEOREM WindowsAreOwed == Spec => []WindowOwed
<1>1. Init => WindowOwed
  BY DEF Init, WindowOwed, NoKey
<1> QED BY <1>1, TypeInit, TypeNext, OwedNext, PTL DEF Spec
=============================================================================
