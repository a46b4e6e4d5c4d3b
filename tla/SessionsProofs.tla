--------------------------- MODULE SessionsProofs ---------------------------
(***************************************************************************)
(* Theorems about Sessions, for every number of users, devices, requests   *)
(* and tokens, and every choice of the lifetimes that satisfies the        *)
(* assumptions of the module.                                              *)
(***************************************************************************)
EXTENDS Lockout, TLAPS

-----------------------------------------------------------------------------
(* Type correctness                                                        *)

\* A handler under way works on a token, or for an owner, that exists.
Working ==
    /\ \A r \in Refreshers : rf[r].pc \notin {"idle", "done"} => rf[r].old \in Minted
    /\ \A r \in Refreshers : rf[r].pc = "set" => rf[r].new \in Minted
    /\ \A v \in Revokers : rv[v].pc \notin {"idle", "done"} => rv[v].who \in Owners

TypeInv == TypeOK /\ Working

\* What TypeOK says about everything but the handlers.
DataOK ==
    /\ now \in Nat
    /\ claims \in Seq(Claim) /\ Len(claims) <= MaxJti
    /\ keyUntil \in [Jti -> Nat]
    /\ held \subseteq Minted
    /\ blockedUntil \in [Devices -> Nat]
    /\ revokedUntil \in [Devices -> Nat]
    /\ overlayUntil \in [Devices -> Nat]
    /\ attempts \in [Devices -> [n : 0..MaxAttempts + 1, until : Nat]]
    /\ published \subseteq ({"block", "CRITICAL_LOCK"} \X Devices)
    /\ lastRevoke \in [Devices -> Nat]
    /\ purged \subseteq Jti

LEMMA TypeParts ==
    TypeOK <=> DataOK /\ rf \in [Refreshers -> RefreshState] /\ rv \in [Revokers -> RevokeState]
BY DEF TypeOK, DataOK

\* Signing one more pair keeps every earlier claim.
LEMMA Mint ==
    ASSUME NEW c \in Claim, claims \in Seq(Claim), Len(claims) < MaxJti,
           claims' = Append(claims, c)
    PROVE  /\ claims' \in Seq(Claim)
           /\ Len(claims) \in Nat /\ Len(claims') = Len(claims) + 1
           /\ Len(claims') <= MaxJti
           /\ Len(claims) + 1 \in Jti /\ Len(claims) + 1 \notin Minted
           /\ Minted' = Minted \cup {Len(claims) + 1}
           /\ \A j \in Minted : claims'[j] = claims[j]
           /\ claims'[Len(claims) + 1] = c
BY BoundsAssumption DEF Minted, Jti

LEMMA ClaimFacts ==
    ASSUME TypeOK, NEW j \in Minted
    PROVE  /\ claims[j] \in Claim
           /\ claims[j].sub \in Users /\ claims[j].dev \in Devices
           /\ claims[j].iat \in Nat /\ claims[j].parent \in Nat
           /\ j \in Jti /\ keyUntil[j] \in Nat /\ now \in Nat
           /\ Owner(j) \in Owners
<1>1. /\ claims \in Seq(Claim) /\ Len(claims) <= MaxJti
      /\ keyUntil \in [Jti -> Nat] /\ now \in Nat
  BY DEF TypeOK
<1>2. claims[j] \in Claim
  BY <1>1 DEF Minted
<1>3. j \in Jti
  BY <1>1, BoundsAssumption DEF Minted, Jti
<1> QED BY <1>1, <1>2, <1>3 DEF Claim, Owner, Owners

LEMMA NextAttemptType ==
    ASSUME TypeOK, NEW d \in Devices
    PROVE  NextAttempt(d) \in 0..MaxAttempts + 1
BY TTLAssumption DEF TypeOK, NextAttempt, Lesser

LEMMA SlidingType ==
    ASSUME NEW t \in Nat
    PROVE  SlidingTTL(t) \in Nat /\ BaseTTL <= SlidingTTL(t)
BY TTLAssumption, BaseWithinMax DEF SlidingTTL, Lesser, Greater

LEMMA DoneFacts ==
    /\ IdleRefresh \in RefreshState
    /\ DoneRefresh \in RefreshState /\ DoneRefresh.pc = "done"
    /\ DoneRevoke \in RevokeState /\ DoneRevoke.pc = "done"
<1>1. 0 \in 0..MaxJti /\ 0 \in Nat
  BY BoundsAssumption
<1>2. IdleRefresh \in RefreshState
  BY <1>1 DEF IdleRefresh, RefreshState
<1>3. DoneRefresh \in RefreshState /\ DoneRefresh.pc = "done"
  BY <1>2 DEF DoneRefresh, RefreshState
<1>4. IdleRevoke \in RevokeState
  BY DEF IdleRevoke, RevokeState
<1>5. DoneRevoke \in RevokeState /\ DoneRevoke.pc = "done"
  BY <1>4 DEF DoneRevoke, RevokeState
<1> QED BY <1>2, <1>3, <1>5

LEMMA RefreshFields ==
    ASSUME TypeInv, NEW r \in Refreshers
    PROVE  /\ rf \in [Refreshers -> RefreshState] /\ rf[r] \in RefreshState
           /\ rf[r].pc \notin {"idle", "done"} => rf[r].old \in Minted
           /\ rf[r].pc = "set" => rf[r].new \in Minted
<1>1. rf \in [Refreshers -> RefreshState]
  BY DEF TypeInv, TypeOK
<1> QED BY <1>1 DEF TypeInv, Working

LEMMA RevokeFields ==
    ASSUME TypeInv, NEW v \in Revokers
    PROVE  /\ rv \in [Revokers -> RevokeState] /\ rv[v] \in RevokeState
           /\ rv[v].pc \notin {"idle", "done"} =>
                 rv[v].who \in Owners /\ rv[v].who[2] \in Devices
<1>1. rv \in [Revokers -> RevokeState]
  BY DEF TypeInv, TypeOK
<1>2. \A o \in Owners : o[2] \in Devices
  BY DEF Owners
<1> QED BY <1>1, <1>2 DEF TypeInv, Working

\* A step in which one refresh handler moves to q.
LEMMA RefreshStep ==
    ASSUME TypeInv, NEW r \in Refreshers, NEW q \in RefreshState,
           rf' = [rf EXCEPT ![r] = q],
           q.pc \notin {"idle", "done"} => q.old \in Minted,
           q.pc = "set" => q.new \in Minted',
           rv' = rv, DataOK', Minted \subseteq Minted'
    PROVE  TypeInv'
<1>1. rf' \in [Refreshers -> RefreshState] /\ rv' \in [Revokers -> RevokeState]
  BY DEF TypeInv, TypeOK
<1>2. Working'
  BY RefreshFields DEF TypeInv, Working
<1> QED BY <1>1, <1>2, TypeParts DEF TypeInv, TypeOK, DataOK, Minted

\* A step in which one call of revoke_and_block moves to q.
LEMMA RevokeStep ==
    ASSUME TypeInv, NEW v \in Revokers, NEW q \in RevokeState,
           rv' = [rv EXCEPT ![v] = q],
           q.pc \notin {"idle", "done"} => q.who \in Owners,
           rf' = rf, DataOK', claims' = claims
    PROVE  TypeInv'
<1>1. rf' \in [Refreshers -> RefreshState] /\ rv' \in [Revokers -> RevokeState]
  BY DEF TypeInv, TypeOK
<1>2. Working'
  BY RevokeFields DEF TypeInv, Working, Minted
<1> QED BY <1>1, <1>2 DEF TypeInv, TypeOK, DataOK, Minted

LEMMA InitType == Init => TypeInv
BY BoundsAssumption, TTLAssumption
   DEF Init, TypeInv, TypeOK, Working, Minted, Jti, IdleRefresh, IdleRevoke, RefreshState,
       RevokeState, Claim

LEMMA StepType == TypeInv /\ [Next]_vars => TypeInv'
<1> SUFFICES ASSUME TypeInv, [Next]_vars PROVE TypeInv'
    OBVIOUS
<1>0. TypeOK /\ DataOK /\ Working
  BY TypeParts DEF TypeInv
<1>1. ASSUME NEW u \in Users, NEW d \in Devices, Login(u, d) PROVE TypeInv'
  <2>1. [sub |-> u, dev |-> d, iat |-> now, parent |-> 0] \in Claim
    BY <1>0 DEF TypeOK, Claim
  <2>2. /\ claims' \in Seq(Claim) /\ Len(claims') <= MaxJti
        /\ Len(claims) + 1 \in Jti /\ Minted' = Minted \cup {Len(claims) + 1}
    BY <1>0, <1>1, <2>1, Mint DEF TypeOK, Login
  <2>3. UNCHANGED <<now, blockedUntil, revokedUntil, overlayUntil, lastRevoke,
                    attempts, published, rf, rv, purged>>
    BY <1>1 DEF Login, flags
  <2>4. keyUntil' \in [Jti -> Nat]
    BY <1>0, <1>1, <2>2, TTLAssumption DEF DataOK, Login
  <2>5. held' \subseteq Minted'
    BY <1>0, <1>1, <2>2 DEF DataOK, Login
  <2>6. TypeOK'
    BY <1>0, <2>2, <2>3, <2>4, <2>5 DEF TypeOK
  <2>7. Working'
    BY <1>0, <2>2, <2>3 DEF Working
  <2> QED BY <2>6, <2>7 DEF TypeInv
<1>2. ASSUME NEW r \in Refreshers, NEW j \in held, NEW good \in BOOLEAN,
             RefreshStart(r, j, good)
      PROVE  TypeInv'
  <2>1. j \in Minted
    BY <1>0 DEF TypeOK
  <2>2. claims[j].dev \in Devices /\ j \in Jti
    BY <1>0, <2>1, ClaimFacts
  <2>3. NextAttempt(claims[j].dev) \in 0..MaxAttempts + 1
    BY <1>0, <2>2, NextAttemptType
  <2> DEFINE d == claims[j].dev
             n == NextAttempt(d)
             q == IF n > MaxAttempts THEN DoneRefresh
                  ELSE [IdleRefresh EXCEPT !.pc = IF n = 1 THEN "window" ELSE "ttl",
                                           !.old = j, !.good = good,
                                           !.late = Successors(j) # {}]
  <2>4. /\ q \in RefreshState
        /\ q.pc \notin {"idle", "done"} => q.old \in Minted
        /\ q.pc # "set"
    <3>1. j \in 0..MaxJti
      BY <2>2, BoundsAssumption DEF Jti
    <3> DEFINE p == IF n = 1 THEN "window" ELSE "ttl"
               fresh == [IdleRefresh EXCEPT !.pc = p, !.old = j, !.good = good,
                                            !.late = Successors(j) # {}]
    <3>2. /\ fresh \in RefreshState
          /\ fresh.pc = p /\ fresh.old = j
      BY <3>1, DoneFacts DEF RefreshState
    <3>3. q = IF n > MaxAttempts THEN DoneRefresh ELSE fresh
      OBVIOUS
    <3>4. p # "set"
      OBVIOUS
    <3> HIDE DEF q, fresh, p
    <3> QED BY <2>1, <3>2, <3>3, <3>4, DoneFacts
  <2>5. rf' = [rf EXCEPT ![r] = q]
    BY <1>2 DEF RefreshStart
  <2>6. attempts' \in [Devices -> [n : 0..MaxAttempts + 1, until : Nat]]
    <3>1. attempts \in [Devices -> [n : 0..MaxAttempts + 1, until : Nat]]
      BY <1>0 DEF TypeOK
    <3>2. attempts' = [attempts EXCEPT ![d] = [n |-> n, until |-> IF n = 1 THEN 0 ELSE @.until]]
      BY <1>2 DEF RefreshStart
    <3> QED BY <2>2, <2>3, <3>1, <3>2
  <2> HIDE DEF q
  <2>7. UNCHANGED <<now, claims, keyUntil, held, blockedUntil, revokedUntil, overlayUntil,
                    lastRevoke, published, rv, purged>>
    BY <1>2 DEF RefreshStart, flags
  <2>8. DataOK' /\ Minted \subseteq Minted'
    BY <1>0, <2>6, <2>7 DEF DataOK, Minted
  <2> QED BY <2>4, <2>5, <2>7, <2>8, RefreshStep
<1>3. ASSUME NEW r \in Refreshers, SetWindow(r) PROVE TypeInv'
  <2>1. rf[r].old \in Minted
    BY <1>3, RefreshFields DEF SetWindow
  <2>2. claims[rf[r].old].dev \in Devices /\ now \in Nat
    BY <1>0, <2>1, ClaimFacts
  <2>3. attempts' \in [Devices -> [n : 0..MaxAttempts + 1, until : Nat]]
    <3>1. attempts \in [Devices -> [n : 0..MaxAttempts + 1, until : Nat]]
      BY <1>0 DEF TypeOK
    <3>2. attempts' = [attempts EXCEPT ![claims[rf[r].old].dev].until = now + AttemptWindow]
      BY <1>3 DEF SetWindow
    <3>3. now + AttemptWindow \in Nat
      BY <2>2, TTLAssumption
    <3> QED BY <2>2, <3>1, <3>2, <3>3
  <2> DEFINE q == [rf[r] EXCEPT !.pc = "ttl"]
  <2>4. q \in RefreshState /\ q.old = rf[r].old /\ q.pc = "ttl"
    BY RefreshFields DEF RefreshState
  <2>5. rf' = [rf EXCEPT ![r] = q]
    BY <1>3, RefreshFields DEF SetWindow
  <2>6. DataOK' /\ Minted \subseteq Minted' /\ rv' = rv
    BY <1>0, <1>3, <2>3 DEF DataOK, SetWindow, flags, Minted
  <2> HIDE DEF q
  <2> QED BY <2>1, <2>4, <2>5, <2>6, RefreshStep
<1>4. ASSUME NEW r \in Refreshers, ReadTTL(r) PROVE TypeInv'
  <2>1. rf[r].old \in Minted
    BY <1>4, RefreshFields DEF ReadTTL
  <2>2. keyUntil[rf[r].old] \in Nat /\ now \in Nat
    BY <1>0, <2>1, ClaimFacts
  <2>3. PICK q \in RefreshState : /\ rf' = [rf EXCEPT ![r] = q]
                                  /\ q.old = rf[r].old /\ q.pc \in {"del", "flag"}
    <3>1. CASE rf[r].good /\ keyUntil[rf[r].old] - now > 0
      <4>1. PICK t \in {keyUntil[rf[r].old] - now - 1, keyUntil[rf[r].old] - now} :
               rf' = [rf EXCEPT ![r].pc = "del", ![r].ttl = t]
        BY <1>4, <3>1 DEF ReadTTL
      <4>2. t \in Nat
        BY <2>2, <3>1
      <4>3. [rf[r] EXCEPT !.pc = "del", !.ttl = t] \in RefreshState
        BY <4>2, RefreshFields DEF RefreshState
      <4>4. rf' = [rf EXCEPT ![r] = [rf[r] EXCEPT !.pc = "del", !.ttl = t]]
        BY <4>1, RefreshFields
      <4> QED BY <4>3, <4>4, RefreshFields DEF RefreshState
    <3>2. CASE ~(rf[r].good /\ keyUntil[rf[r].old] - now > 0)
      <4>1. rf' = [rf EXCEPT ![r] = [rf[r] EXCEPT !.pc = "flag"]]
        BY <1>4, <3>2, RefreshFields DEF ReadTTL
      <4>2. [rf[r] EXCEPT !.pc = "flag"] \in RefreshState
        BY RefreshFields DEF RefreshState
      <4> QED BY <4>1, <4>2, RefreshFields DEF RefreshState
    <3> QED BY <3>1, <3>2
  <2>4. DataOK' /\ Minted \subseteq Minted' /\ rv' = rv
    BY <1>0, <1>4 DEF DataOK, ReadTTL, flags, Minted
  <2> QED BY <2>1, <2>3, <2>4, RefreshStep
<1>5. ASSUME NEW r \in Refreshers, FlagReuse(r) PROVE TypeInv'
  <2>1. rf[r].old \in Minted
    BY <1>5, RefreshFields DEF FlagReuse
  <2>2. claims[rf[r].old].dev \in Devices /\ now \in Nat /\ now + FlagTTL \in Nat
    BY <1>0, <2>1, ClaimFacts, TTLAssumption
  <2>3. /\ revokedUntil' \in [Devices -> Nat]
        /\ lastRevoke' \in [Devices -> Nat]
    BY <1>0, <1>5, <2>2 DEF DataOK, FlagReuse
  <2>4. DataOK' /\ Minted \subseteq Minted' /\ rv' = rv
    BY <1>0, <1>5, <2>3 DEF DataOK, FlagReuse, Minted
  <2>5. DoneRefresh \in RefreshState /\ DoneRefresh.pc = "done"
    BY DoneFacts
  <2> QED BY <1>5, <2>4, <2>5, RefreshStep DEF FlagReuse
<1>6. ASSUME NEW r \in Refreshers, DeleteOld(r) PROVE TypeInv'
  <2> DEFINE old == rf[r].old
             c == [sub |-> claims[old].sub, dev |-> claims[old].dev,
                   iat |-> now, parent |-> old]
             q == [rf[r] EXCEPT !.pc = "set", !.new = Len(claims) + 1]
  <2>1. old \in Minted
    BY <1>6, RefreshFields DEF DeleteOld
  <2>2. c \in Claim /\ old \in Jti
    BY <1>0, <2>1, ClaimFacts DEF Claim, Jti
  <2>3. /\ claims' \in Seq(Claim) /\ Len(claims') <= MaxJti
        /\ Len(claims) + 1 \in Jti /\ Minted' = Minted \cup {Len(claims) + 1}
    BY <1>0, <1>6, <2>2, Mint DEF DataOK, DeleteOld
  <2>4. keyUntil' \in [Jti -> Nat]
    BY <1>0, <1>6, <2>2 DEF DataOK, DeleteOld
  <2>5. UNCHANGED <<now, held, blockedUntil, revokedUntil, overlayUntil, lastRevoke,
                    attempts, published, rv, purged>>
    BY <1>6 DEF DeleteOld, flags
  <2>6. DataOK' /\ Minted \subseteq Minted'
    BY <1>0, <2>3, <2>4, <2>5 DEF DataOK
  <2>7. q \in RefreshState /\ q.pc = "set" /\ q.old = old /\ q.new = Len(claims) + 1
    <3>1. Len(claims) + 1 \in 0..MaxJti
      BY <2>3, BoundsAssumption DEF Jti
    <3> QED BY <3>1, RefreshFields DEF RefreshState
  <2>8. rf' = [rf EXCEPT ![r] = q]
    BY <1>6, RefreshFields DEF DeleteOld
  <2> HIDE DEF q
  <2> QED BY <2>1, <2>3, <2>5, <2>6, <2>7, <2>8, RefreshStep
<1>7. ASSUME NEW r \in Refreshers, StoreNew(r) PROVE TypeInv'
  <2>1. rf[r].new \in Minted /\ rf[r].ttl \in Nat
    BY <1>7, RefreshFields DEF StoreNew, RefreshState
  <2>2. rf[r].new \in Jti /\ now + SlidingTTL(rf[r].ttl) \in Nat
    BY <1>0, <2>1, ClaimFacts, SlidingType
  <2>3. keyUntil' \in [Jti -> Nat] /\ held' \subseteq Minted
    BY <1>0, <1>7, <2>1, <2>2 DEF DataOK, StoreNew
  <2>4. UNCHANGED <<now, claims, blockedUntil, revokedUntil, overlayUntil, lastRevoke,
                    attempts, published, rv, purged>>
    BY <1>7 DEF StoreNew, flags
  <2>5. DataOK' /\ Minted \subseteq Minted'
    BY <1>0, <2>3, <2>4 DEF DataOK, Minted
  <2>6. DoneRefresh \in RefreshState /\ DoneRefresh.pc = "done"
    BY DoneFacts
  <2> QED BY <1>7, <2>4, <2>5, <2>6, RefreshStep DEF StoreNew
<1>8. ASSUME NEW r \in Refreshers, AbortRefresh(r) PROVE TypeInv'
  <2>1. DataOK' /\ Minted \subseteq Minted' /\ rv' = rv
    BY <1>0, <1>8 DEF DataOK, AbortRefresh, flags, Minted
  <2>2. DoneRefresh \in RefreshState /\ DoneRefresh.pc = "done"
    BY DoneFacts
  <2> QED BY <1>8, <2>1, <2>2, RefreshStep DEF AbortRefresh
<1>9. ASSUME NEW v \in Revokers, NEW o \in Owners, NEW pub \in BOOLEAN,
             StartRevoke(v, o, pub)
      PROVE  TypeInv'
  <2> DEFINE q == [IdleRevoke EXCEPT !.pc = "scan", !.who = o, !.pub = pub]
  <2>1. q \in RevokeState /\ q.who = o
    BY DEF IdleRevoke, RevokeState
  <2>2. DataOK' /\ claims' = claims /\ rf' = rf
    BY <1>0, <1>9 DEF DataOK, StartRevoke, flags, Minted
  <2> QED BY <1>9, <2>1, <2>2, RevokeStep DEF StartRevoke
<1>10. ASSUME NEW v \in Revokers, NEW j \in held, NEW block \in BOOLEAN, Logout(v, j, block)
       PROVE  TypeInv'
  <2>1. Owner(j) \in Owners
    BY <1>0, ClaimFacts DEF DataOK
  <2> QED BY <1>9, <1>10, <2>1 DEF Logout
<1>11. ASSUME NEW v \in Revokers, NEW o \in Owners, ServerRevoke(v, o) PROVE TypeInv'
  BY <1>9, <1>11 DEF ServerRevoke
<1>12. ASSUME NEW v \in Revokers, Scan(v) PROVE TypeInv'
  <2> DEFINE present == StoredKeys(rv[v].who)
             owed == IF rv[v].pc = "scan" THEN present ELSE rv[v].owed \cap present
  <2>1. present \subseteq Jti
    BY <1>0, ClaimFacts DEF StoredKeys
  <2>2. rv[v] \in RevokeState /\ rv[v].who \in Owners
    BY <1>12, RevokeFields DEF Scan
  <2>3. PICK page \in SUBSET present, last \in BOOLEAN :
           rv' = [rv EXCEPT ![v].pc = IF last THEN "unlinkLast" ELSE "unlink",
                            ![v].snap = IF rv[v].pc = "scan" THEN present ELSE @,
                            ![v].owed = owed \ page,
                            ![v].batch = page]
    BY <1>12 DEF Scan
  <2> DEFINE q == [rv[v] EXCEPT !.pc = IF last THEN "unlinkLast" ELSE "unlink",
                                !.snap = IF rv[v].pc = "scan" THEN present ELSE @,
                                !.owed = owed \ page,
                                !.batch = page]
  <2> HIDE DEF present
  <2>4. q \in RevokeState /\ q.who = rv[v].who
    BY <2>1, <2>2, <2>3 DEF RevokeState
  <2>5. rv' = [rv EXCEPT ![v] = q]
    BY <2>3, RevokeFields
  <2>6. DataOK' /\ claims' = claims /\ rf' = rf
    BY <1>0, <1>12 DEF DataOK, Scan, flags, Minted
  <2> HIDE DEF q
  <2> QED BY <2>2, <2>4, <2>5, <2>6, RevokeStep
<1>13. ASSUME NEW v \in Revokers, Unlink(v) PROVE TypeInv'
  <2>1. rv[v] \in RevokeState /\ rv[v].who \in Owners
    BY <1>13, RevokeFields DEF Unlink
  <2>2. keyUntil' \in [Jti -> Nat]
    BY <1>0, <1>13 DEF DataOK, Unlink
  <2>3. purged' \subseteq Jti
    <3>1. rv[v].snap \subseteq Jti
      BY <2>1 DEF RevokeState
    <3> QED BY <1>0, <1>13, <3>1 DEF DataOK, Unlink
  <2>4. DataOK' /\ claims' = claims /\ rf' = rf
    BY <1>0, <1>13, <2>2, <2>3 DEF DataOK, Unlink, flags, Minted
  <2>5. PICK q \in RevokeState : rv' = [rv EXCEPT ![v] = q] /\ q.who = rv[v].who
    <3>1. CASE rv[v].pc = "unlink"
      <4>1. [rv[v] EXCEPT !.pc = "rescan", !.batch = {}] \in RevokeState
        BY <2>1 DEF RevokeState
      <4>2. rv' = [rv EXCEPT ![v] = [rv[v] EXCEPT !.pc = "rescan", !.batch = {}]]
        BY <1>13, <3>1, RevokeFields DEF Unlink
      <4> QED BY <4>1, <4>2, <2>1 DEF RevokeState
    <3>2. CASE rv[v].pc = "unlinkLast"
      <4> DEFINE q == [rv[v] EXCEPT !.pc = IF rv[v].pub THEN "publish" ELSE "block",
                                    !.snap = {}, !.owed = {}, !.batch = {}]
      <4>1. q \in RevokeState /\ q.who = rv[v].who
        BY <2>1 DEF RevokeState
      <4>2. rv' = [rv EXCEPT ![v] = q]
        BY <1>13, <3>2, RevokeFields DEF Unlink
      <4> QED BY <4>1, <4>2
    <3> QED BY <1>13, <3>1, <3>2 DEF Unlink
  <2> QED BY <2>1, <2>4, <2>5, RevokeStep
<1>14. ASSUME NEW v \in Revokers, PublishBlock(v) PROVE TypeInv'
  <2>1. rv[v] \in RevokeState /\ rv[v].who \in Owners /\ rv[v].who[2] \in Devices
    BY <1>14, RevokeFields DEF PublishBlock
  <2> DEFINE q == [rv[v] EXCEPT !.pc = "block"]
  <2>2. q \in RevokeState /\ q.who = rv[v].who
    BY <2>1 DEF RevokeState
  <2>3. rv' = [rv EXCEPT ![v] = q]
    BY <1>14, RevokeFields DEF PublishBlock
  <2>4. DataOK' /\ claims' = claims /\ rf' = rf
    <3>1. now + FlagTTL \in Nat
      BY <1>0, TTLAssumption DEF DataOK
    <3>2. /\ blockedUntil' \in [Devices -> Nat] /\ revokedUntil' \in [Devices -> Nat]
          /\ lastRevoke' \in [Devices -> Nat] /\ overlayUntil' = overlayUntil
          /\ published' \subseteq ({"block", "CRITICAL_LOCK"} \X Devices)
      BY <1>0, <1>14, <2>1, <3>1 DEF DataOK, PublishBlock, flags
    <3> QED BY <1>0, <1>14, <3>2 DEF DataOK, PublishBlock, Minted
  <2> HIDE DEF q
  <2> QED BY <2>1, <2>2, <2>3, <2>4, RevokeStep
<1>15. ASSUME NEW v \in Revokers, MarkBlocked(v) PROVE TypeInv'
  <2>1. rv[v] \in RevokeState /\ rv[v].who \in Owners /\ rv[v].who[2] \in Devices
    BY <1>15, RevokeFields DEF MarkBlocked
  <2> DEFINE q == [rv[v] EXCEPT !.pc = "revoke"]
  <2>2. q \in RevokeState /\ q.who = rv[v].who
    BY <2>1 DEF RevokeState
  <2>3. rv' = [rv EXCEPT ![v] = q]
    BY <1>15, RevokeFields DEF MarkBlocked
  <2>4. DataOK' /\ claims' = claims /\ rf' = rf
    <3>1. now + FlagTTL \in Nat
      BY <1>0, TTLAssumption DEF DataOK
    <3>2. /\ blockedUntil' \in [Devices -> Nat] /\ revokedUntil' \in [Devices -> Nat]
          /\ lastRevoke' \in [Devices -> Nat] /\ overlayUntil' = overlayUntil
          /\ published' \subseteq ({"block", "CRITICAL_LOCK"} \X Devices)
      BY <1>0, <1>15, <2>1, <3>1 DEF DataOK, MarkBlocked, flags
    <3> QED BY <1>0, <1>15, <3>2 DEF DataOK, MarkBlocked, Minted
  <2> HIDE DEF q
  <2> QED BY <2>1, <2>2, <2>3, <2>4, RevokeStep
<1>16. ASSUME NEW v \in Revokers, MarkRevoked(v) PROVE TypeInv'
  <2>1. rv[v] \in RevokeState /\ rv[v].who \in Owners /\ rv[v].who[2] \in Devices
    BY <1>16, RevokeFields DEF MarkRevoked
  <2> DEFINE q == [rv[v] EXCEPT !.pc = "overlay"]
  <2>2. q \in RevokeState /\ q.who = rv[v].who
    BY <2>1 DEF RevokeState
  <2>3. rv' = [rv EXCEPT ![v] = q]
    BY <1>16, RevokeFields DEF MarkRevoked
  <2>4. DataOK' /\ claims' = claims /\ rf' = rf
    <3>1. now + FlagTTL \in Nat
      BY <1>0, TTLAssumption DEF DataOK
    <3>2. /\ blockedUntil' \in [Devices -> Nat] /\ revokedUntil' \in [Devices -> Nat]
          /\ lastRevoke' \in [Devices -> Nat] /\ overlayUntil' = overlayUntil
          /\ published' \subseteq ({"block", "CRITICAL_LOCK"} \X Devices)
      BY <1>0, <1>16, <2>1, <3>1 DEF DataOK, MarkRevoked, flags
    <3> QED BY <1>0, <1>16, <3>2 DEF DataOK, MarkRevoked, Minted
  <2> HIDE DEF q
  <2> QED BY <2>1, <2>2, <2>3, <2>4, RevokeStep
<1>17. ASSUME NEW v \in Revokers, MarkOverlay(v) PROVE TypeInv'
  <2>1. rv[v].who[2] \in Devices
    BY <1>17, RevokeFields DEF MarkOverlay
  <2>2. DataOK' /\ claims' = claims /\ rf' = rf
    BY <1>0, <1>17, <2>1, TTLAssumption DEF DataOK, MarkOverlay, flags, Minted
  <2>3. DoneRevoke \in RevokeState /\ DoneRevoke.pc = "done"
    BY DoneFacts
  <2> QED BY <1>17, <2>2, <2>3, RevokeStep DEF MarkOverlay
<1>18. ASSUME NEW v \in Revokers, AbortRevoke(v) PROVE TypeInv'
  <2>1. DataOK' /\ claims' = claims /\ rf' = rf
    BY <1>0, <1>18 DEF DataOK, AbortRevoke, flags, Minted
  <2>2. DoneRevoke \in RevokeState /\ DoneRevoke.pc = "done"
    BY DoneFacts
  <2> QED BY <1>18, <2>1, <2>2, RevokeStep DEF AbortRevoke
<1>19. CASE Tick
  BY <1>0, <1>19 DEF TypeInv, TypeOK, Working, Tick, flags, Minted
<1>20. CASE UNCHANGED vars
  BY <1>0, <1>20 DEF TypeInv, TypeOK, Working, vars, Minted
<1> QED
  BY <1>1, <1>2, <1>3, <1>4, <1>5, <1>6, <1>7, <1>8, <1>10, <1>11, <1>12, <1>13, <1>14,
     <1>15, <1>16, <1>17, <1>18, <1>19, <1>20
     DEF Next, RefreshNext, RevokeNext

\* Every state the server and its store reach is well typed.
THEOREM TypeCorrect == Spec => []TypeOK
<1>1. Spec => []TypeInv
  BY InitType, StepType, PTL DEF Spec
<1>2. TypeInv => TypeOK
  BY DEF TypeInv
<1> QED BY <1>1, <1>2, PTL

-----------------------------------------------------------------------------
(* What each action does, point by point                                   *)

Others(r) == \A s \in Refreshers : s # r => rf'[s] = rf[s]
NextJti == Len(claims) + 1

\* The facts about a freshly signed pair that Login and DeleteOld share.
Signed(c) ==
    /\ NextJti \in Jti /\ NextJti \notin Minted /\ NextJti \notin held
    /\ Minted' = Minted \cup {NextJti}
    /\ \A j \in Minted : claims'[j] = claims[j]
    /\ claims'[NextJti] = c

LEMMA SignedFacts ==
    ASSUME TypeInv, NEW c \in Claim, Len(claims) < MaxJti, claims' = Append(claims, c)
    PROVE  Signed(c)
<1>1. claims \in Seq(Claim) /\ held \subseteq Minted
  BY DEF TypeInv, TypeOK
<1> QED BY <1>1, Mint DEF Signed, NextJti

LEMMA LoginEffect ==
    ASSUME TypeInv, NEW u \in Users, NEW d \in Devices, Login(u, d)
    PROVE  /\ Signed([sub |-> u, dev |-> d, iat |-> now, parent |-> 0])
           /\ keyUntil'[NextJti] = now + BaseTTL
           /\ \A j \in Jti : j # NextJti => keyUntil'[j] = keyUntil[j]
           /\ held' = held \cup {NextJti}
           /\ UNCHANGED <<now, revokedUntil, lastRevoke, rf, rv, purged>>
<1>1. [sub |-> u, dev |-> d, iat |-> now, parent |-> 0] \in Claim
  BY DEF TypeInv, TypeOK, Claim
<1>2. Signed([sub |-> u, dev |-> d, iat |-> now, parent |-> 0])
  BY <1>1, SignedFacts DEF Login
<1>3. keyUntil \in [Jti -> Nat] /\ keyUntil' = [keyUntil EXCEPT ![NextJti] = now + BaseTTL]
  BY DEF TypeInv, TypeOK, Login, NextJti
<1> QED BY <1>2, <1>3 DEF Login, flags, Signed, NextJti

LEMMA RefreshStartEffect ==
    ASSUME TypeInv, NEW r \in Refreshers, NEW j \in held, NEW good \in BOOLEAN,
           RefreshStart(r, j, good)
    PROVE  /\ \/ rf'[r] = DoneRefresh
              \/ /\ rf'[r].pc \in {"window", "ttl"} /\ rf'[r].old = j
                 /\ rf'[r].late = (Successors(j) # {})
           /\ Others(r)
           /\ UNCHANGED <<now, claims, keyUntil, held, revokedUntil, lastRevoke, rv, purged>>
<1>1. rf \in [Refreshers -> RefreshState]
  BY RefreshFields
<1> DEFINE n == NextAttempt(claims[j].dev)
           p == IF n = 1 THEN "window" ELSE "ttl"
           fresh == [IdleRefresh EXCEPT !.pc = p, !.old = j, !.good = good,
                                        !.late = Successors(j) # {}]
<1>2. rf' = [rf EXCEPT ![r] = IF n > MaxAttempts THEN DoneRefresh ELSE fresh]
  BY DEF RefreshStart
<1>3. fresh.pc = p /\ fresh.old = j /\ fresh.late = (Successors(j) # {})
  BY DEF IdleRefresh
<1> HIDE DEF fresh
<1>4. /\ rf'[r] = DoneRefresh \/ rf'[r] = fresh
      /\ Others(r)
  BY <1>1, <1>2 DEF Others
<1> QED BY <1>3, <1>4 DEF RefreshStart, flags

LEMMA ReadTTLEffect ==
    ASSUME TypeInv, NEW r \in Refreshers, ReadTTL(r)
    PROVE  /\ rf'[r].old = rf[r].old /\ rf'[r].good = rf[r].good /\ rf'[r].late = rf[r].late
           /\ rf[r].pc = "ttl"
           /\ \/ rf'[r].pc = "del" /\ keyUntil[rf[r].old] > now
              \/ /\ rf'[r].pc = "flag"
                 /\ rf[r].good => keyUntil[rf[r].old] <= now
           /\ Others(r)
           /\ UNCHANGED <<now, claims, keyUntil, held, revokedUntil, lastRevoke, rv, purged>>
<1>1. rf \in [Refreshers -> RefreshState] /\ rf[r] \in RefreshState
  BY RefreshFields
<1>2. rf[r].old \in Minted
  BY RefreshFields DEF ReadTTL
<1>3. keyUntil[rf[r].old] \in Nat /\ now \in Nat
  BY <1>2, ClaimFacts DEF TypeInv
<1>4. CASE rf[r].good /\ keyUntil[rf[r].old] - now > 0
  <2>1. PICK t \in {keyUntil[rf[r].old] - now - 1, keyUntil[rf[r].old] - now} :
           rf' = [rf EXCEPT ![r].pc = "del", ![r].ttl = t]
    BY <1>4 DEF ReadTTL
  <2>2. rf' = [rf EXCEPT ![r] = [rf[r] EXCEPT !.pc = "del", !.ttl = t]]
    BY <2>1, <1>1
  <2>3. rf'[r] = [rf[r] EXCEPT !.pc = "del", !.ttl = t] /\ Others(r)
    BY <2>2, <1>1 DEF Others
  <2>4. /\ rf'[r].pc = "del" /\ rf'[r].old = rf[r].old
        /\ rf'[r].good = rf[r].good /\ rf'[r].late = rf[r].late
    BY <2>3, <1>1 DEF RefreshState
  <2>5. keyUntil[rf[r].old] > now
    BY <1>3, <1>4
  <2> QED BY <2>3, <2>4, <2>5 DEF ReadTTL, flags
<1>5. CASE ~(rf[r].good /\ keyUntil[rf[r].old] - now > 0)
  <2>1. rf' = [rf EXCEPT ![r] = [rf[r] EXCEPT !.pc = "flag"]]
    BY <1>1, <1>5 DEF ReadTTL
  <2>2. rf'[r] = [rf[r] EXCEPT !.pc = "flag"] /\ Others(r)
    BY <2>1, <1>1 DEF Others
  <2> QED BY <2>2, <1>1, <1>3, <1>5 DEF ReadTTL, flags, RefreshState
<1> QED BY <1>4, <1>5

LEMMA DeleteOldEffect ==
    ASSUME TypeInv, NEW r \in Refreshers, DeleteOld(r)
    PROVE  /\ rf[r].pc = "del" /\ rf[r].old \in Jti
           /\ Signed([sub |-> claims[rf[r].old].sub, dev |-> claims[rf[r].old].dev,
                      iat |-> now, parent |-> rf[r].old])
           /\ keyUntil'[rf[r].old] = 0
           /\ \A j \in Jti : j # rf[r].old => keyUntil'[j] = keyUntil[j]
           /\ rf'[r].pc = "set" /\ rf'[r].new = NextJti
           /\ rf'[r].old = rf[r].old /\ rf'[r].late = rf[r].late
           /\ Others(r)
           /\ UNCHANGED <<now, held, revokedUntil, lastRevoke, rv, purged>>
<1>1. rf \in [Refreshers -> RefreshState] /\ rf[r] \in RefreshState /\ rf[r].old \in Minted
  BY RefreshFields DEF DeleteOld
<1> DEFINE old == rf[r].old
           c == [sub |-> claims[old].sub, dev |-> claims[old].dev, iat |-> now, parent |-> old]
<1>2. c \in Claim /\ old \in Jti
  BY <1>1, ClaimFacts DEF TypeInv, Claim, Jti
<1>3. Signed(c)
  BY <1>2, SignedFacts DEF DeleteOld
<1>4. keyUntil \in [Jti -> Nat] /\ keyUntil' = [keyUntil EXCEPT ![old] = 0]
  BY DEF TypeInv, TypeOK, DeleteOld
<1>5. rf' = [rf EXCEPT ![r] = [rf[r] EXCEPT !.pc = "set", !.new = NextJti]]
  BY <1>1 DEF DeleteOld, NextJti
<1>6. rf'[r] = [rf[r] EXCEPT !.pc = "set", !.new = NextJti] /\ Others(r)
  BY <1>1, <1>5 DEF Others
<1>7. /\ rf'[r].pc = "set" /\ rf'[r].new = NextJti
      /\ rf'[r].old = rf[r].old /\ rf'[r].late = rf[r].late
  BY <1>1, <1>6 DEF RefreshState
<1>8. UNCHANGED <<now, held, revokedUntil, lastRevoke, rv, purged>> /\ rf[r].pc = "del"
  BY DEF DeleteOld, flags
<1> HIDE DEF c
<1>9. keyUntil'[old] = 0 /\ \A j \in Jti : j # old => keyUntil'[j] = keyUntil[j]
  BY <1>2, <1>4
<1> QED BY <1>2, <1>3, <1>6, <1>7, <1>8, <1>9 DEF c

LEMMA StoreNewEffect ==
    ASSUME TypeInv, NEW r \in Refreshers, StoreNew(r)
    PROVE  /\ rf[r].pc = "set" /\ rf[r].new \in Minted /\ rf[r].new \in Jti
           /\ keyUntil'[rf[r].new] >= now + BaseTTL
           /\ \A j \in Jti : j # rf[r].new => keyUntil'[j] = keyUntil[j]
           /\ held' = held \cup {rf[r].new}
           /\ rf'[r] = DoneRefresh /\ Others(r)
           /\ UNCHANGED <<now, claims, revokedUntil, lastRevoke, rv, purged>>
<1>1. /\ rf \in [Refreshers -> RefreshState] /\ rf[r] \in RefreshState
      /\ rf[r].new \in Minted
  BY RefreshFields DEF StoreNew
<1>2. rf[r].new \in Jti /\ rf[r].ttl \in Nat /\ now \in Nat
  BY <1>1, ClaimFacts DEF TypeInv, RefreshState
<1>3. /\ keyUntil \in [Jti -> Nat]
      /\ keyUntil' = [keyUntil EXCEPT ![rf[r].new] = now + SlidingTTL(rf[r].ttl)]
  BY DEF TypeInv, TypeOK, StoreNew
<1>4. keyUntil'[rf[r].new] >= now + BaseTTL
  BY <1>2, <1>3, SlidingType, TTLAssumption
<1>5. \A j \in Jti : j # rf[r].new => keyUntil'[j] = keyUntil[j]
  BY <1>2, <1>3
<1>6. rf'[r] = DoneRefresh /\ Others(r)
  BY <1>1 DEF StoreNew, Others
<1> QED BY <1>1, <1>2, <1>4, <1>5, <1>6 DEF StoreNew, flags

\* The steps of a refresh handler that touch neither tokens nor keys.
LEMMA SetWindowEffect ==
    ASSUME TypeInv, NEW r \in Refreshers, SetWindow(r)
    PROVE  /\ rf[r].pc = "window" /\ rf'[r].pc = "ttl" /\ rf'[r].old = rf[r].old
           /\ rf'[r].late = rf[r].late
           /\ Others(r)
           /\ UNCHANGED <<now, claims, keyUntil, held, revokedUntil, lastRevoke, rv, purged>>
<1>1. rf \in [Refreshers -> RefreshState] /\ rf[r] \in RefreshState
  BY RefreshFields
<1>2. rf' = [rf EXCEPT ![r] = [rf[r] EXCEPT !.pc = "ttl"]]
  BY <1>1 DEF SetWindow
<1>3. rf'[r] = [rf[r] EXCEPT !.pc = "ttl"] /\ Others(r)
  BY <1>1, <1>2 DEF Others
<1> QED BY <1>1, <1>3 DEF SetWindow, flags, RefreshState

LEMMA FinishEffect ==
    ASSUME TypeInv, NEW r \in Refreshers, FlagReuse(r) \/ AbortRefresh(r)
    PROVE  /\ rf'[r] = DoneRefresh /\ Others(r)
           /\ UNCHANGED <<now, claims, keyUntil, held, rv, purged>>
<1>1. rf \in [Refreshers -> RefreshState]
  BY RefreshFields
<1>2. rf' = [rf EXCEPT ![r] = DoneRefresh]
  BY DEF FlagReuse, AbortRefresh
<1> QED BY <1>1, <1>2 DEF FlagReuse, AbortRefresh, flags, Others

\* The steps of revoke_and_block leave tokens and refresh handlers alone, and
\* only Unlink touches the keys.
LEMMA RevokeEffect ==
    ASSUME NEW v \in Revokers, RevokeNext(v)
    PROVE  /\ UNCHANGED <<now, claims, held, rf>>
           /\ keyUntil' = keyUntil \/ Unlink(v)
BY DEF RevokeNext, Logout, ServerRevoke, StartRevoke, Scan, Unlink, PublishBlock, MarkBlocked,
       MarkRevoked, MarkOverlay, AbortRevoke

LEMMA UnlinkEffect ==
    ASSUME TypeInv, NEW v \in Revokers, Unlink(v)
    PROVE  /\ \A j \in Jti : keyUntil'[j] = IF j \in rv[v].batch THEN 0 ELSE keyUntil[j]
           /\ UNCHANGED <<now, claims, held, rf>>
BY DEF Unlink

-----------------------------------------------------------------------------
(* Revocation outlives the access tokens it is meant for                   *)

\* Two writers set revoked:device, always for FlagTTL from the moment that
\* lastRevoke records.
FlagInv ==
    /\ now >= 1
    /\ \A j \in Minted : claims[j].iat >= 1
    /\ \A d \in Devices : lastRevoke[d] # 0 => revokedUntil[d] = lastRevoke[d] + FlagTTL

LEMMA FlagFrame ==
    ASSUME FlagInv, UNCHANGED <<now, claims, revokedUntil, lastRevoke>>
    PROVE  FlagInv'
BY DEF FlagInv, Minted

LEMMA FlagSigned ==
    ASSUME TypeInv, FlagInv, NEW c, c.iat = now, Signed(c),
           UNCHANGED <<now, revokedUntil, lastRevoke>>
    PROVE  FlagInv'
BY DEF FlagInv, Signed

\* A step that sets revoked:device, in FlagReuse or MarkRevoked.
LEMMA FlagSet ==
    ASSUME TypeInv, FlagInv, NEW d \in Devices,
           revokedUntil' = [revokedUntil EXCEPT ![d] = now + FlagTTL],
           lastRevoke' = [lastRevoke EXCEPT ![d] = now],
           UNCHANGED <<now, claims>>
    PROVE  FlagInv'
<1>1. revokedUntil \in [Devices -> Nat] /\ lastRevoke \in [Devices -> Nat]
  BY DEF TypeInv, TypeOK
<1> QED BY <1>1 DEF FlagInv, Minted

LEMMA FlagStep == TypeInv /\ FlagInv /\ [Next]_vars => FlagInv'
<1> SUFFICES ASSUME TypeInv, FlagInv, [Next]_vars PROVE FlagInv'
    OBVIOUS
<1>1. ASSUME NEW u \in Users, NEW d \in Devices, Login(u, d) PROVE FlagInv'
  BY <1>1, LoginEffect, FlagSigned
<1>2. ASSUME NEW r \in Refreshers, NEW j \in held, NEW good \in BOOLEAN,
             RefreshStart(r, j, good)
      PROVE  FlagInv'
  BY <1>2, RefreshStartEffect, FlagFrame
<1>3. ASSUME NEW r \in Refreshers, SetWindow(r) PROVE FlagInv'
  BY <1>3, SetWindowEffect, FlagFrame
<1>4. ASSUME NEW r \in Refreshers, ReadTTL(r) PROVE FlagInv'
  BY <1>4, ReadTTLEffect, FlagFrame
<1>5. ASSUME NEW r \in Refreshers, FlagReuse(r) PROVE FlagInv'
  <2>1. rf[r].old \in Minted
    BY <1>5, RefreshFields DEF FlagReuse
  <2>2. claims[rf[r].old].dev \in Devices
    BY <2>1, ClaimFacts DEF TypeInv
  <2> QED BY <1>5, <2>2, FlagSet DEF FlagReuse
<1>6. ASSUME NEW r \in Refreshers, DeleteOld(r) PROVE FlagInv'
  <2> DEFINE c == [sub |-> claims[rf[r].old].sub, dev |-> claims[rf[r].old].dev,
                   iat |-> now, parent |-> rf[r].old]
  <2>1. c.iat = now
    OBVIOUS
  <2> HIDE DEF c
  <2> QED BY <1>6, <2>1, DeleteOldEffect, FlagSigned DEF c
<1>7. ASSUME NEW r \in Refreshers, StoreNew(r) PROVE FlagInv'
  BY <1>7, StoreNewEffect, FlagFrame
<1>8. ASSUME NEW r \in Refreshers, AbortRefresh(r) PROVE FlagInv'
  BY <1>8, FlagFrame DEF AbortRefresh, flags
<1>9. ASSUME NEW v \in Revokers, RevokeNext(v) PROVE FlagInv'
  <2>1. CASE MarkRevoked(v)
    <3>1. rv[v].who[2] \in Devices
      BY <2>1, RevokeFields DEF MarkRevoked
    <3> QED BY <2>1, <3>1, FlagSet DEF MarkRevoked
  <2>2. CASE ~MarkRevoked(v)
    <3>1. UNCHANGED <<now, claims, revokedUntil, lastRevoke>>
      BY <1>9, <2>2
         DEF RevokeNext, Logout, ServerRevoke, StartRevoke, Scan, Unlink, PublishBlock,
             MarkBlocked, MarkOverlay, AbortRevoke, flags
    <3> QED BY <3>1, FlagFrame
  <2> QED BY <2>1, <2>2
<1>10. CASE Tick
  <2>1. now' = now + 1 /\ UNCHANGED <<claims, revokedUntil, lastRevoke>>
    BY <1>10 DEF Tick, flags
  <2>2. now' >= 1
    BY <2>1 DEF FlagInv, TypeInv, TypeOK
  <2> QED BY <2>1, <2>2 DEF FlagInv, Minted
<1>11. CASE UNCHANGED vars
  BY <1>11, FlagFrame DEF vars
<1> QED
  BY <1>1, <1>2, <1>3, <1>4, <1>5, <1>6, <1>7, <1>8, <1>9, <1>10, <1>11 DEF Next, RefreshNext

LEMMA FlagImplies == TypeInv /\ FlagInv => RevokedPairsStayOut
<1> SUFFICES ASSUME TypeInv, FlagInv, NEW j \in held,
                    claims[j].iat <= lastRevoke[claims[j].dev], Authenticates(j)
             PROVE  FALSE
  BY DEF RevokedPairsStayOut
<1>1. j \in Minted
  BY DEF TypeInv, TypeOK
<1>2. claims[j].iat \in Nat /\ claims[j].iat >= 1 /\ claims[j].dev \in Devices /\ now \in Nat
  BY <1>1, ClaimFacts DEF TypeInv, FlagInv
<1>3. lastRevoke[claims[j].dev] \in Nat /\ revokedUntil[claims[j].dev] \in Nat
  BY <1>2 DEF TypeInv, TypeOK
<1>4. revokedUntil[claims[j].dev] = lastRevoke[claims[j].dev] + FlagTTL
  BY <1>2, <1>3 DEF FlagInv
<1> QED BY <1>2, <1>3, <1>4, TTLAssumption, FlagOutlivesAccess DEF Authenticates

\* No access token signed up to a revocation of its device is accepted again.
THEOREM RevocationOutlivesAccess == Spec => []RevokedPairsStayOut
<1>1. Init => FlagInv
  BY DEF Init, FlagInv, Minted
<1>2. Spec => [](TypeInv /\ FlagInv)
  BY <1>1, InitType, StepType, FlagStep, PTL DEF Spec
<1> QED BY <1>2, FlagImplies, PTL

-----------------------------------------------------------------------------
(* Keys, tokens and what the handlers remember about them                  *)

\* A jti that is not signed has no key; a pair whose key is not stored yet is
\* known to one handler only and to no client; handlers work on tokens clients
\* hold.
KeyInv ==
    /\ \A j \in Jti : j \notin Minted => keyUntil[j] = 0
    /\ \A r \in Refreshers : rf[r].pc = "set" => keyUntil[rf[r].new] = 0 /\ rf[r].new \notin held
    /\ \A r, s \in Refreshers :
          rf[r].pc = "set" /\ rf[s].pc = "set" /\ rf[r].new = rf[s].new => r = s
    /\ \A r \in Refreshers : rf[r].pc \notin {"idle", "done"} => rf[r].old \in held

\* The parent of a signed pair has lost its key for good, and a request that
\* came after that is on its way to the 403.
SpentInv ==
    /\ \A k \in Minted : LET p == claims[k].parent
                         IN  p = 0 \/ (p \in held /\ keyUntil[p] = 0)
    /\ \A r \in Refreshers : rf[r].late =>
          rf[r].pc \in {"window", "ttl", "flag"} /\ keyUntil[rf[r].old] = 0

LEMMA DonePc == DoneRefresh.pc = "done" /\ DoneRefresh.late = FALSE
BY DEF DoneRefresh, IdleRefresh

LEMMA HeldJti == TypeInv => held \subseteq Minted /\ Minted \subseteq Jti
BY ClaimFacts DEF TypeInv, TypeOK

LEMMA KeyFrame ==
    ASSUME KeyInv, SpentInv, UNCHANGED <<claims, keyUntil, held, rf>>
    PROVE  KeyInv' /\ SpentInv'
BY DEF KeyInv, SpentInv, Minted

\* A handler that moves without touching tokens or keys.
LEMMA KeyMove ==
    ASSUME KeyInv, SpentInv, NEW r \in Refreshers, Others(r),
           UNCHANGED <<claims, keyUntil, held>>,
           rf'[r].pc # "set",
           rf'[r].pc \notin {"idle", "done"} => rf'[r].old \in held,
           rf'[r].late => /\ rf'[r].pc \in {"window", "ttl", "flag"}
                          /\ keyUntil[rf'[r].old] = 0
    PROVE  KeyInv' /\ SpentInv'
<1>1. Minted' = Minted
  BY DEF Minted
<1>2. KeyInv'
  BY <1>1 DEF KeyInv, Others
<1>3. SpentInv'
  BY <1>1 DEF SpentInv, Others
<1> QED BY <1>2, <1>3

LEMMA SuccessorKey ==
    ASSUME TypeInv, SpentInv, NEW j \in Minted, Successors(j) # {}
    PROVE  keyUntil[j] = 0
<1>1. j # 0
  BY DEF Minted
<1> QED BY <1>1 DEF Successors, SpentInv

LEMMA KeyStep == TypeInv /\ KeyInv /\ SpentInv /\ [Next]_vars => KeyInv' /\ SpentInv'
<1> SUFFICES ASSUME TypeInv, KeyInv, SpentInv, [Next]_vars PROVE KeyInv' /\ SpentInv'
    OBVIOUS
<1>1. ASSUME NEW u \in Users, NEW d \in Devices, Login(u, d) PROVE KeyInv' /\ SpentInv'
  <2> DEFINE c == [sub |-> u, dev |-> d, iat |-> now, parent |-> 0]
  <2>1. Signed(c) /\ c.parent = 0
    BY <1>1, LoginEffect
  <2> HIDE DEF c
  <2>2. /\ \A j \in Jti : j # NextJti => keyUntil'[j] = keyUntil[j]
        /\ held' = held \cup {NextJti}
        /\ rf' = rf
    BY <1>1, LoginEffect
  <2>3. \A r \in Refreshers : rf[r].pc = "set" => rf[r].new \in Minted
    BY RefreshFields
  <2>4. KeyInv'
    BY <2>1, <2>2, <2>3, HeldJti DEF KeyInv, Signed
  <2>5. SpentInv'
    <3>1. \A k \in Minted' : LET p == claims'[k].parent
                             IN  p = 0 \/ (p \in held' /\ keyUntil'[p] = 0)
      BY <2>1, <2>2, HeldJti DEF SpentInv, Signed
    <3>2. \A r \in Refreshers : rf[r].late => rf[r].old \in held
      BY DEF KeyInv, SpentInv
    <3> QED BY <2>1, <2>2, <3>1, <3>2, HeldJti DEF SpentInv, Signed
  <2> QED BY <2>4, <2>5
<1>2. ASSUME NEW r \in Refreshers, NEW j \in held, NEW good \in BOOLEAN,
             RefreshStart(r, j, good)
      PROVE  KeyInv' /\ SpentInv'
  <2>1. Successors(j) # {} => keyUntil[j] = 0
    BY SuccessorKey, HeldJti
  <2> QED BY <1>2, <2>1, RefreshStartEffect, KeyMove, DonePc
<1>3. ASSUME NEW r \in Refreshers, SetWindow(r) PROVE KeyInv' /\ SpentInv'
  <2>1. rf[r].old \in held /\ (rf[r].late => keyUntil[rf[r].old] = 0)
    BY <1>3 DEF SetWindow, KeyInv, SpentInv
  <2> QED BY <1>3, <2>1, SetWindowEffect, KeyMove
<1>4. ASSUME NEW r \in Refreshers, ReadTTL(r) PROVE KeyInv' /\ SpentInv'
  <2>1. rf[r].old \in held /\ (rf[r].late => keyUntil[rf[r].old] = 0)
    BY <1>4 DEF ReadTTL, KeyInv, SpentInv
  <2>2. now >= 0
    BY DEF TypeInv, TypeOK
  <2>3. rf[r].late => rf'[r].pc = "flag"
    <3>1. now \in Nat
      BY DEF TypeInv, TypeOK
    <3> QED BY <1>4, <2>1, <3>1, ReadTTLEffect
  <2> QED BY <1>4, <2>1, <2>3, ReadTTLEffect, KeyMove
<1>5. ASSUME NEW r \in Refreshers, FlagReuse(r) \/ AbortRefresh(r)
      PROVE  KeyInv' /\ SpentInv'
  BY <1>5, FinishEffect, KeyMove, DonePc
<1>6. ASSUME NEW r \in Refreshers, DeleteOld(r) PROVE KeyInv' /\ SpentInv'
  <2> DEFINE c == [sub |-> claims[rf[r].old].sub, dev |-> claims[rf[r].old].dev,
                   iat |-> now, parent |-> rf[r].old]
  <2>1. Signed(c) /\ c.parent = rf[r].old
    BY <1>6, DeleteOldEffect
  <2> HIDE DEF c
  <2>2. /\ rf[r].old \in held /\ ~rf[r].late
    BY <1>6 DEF DeleteOld, KeyInv, SpentInv
  <2>3. \A s \in Refreshers : rf[s].pc = "set" => rf[s].new \in Minted
    BY RefreshFields
  <2>4. /\ \A j \in Jti : keyUntil'[j] = IF j = rf[r].old THEN 0 ELSE keyUntil[j]
        /\ rf'[r].pc = "set" /\ rf'[r].new = NextJti /\ rf'[r].old = rf[r].old
        /\ ~rf'[r].late
        /\ Others(r) /\ held' = held
    BY <1>6, <2>2, DeleteOldEffect
  <2>5. KeyInv'
    <3>1. \A j \in Jti : j \notin Minted' => keyUntil'[j] = 0
      BY <2>1, <2>2, <2>4, HeldJti DEF KeyInv, Signed
    <3>2. ASSUME NEW s \in Refreshers, rf'[s].pc = "set"
          PROVE  keyUntil'[rf'[s].new] = 0 /\ rf'[s].new \notin held'
      <4>1. CASE s = r
        BY <2>1, <2>4, <4>1, HeldJti DEF KeyInv, Signed
      <4>2. CASE s # r
        BY <2>3, <2>4, <3>2, <4>2, HeldJti DEF KeyInv, Others
      <4> QED BY <4>1, <4>2
    <3>3. \A s, t \in Refreshers :
             rf'[s].pc = "set" /\ rf'[t].pc = "set" /\ rf'[s].new = rf'[t].new => s = t
      BY <2>1, <2>3, <2>4 DEF KeyInv, Others, Signed
    <3>4. \A s \in Refreshers : rf'[s].pc \notin {"idle", "done"} => rf'[s].old \in held'
      BY <2>2, <2>4 DEF KeyInv, Others
    <3> QED BY <3>1, <3>2, <3>3, <3>4 DEF KeyInv
  <2>6. SpentInv'
    <3>1. ASSUME NEW k \in Minted'
          PROVE  LET p == claims'[k].parent IN p = 0 \/ (p \in held' /\ keyUntil'[p] = 0)
      BY <2>1, <2>2, <2>4, HeldJti DEF SpentInv, Signed
    <3>2. ASSUME NEW s \in Refreshers, rf'[s].late
          PROVE  rf'[s].pc \in {"window", "ttl", "flag"} /\ keyUntil'[rf'[s].old] = 0
      <4>1. s # r /\ rf'[s] = rf[s]
        BY <2>4, <3>2 DEF Others
      <4>2. rf[s].old \in held
        BY <3>2, <4>1 DEF KeyInv, SpentInv
      <4> QED BY <2>4, <3>2, <4>1, <4>2, HeldJti DEF SpentInv
    <3> QED BY <3>1, <3>2 DEF SpentInv
  <2> QED BY <2>5, <2>6
<1>7. ASSUME NEW r \in Refreshers, StoreNew(r) PROVE KeyInv' /\ SpentInv'
  <2> DEFINE new == rf[r].new
  <2>1. /\ rf[r].pc = "set" /\ new \in Minted /\ new \in Jti
        /\ \A j \in Jti : j # new => keyUntil'[j] = keyUntil[j]
        /\ held' = held \cup {new}
        /\ rf'[r] = DoneRefresh /\ Others(r) /\ claims' = claims
    BY <1>7, StoreNewEffect
  <2>2. new \notin held
    BY <2>1 DEF KeyInv
  <2>3. \A s \in Refreshers : rf[s].pc = "set" => rf[s].new \in Minted
    BY RefreshFields
  <2>4. Minted' = Minted
    BY <2>1 DEF Minted
  <2>5. KeyInv'
    BY <2>1, <2>2, <2>3, <2>4, HeldJti, DonePc DEF KeyInv, Others
  <2>6. SpentInv'
    <3>1. ASSUME NEW k \in Minted
          PROVE  LET p == claims[k].parent IN p = 0 \/ (p \in held' /\ keyUntil'[p] = 0)
      BY <2>1, <2>2, HeldJti DEF SpentInv
    <3>2. ASSUME NEW s \in Refreshers, rf'[s].late
          PROVE  rf'[s].pc \in {"window", "ttl", "flag"} /\ keyUntil'[rf'[s].old] = 0
      <4>1. s # r /\ rf'[s] = rf[s]
        BY <2>1, <3>2, DonePc DEF Others
      <4>2. rf[s].old \in held
        BY <3>2, <4>1 DEF KeyInv, SpentInv
      <4> QED BY <2>1, <2>2, <3>2, <4>1, <4>2, HeldJti DEF SpentInv
    <3> QED BY <2>1, <2>4, <3>1, <3>2 DEF SpentInv
  <2> QED BY <2>5, <2>6
<1>8. ASSUME NEW v \in Revokers, RevokeNext(v) PROVE KeyInv' /\ SpentInv'
  <2>1. CASE Unlink(v)
    <3>1. /\ \A j \in Jti : keyUntil'[j] = IF j \in rv[v].batch THEN 0 ELSE keyUntil[j]
          /\ UNCHANGED <<claims, held, rf>>
      BY <2>1, UnlinkEffect
    <3>2. Minted' = Minted
      BY <3>1 DEF Minted
    <3>3. \A s \in Refreshers : rf[s].pc = "set" => rf[s].new \in Jti
      BY RefreshFields, HeldJti
    <3>4. KeyInv'
      BY <3>1, <3>2, <3>3 DEF KeyInv
    <3>5. \A s \in Refreshers : rf[s].late => rf[s].old \in Jti
      BY HeldJti DEF KeyInv, SpentInv
    <3>6. SpentInv'
      BY <3>1, <3>2, <3>5, HeldJti DEF SpentInv
    <3> QED BY <3>4, <3>6
  <2>2. CASE ~Unlink(v)
    BY <1>8, <2>2, RevokeEffect, KeyFrame
  <2> QED BY <2>1, <2>2
<1>9. CASE Tick
  BY <1>9, KeyFrame DEF Tick
<1>10. CASE UNCHANGED vars
  BY <1>10, KeyFrame DEF vars
<1> QED
  BY <1>1, <1>2, <1>3, <1>4, <1>5, <1>6, <1>7, <1>8, <1>9, <1>10 DEF Next, RefreshNext

LEMMA KeyInit == Init => KeyInv /\ SpentInv
BY DEF Init, KeyInv, SpentInv, Minted, IdleRefresh

\* A request that arrives after its token was rotated gets no new pair.
THEOREM RotatedTokensStaySpent == Spec => []LateRequestsRefused
<1>1. Spec => [](TypeInv /\ KeyInv /\ SpentInv)
  BY InitType, KeyInit, StepType, KeyStep, PTL DEF Spec
<1>2. SpentInv => LateRequestsRefused
  BY DEF SpentInv, LateRequestsRefused
<1> QED BY <1>1, <1>2, PTL

-----------------------------------------------------------------------------
(* The life of a credential                                                *)

\* A pair whose key has been stored, or will never be.
Born(j) == j \in Minted /\ ~Pending(j)

\* One step either makes one credential usable and leaves the others as they
\* are, or it makes none usable.
Birth(c) ==
    /\ ~Born(c) /\ Born(c)' /\ Live(c)'
    /\ \A j \in Jti : j # c => (Born(j)' <=> Born(j)) /\ (Live(j)' <=> Live(j))
Decay ==
    \A j \in Jti : /\ Born(j) => Born(j)'
                   /\ Born(j)' /\ Live(j)' => Born(j) /\ Live(j)

LEMMA PendingDead ==
    ASSUME TypeInv, KeyInv, NEW j \in Jti
    PROVE  Pending(j) => ~Live(j)
BY DEF TypeInv, TypeOK, KeyInv, Pending, Live

LEMMA StoredBorn ==
    ASSUME TypeInv, KeyInv, NEW o, NEW j \in StoredKeys(o)
    PROVE  Born(j) /\ Live(j) /\ Owner(j) = o /\ j \in Jti
BY PendingDead, HeldJti DEF StoredKeys, Born

\* A handler that moves, and does not sign, makes no credential usable.
LEMMA DecayMove ==
    ASSUME TypeInv, KeyInv, NEW r \in Refreshers, Others(r), rf'[r].pc # "set",
           UNCHANGED <<now, claims, keyUntil>>
    PROVE  Decay
<1> SUFFICES ASSUME NEW j \in Jti
             PROVE  /\ Born(j) => Born(j)'
                    /\ Born(j)' /\ Live(j)' => Born(j) /\ Live(j)
  BY DEF Decay
<1>1. Minted' = Minted /\ (Live(j)' <=> Live(j))
  BY DEF Minted, Live
<1>2. Pending(j)' => Pending(j)
  BY DEF Pending, Others
<1> QED BY <1>1, <1>2, PendingDead DEF Born

LEMMA DecayFrame ==
    ASSUME UNCHANGED <<now, claims, keyUntil, rf>>
    PROVE  Decay
BY DEF Decay, Born, Live, Minted, Pending

LEMMA LifeStep ==
    ASSUME TypeInv, KeyInv, [Next]_vars
    PROVE  Decay \/ \E c \in Jti : Birth(c)
<1>1. ASSUME NEW u \in Users, NEW d \in Devices, Login(u, d) PROVE \E c \in Jti : Birth(c)
  <2> DEFINE c == [sub |-> u, dev |-> d, iat |-> now, parent |-> 0]
  <2>1. Signed(c) /\ keyUntil'[NextJti] = now + BaseTTL /\ UNCHANGED <<now, rf>>
    BY <1>1, LoginEffect
  <2>2. \A j \in Jti : j # NextJti => keyUntil'[j] = keyUntil[j]
    BY <1>1, LoginEffect
  <2> HIDE DEF c
  <2>3. \A s \in Refreshers : rf[s].pc = "set" => rf[s].new \in Minted
    BY RefreshFields
  <2>4. PICK k \in Jti : k = NextJti
    BY <2>1 DEF Signed
  <2>5. Live(k)'
    BY <2>1, <2>4, TTLAssumption DEF TypeInv, TypeOK, Live
  <2>6. ~Born(k) /\ Born(k)'
    BY <2>1, <2>3, <2>4 DEF Signed, Born, Pending
  <2>7. ASSUME NEW j \in Jti, j # k
        PROVE  (Born(j)' <=> Born(j)) /\ (Live(j)' <=> Live(j))
    BY <2>1, <2>2, <2>4, <2>7 DEF Signed, Born, Pending, Live
  <2> QED BY <2>5, <2>6, <2>7 DEF Birth
<1>2. ASSUME NEW r \in Refreshers, NEW j \in held, NEW good \in BOOLEAN,
             RefreshStart(r, j, good)
      PROVE  Decay
  BY <1>2, RefreshStartEffect, DecayMove, DonePc
<1>3. ASSUME NEW r \in Refreshers, SetWindow(r) PROVE Decay
  BY <1>3, SetWindowEffect, DecayMove
<1>4. ASSUME NEW r \in Refreshers, ReadTTL(r) PROVE Decay
  BY <1>4, ReadTTLEffect, DecayMove
<1>5. ASSUME NEW r \in Refreshers, FlagReuse(r) \/ AbortRefresh(r) PROVE Decay
  BY <1>5, FinishEffect, DecayMove, DonePc
<1>6. ASSUME NEW r \in Refreshers, DeleteOld(r) PROVE Decay
  <2> DEFINE c == [sub |-> claims[rf[r].old].sub, dev |-> claims[rf[r].old].dev,
                   iat |-> now, parent |-> rf[r].old]
  <2>1. Signed(c) /\ now' = now
    BY <1>6, DeleteOldEffect
  <2> HIDE DEF c
  <2>2. /\ rf[r].pc = "del" /\ rf'[r].pc = "set" /\ rf'[r].new = NextJti /\ Others(r)
        /\ keyUntil'[rf[r].old] = 0
        /\ \A j \in Jti : j # rf[r].old => keyUntil'[j] = keyUntil[j]
    BY <1>6, DeleteOldEffect
  <2>3. now \in Nat
    BY DEF TypeInv, TypeOK
  <2> SUFFICES ASSUME NEW j \in Jti
               PROVE  /\ Born(j) => Born(j)'
                      /\ Born(j)' /\ Live(j)' => Born(j) /\ Live(j)
    BY DEF Decay
  <2>4. Pending(j)' <=> Pending(j) \/ j = NextJti
    BY <2>2 DEF Pending, Others
  <2>5. Live(j)' => Live(j)
    BY <2>1, <2>2, <2>3 DEF Live
  <2>6. Born(j)' <=> Born(j)
    BY <2>1, <2>4 DEF Signed, Born
  <2> QED BY <2>5, <2>6
<1>7. ASSUME NEW r \in Refreshers, StoreNew(r) PROVE \E c \in Jti : Birth(c)
  <2>1. /\ rf[r].pc = "set" /\ rf[r].new \in Minted /\ rf[r].new \in Jti
        /\ keyUntil'[rf[r].new] >= now + BaseTTL
        /\ \A j \in Jti : j # rf[r].new => keyUntil'[j] = keyUntil[j]
        /\ rf'[r] = DoneRefresh /\ Others(r) /\ UNCHANGED <<now, claims>>
    BY <1>7, StoreNewEffect
  <2>2. PICK new \in Jti : new = rf[r].new
    BY <2>1
  <2>3. Minted' = Minted
    BY <2>1 DEF Minted
  <2>4. Live(new)'
    <3>1. TypeInv'
      BY StepType
    <3>2. keyUntil'[new] \in Nat /\ now \in Nat
      BY <3>1 DEF TypeInv, TypeOK
    <3> QED BY <2>1, <2>2, <3>2, TTLAssumption DEF Live
  <2>5. \A s \in Refreshers : s # r => ~(rf[s].pc = "set" /\ rf[s].new = new)
    BY <2>1, <2>2 DEF KeyInv
  <2>6. ~Pending(new)'
    BY <2>1, <2>5, DonePc DEF Pending, Others
  <2>7. ~Born(new) /\ Born(new)'
    BY <2>1, <2>2, <2>3, <2>6 DEF Born, Pending
  <2>8. ASSUME NEW j \in Jti, j # new
        PROVE  (Born(j)' <=> Born(j)) /\ (Live(j)' <=> Live(j))
    <3>1. Pending(j)' <=> Pending(j)
      BY <2>1, <2>2, <2>8, DonePc DEF Pending, Others
    <3> QED BY <2>1, <2>2, <2>3, <2>8, <3>1 DEF Born, Live
  <2> QED BY <2>4, <2>7, <2>8 DEF Birth
<1>8. ASSUME NEW v \in Revokers, RevokeNext(v) PROVE Decay
  <2>1. CASE Unlink(v)
    <3>1. /\ \A j \in Jti : keyUntil'[j] = IF j \in rv[v].batch THEN 0 ELSE keyUntil[j]
          /\ UNCHANGED <<now, claims, rf>>
      BY <2>1, UnlinkEffect
    <3>2. now \in Nat
      BY DEF TypeInv, TypeOK
    <3>3. \A j \in Jti : Live(j)' => Live(j)
      BY <3>1, <3>2 DEF Live
    <3>4. \A j : Born(j)' <=> Born(j)
      BY <3>1 DEF Born, Minted, Pending
    <3> QED BY <3>3, <3>4 DEF Decay
  <2>2. CASE ~Unlink(v)
    BY <1>8, <2>2, RevokeEffect, DecayFrame
  <2> QED BY <2>1, <2>2
<1>9. CASE Tick
  <2>1. now' = now + 1 /\ UNCHANGED <<claims, keyUntil, rf>>
    BY <1>9 DEF Tick
  <2>2. now \in Nat /\ \A j \in Jti : keyUntil[j] \in Nat
    BY DEF TypeInv, TypeOK
  <2>3. \A j \in Jti : Live(j)' => Live(j)
    BY <2>1, <2>2 DEF Live
  <2>4. \A j : Born(j)' <=> Born(j)
    BY <2>1 DEF Born, Minted, Pending
  <2> QED BY <2>3, <2>4 DEF Decay
<1>10. CASE UNCHANGED vars
  BY <1>10, DecayFrame DEF vars
<1> QED
  BY <1>1, <1>2, <1>3, <1>4, <1>5, <1>6, <1>7, <1>8, <1>9, <1>10 DEF Next, RefreshNext

\* Dead is dead: what is born and not stored is never stored again.
LEMMA DeadStaysDead ==
    ASSUME TypeInv, KeyInv, [Next]_vars, NEW j \in Jti, Born(j)
    PROVE  Born(j)' /\ (Live(j)' => Live(j))
BY LifeStep DEF Birth, Decay

-----------------------------------------------------------------------------
(* The refresh keys implement CredentialLifecycle                          *)

LEMMA PhaseFacts ==
    /\ Phase = [j \in Jti |-> IF ~Born(j) THEN "unborn" ELSE IF Live(j) THEN "live" ELSE "dead"]
    /\ Phase' = [j \in Jti |-> IF ~Born(j)' THEN "unborn" ELSE IF Live(j)' THEN "live" ELSE "dead"]
BY DEF Phase, Born

LEMMA BirthIssues ==
    ASSUME NEW c \in Jti, Birth(c)
    PROVE  Lifecycle!Issue(c)
<1>1. Phase[c] = "unborn"
  BY PhaseFacts DEF Birth
<1>2. Phase' = [Phase EXCEPT ![c] = "live"]
  BY PhaseFacts DEF Birth
<1> QED BY <1>1, <1>2 DEF Lifecycle!Issue

LEMMA DecayRetires ==
    ASSUME Decay
    PROVE  \E S \in SUBSET Jti : Lifecycle!Retire(S)
<1> DEFINE S == {j \in Jti : Phase'[j] = "dead"}
<1>1. \A j \in Jti : j \notin S => Phase'[j] = Phase[j]
  BY PhaseFacts DEF Decay
<1>2. Phase' = [j \in Jti |-> IF j \in S THEN "dead" ELSE Phase[j]]
  BY <1>1, PhaseFacts
<1>3. Lifecycle!Retire(S)
  BY <1>2 DEF Lifecycle!Retire
<1> QED BY <1>3

\* Every session key is stored at most once and, once used, swept, expired or
\* given up, is never stored again.
THEOREM KeysImplementLifecycle == Spec => RefreshKeysLifecycle
<1>1. Init => Lifecycle!Init
  <2>1. Init => Minted = {}
    BY DEF Init, Minted
  <2> QED BY <2>1 DEF Lifecycle!Init, Phase
<1>2. TypeInv /\ KeyInv /\ [Next]_vars => [Lifecycle!Next]_Phase
  BY LifeStep, BirthIssues, DecayRetires DEF Lifecycle!Next
<1>3. Spec => [](TypeInv /\ KeyInv /\ SpentInv)
  BY InitType, KeyInit, StepType, KeyStep, PTL DEF Spec
<1> QED BY <1>1, <1>2, <1>3, PTL DEF Spec, RefreshKeysLifecycle, Lifecycle!Spec

-----------------------------------------------------------------------------
(* Sweeps                                                                  *)

\* While the loop of revoke_device_tokens runs, every key that was stored when
\* it began is dead, in the page at hand, or still owed by SCAN.
Sweeping(v) == rv[v].pc \in {"rescan", "unlink", "unlinkLast"}

SweepOK(v) ==
    /\ \A j \in rv[v].snap \cup rv[v].batch : j \in Jti /\ Born(j) /\ Owner(j) = rv[v].who
    /\ \A j \in rv[v].snap : Live(j) => j \in rv[v].owed \cup rv[v].batch
    /\ rv[v].pc = "rescan" => rv[v].batch = {}
    /\ rv[v].pc = "unlinkLast" => rv[v].owed = {}

SweepInv ==
    /\ \A j \in purged : j \in Jti /\ Born(j) /\ ~Live(j)
    /\ \A v \in Revokers : Sweeping(v) => SweepOK(v)

LEMMA ClaimStays ==
    ASSUME TypeInv, [Next]_vars, NEW j \in Minted
    PROVE  claims'[j] = claims[j]
<1>1. ASSUME NEW u \in Users, NEW d \in Devices, Login(u, d) PROVE claims'[j] = claims[j]
  BY <1>1, LoginEffect DEF Signed
<1>2. ASSUME NEW r \in Refreshers, DeleteOld(r) PROVE claims'[j] = claims[j]
  BY <1>2, DeleteOldEffect DEF Signed
<1>3. ASSUME NEW r \in Refreshers, RefreshNext(r), ~DeleteOld(r) PROVE claims' = claims
  BY <1>3 DEF RefreshNext, RefreshStart, SetWindow, ReadTTL, FlagReuse, StoreNew, AbortRefresh
<1>4. ASSUME NEW v \in Revokers, RevokeNext(v) PROVE claims' = claims
  BY <1>4, RevokeEffect
<1>5. Tick \/ UNCHANGED vars => claims' = claims
  BY DEF Tick, vars
<1> QED BY <1>1, <1>2, <1>3, <1>4, <1>5 DEF Next

LEMMA OwnerStays ==
    ASSUME TypeInv, [Next]_vars, NEW j \in Minted
    PROVE  Owner(j)' = Owner(j)
BY ClaimStays DEF Owner

\* A sweep that does not move is disturbed by nobody.
LEMMA SweepUndisturbed ==
    ASSUME TypeInv, KeyInv, [Next]_vars, NEW v \in Revokers, rv'[v] = rv[v],
           Sweeping(v), SweepOK(v)
    PROVE  SweepOK(v)'
<1>1. \A j \in rv[v].snap \cup rv[v].batch : j \in Jti /\ Born(j)' /\ Owner(j)' = rv[v].who
  BY DeadStaysDead, OwnerStays DEF SweepOK, Born
<1>2. \A j \in rv[v].snap : Live(j)' => j \in rv[v].owed \cup rv[v].batch
  BY DeadStaysDead DEF SweepOK
<1> QED BY <1>1, <1>2 DEF SweepOK

LEMMA PurgedStay ==
    ASSUME TypeInv, KeyInv, SweepInv, [Next]_vars, NEW j \in purged
    PROVE  j \in Jti /\ Born(j)' /\ ~Live(j)'
BY DeadStaysDead DEF SweepInv

LEMMA ScanSweeps ==
    ASSUME TypeInv, KeyInv, SweepInv, [Next]_vars, NEW v \in Revokers, Scan(v)
    PROVE  SweepOK(v)'
<1> DEFINE present == StoredKeys(rv[v].who)
           first == rv[v].pc = "scan"
           owed == IF first THEN present ELSE rv[v].owed \cap present
<1>1. rv \in [Revokers -> RevokeState] /\ rv[v] \in RevokeState
  BY RevokeFields
<1>2. PICK page \in SUBSET present, last \in BOOLEAN :
         /\ last => owed \subseteq page
         /\ rv' = [rv EXCEPT ![v].pc = IF last THEN "unlinkLast" ELSE "unlink",
                             ![v].snap = IF first THEN present ELSE @,
                             ![v].owed = owed \ page,
                             ![v].batch = page]
  BY DEF Scan
<1>3. UNCHANGED <<now, claims, keyUntil, rf>>
  BY DEF Scan
<1>4. \A j \in present : j \in Jti /\ Born(j) /\ Live(j) /\ Owner(j) = rv[v].who
  BY StoredBorn
<1>5. \A j : (Born(j)' <=> Born(j)) /\ (Live(j)' <=> Live(j)) /\ Owner(j)' = Owner(j)
  BY <1>3 DEF Born, Minted, Pending, Live, Owner
<1>6. \A j \in Jti : Born(j) /\ Live(j) /\ Owner(j) = rv[v].who => j \in present
  BY DEF StoredKeys, Born
<1> DEFINE q == [rv[v] EXCEPT !.pc = IF last THEN "unlinkLast" ELSE "unlink",
                              !.snap = IF first THEN present ELSE @,
                              !.owed = owed \ page,
                              !.batch = page]
<1>7. rv'[v] = q
  BY <1>1, <1>2
<1> HIDE DEF present
<1>8. /\ rv'[v].pc = (IF last THEN "unlinkLast" ELSE "unlink")
      /\ rv'[v].snap = (IF first THEN present ELSE rv[v].snap)
      /\ rv'[v].owed = owed \ page
      /\ rv'[v].batch = page
      /\ rv'[v].who = rv[v].who
  BY <1>1, <1>7 DEF RevokeState
<1>9. ~first => SweepOK(v) /\ rv[v].batch = {}
  BY DEF Scan, SweepInv, Sweeping, SweepOK
<1>10. \A j \in rv'[v].snap \cup rv'[v].batch : j \in Jti /\ Born(j) /\ Owner(j) = rv[v].who
  BY <1>2, <1>4, <1>8, <1>9 DEF SweepOK
<1>11. \A j \in rv'[v].snap : Live(j) => j \in owed
  <2>1. CASE first
    BY <1>8, <2>1
  <2>2. CASE ~first
    <3>1. \A j \in rv[v].snap : Live(j) => j \in rv[v].owed
      BY <1>9, <2>2 DEF SweepOK
    <3>2. \A j \in rv[v].snap : Live(j) => j \in present
      BY <1>6, <1>9, <2>2 DEF SweepOK
    <3> QED BY <1>8, <2>2, <3>1, <3>2
  <2> QED BY <2>1, <2>2
<1>12. rv'[v].pc = "unlinkLast" => rv'[v].owed = {}
  <2>1. rv'[v].pc = "unlinkLast" => last
    BY <1>8
  <2>2. last => owed \subseteq page
    BY <1>2
  <2>3. rv'[v].owed = owed \ page
    BY <1>8
  <2> HIDE DEF owed
  <2> QED BY <2>1, <2>2, <2>3
<1>13. rv'[v].pc # "rescan"
  BY <1>8
<1> QED BY <1>5, <1>8, <1>10, <1>11, <1>12, <1>13 DEF SweepOK

LEMMA UnlinkSweeps ==
    ASSUME TypeInv, KeyInv, SweepInv, [Next]_vars, NEW v \in Revokers, Unlink(v)
    PROVE  /\ Sweeping(v)' => SweepOK(v)'
           /\ \A j \in purged' : j \in Jti /\ Born(j)' /\ ~Live(j)'
<1>1. rv \in [Revokers -> RevokeState] /\ rv[v] \in RevokeState /\ SweepOK(v)
  BY RevokeFields DEF Unlink, SweepInv, Sweeping
<1>2. /\ \A j \in Jti : keyUntil'[j] = IF j \in rv[v].batch THEN 0 ELSE keyUntil[j]
      /\ UNCHANGED <<now, claims, rf>>
  BY UnlinkEffect
<1>3. now \in Nat
  BY DEF TypeInv, TypeOK
<1>4. \A j \in Jti : Live(j)' => Live(j) /\ j \notin rv[v].batch
  BY <1>2, <1>3 DEF Live
<1>5. \A j : (Born(j)' <=> Born(j)) /\ Owner(j)' = Owner(j)
  BY <1>2 DEF Born, Minted, Pending, Owner
<1>6. \A j \in rv[v].snap : j \in Jti /\ Born(j)' /\ (Live(j)' => j \in rv[v].owed)
  BY <1>1, <1>4, <1>5 DEF SweepOK
<1>7. CASE rv[v].pc = "unlink"
  <2>1. rv' = [rv EXCEPT ![v] = [rv[v] EXCEPT !.pc = "rescan", !.batch = {}]] /\ purged' = purged
    BY <1>1, <1>7 DEF Unlink
  <2>2. rv'[v] = [rv[v] EXCEPT !.pc = "rescan", !.batch = {}]
    BY <1>1, <2>1
  <2>3. /\ rv'[v].pc = "rescan" /\ rv'[v].snap = rv[v].snap /\ rv'[v].owed = rv[v].owed
        /\ rv'[v].batch = {} /\ rv'[v].who = rv[v].who
    BY <1>1, <2>2 DEF RevokeState
  <2>4. SweepOK(v)'
    <3>1. \A j \in rv'[v].snap \cup rv'[v].batch :
             j \in Jti /\ Born(j)' /\ Owner(j)' = rv'[v].who
      BY <1>1, <1>5, <2>3 DEF SweepOK
    <3> QED BY <1>6, <2>3, <3>1 DEF SweepOK
  <2> QED BY <2>1, <2>4, PurgedStay
<1>8. CASE rv[v].pc = "unlinkLast"
  <2>1. /\ rv' = [rv EXCEPT ![v] = [rv[v] EXCEPT !.pc = IF rv[v].pub THEN "publish" ELSE "block",
                                                 !.snap = {}, !.owed = {}, !.batch = {}]]
        /\ purged' = purged \cup rv[v].snap
    BY <1>1, <1>8 DEF Unlink
  <2>2. rv'[v].pc = IF rv[v].pub THEN "publish" ELSE "block"
    BY <1>1, <2>1 DEF RevokeState
  <2>3. rv[v].owed = {}
    BY <1>1, <1>8 DEF SweepOK
  <2> QED BY <1>6, <2>1, <2>2, <2>3, PurgedStay DEF Sweeping
<1> QED BY <1>7, <1>8 DEF Unlink

LEMMA SweepStep == TypeInv /\ KeyInv /\ SweepInv /\ [Next]_vars => SweepInv'
<1> SUFFICES ASSUME TypeInv, KeyInv, SweepInv, [Next]_vars PROVE SweepInv'
    OBVIOUS
<1>1. ASSUME purged' = purged,
             NEW v \in Revokers, Sweeping(v)' => SweepOK(v)',
             \A w \in Revokers : w # v => rv'[w] = rv[w]
      PROVE  SweepInv'
  <2>1. ASSUME NEW w \in Revokers, w # v, Sweeping(w)' PROVE SweepOK(w)'
    <3>1. rv'[w] = rv[w]
      BY <1>1, <2>1
    <3>2. Sweeping(w) /\ SweepOK(w)
      BY <2>1, <3>1 DEF SweepInv, Sweeping
    <3> QED BY <3>1, <3>2, SweepUndisturbed
  <2> QED BY <1>1, <2>1, PurgedStay DEF SweepInv
<1>2. ASSUME rv' = rv, purged' = purged PROVE SweepInv'
  <2>1. ASSUME NEW w \in Revokers, Sweeping(w)' PROVE SweepOK(w)'
    <3>1. Sweeping(w) /\ SweepOK(w) /\ rv'[w] = rv[w]
      BY <1>2, <2>1 DEF SweepInv, Sweeping
    <3> QED BY <3>1, SweepUndisturbed
  <2> QED BY <1>2, <2>1, PurgedStay DEF SweepInv
<1>3. ASSUME NEW v \in Revokers, RevokeNext(v) PROVE SweepInv'
  <2>1. rv \in [Revokers -> RevokeState]
    BY RevokeFields
  <2>2. \A w \in Revokers : w # v => rv'[w] = rv[w]
    BY <1>3, <2>1
       DEF RevokeNext, Logout, ServerRevoke, StartRevoke, Scan, Unlink, PublishBlock,
           MarkBlocked, MarkRevoked, MarkOverlay, AbortRevoke
  <2>3. CASE Scan(v)
    <3>1. purged' = purged
      BY <2>3 DEF Scan
    <3> QED BY <1>1, <2>2, <2>3, <3>1, ScanSweeps
  <2>4. CASE Unlink(v)
    <3>1. ASSUME NEW w \in Revokers, w # v, Sweeping(w)' PROVE SweepOK(w)'
      <4>1. Sweeping(w) /\ SweepOK(w) /\ rv'[w] = rv[w]
        BY <2>2, <3>1 DEF SweepInv, Sweeping
      <4> QED BY <4>1, SweepUndisturbed
    <3> QED BY <2>4, <3>1, UnlinkSweeps DEF SweepInv
  <2>5. CASE ~Scan(v) /\ ~Unlink(v)
    <3>1. purged' = purged
      BY <1>3, <2>5
         DEF RevokeNext, Logout, ServerRevoke, StartRevoke, PublishBlock,
             MarkBlocked, MarkRevoked, MarkOverlay, AbortRevoke
    <3>2. rv'[v].pc \in {"scan", "block", "revoke", "overlay", "done"}
      <4>0. rv[v] \in RevokeState
        BY <2>1
      <4>1. ASSUME NEW o, NEW pub, StartRevoke(v, o, pub) PROVE rv'[v].pc = "scan"
        BY <2>1, <4>1 DEF StartRevoke, IdleRevoke
      <4>2. CASE PublishBlock(v) \/ MarkBlocked(v) \/ MarkRevoked(v)
        <5>1. PICK q \in {"block", "revoke", "overlay"} : rv' = [rv EXCEPT ![v].pc = q]
          BY <4>2 DEF PublishBlock, MarkBlocked, MarkRevoked
        <5>2. rv'[v].pc = q
          BY <2>1, <4>0, <5>1 DEF RevokeState
        <5> QED BY <5>2
      <4>3. CASE MarkOverlay(v) \/ AbortRevoke(v)
        <5>1. rv'[v] = DoneRevoke
          BY <2>1, <4>3 DEF MarkOverlay, AbortRevoke
        <5> QED BY <5>1, DoneFacts
      <4> QED BY <1>3, <2>5, <4>1, <4>2, <4>3 DEF RevokeNext, Logout, ServerRevoke
    <3> QED BY <1>1, <2>2, <3>1, <3>2 DEF Sweeping
  <2> QED BY <2>3, <2>4, <2>5
<1>4. ASSUME NEW r \in Refreshers, RefreshNext(r) PROVE SweepInv'
  BY <1>2, <1>4
     DEF RefreshNext, RefreshStart, SetWindow, ReadTTL, FlagReuse, DeleteOld, StoreNew,
         AbortRefresh
<1>5. ASSUME NEW u \in Users, NEW d \in Devices, Login(u, d) PROVE SweepInv'
  BY <1>2, <1>5 DEF Login
<1>6. CASE Tick \/ UNCHANGED vars
  BY <1>2, <1>6 DEF Tick, vars
<1> QED BY <1>3, <1>4, <1>5, <1>6 DEF Next

\* A sweep that has come to its end has killed every key it found, for good.
THEOREM SweepsAreFinal == Spec => []SweptStayDead
<1>1. Init => SweepInv
  BY DEF Init, SweepInv, Sweeping, IdleRevoke
<1>2. Spec => [](TypeInv /\ KeyInv /\ SpentInv /\ SweepInv)
  BY <1>1, InitType, KeyInit, StepType, KeyStep, SweepStep, PTL DEF Spec
<1>3. SweepInv => SweptStayDead
  BY DEF SweepInv, SweptStayDead
<1> QED BY <1>2, <1>3, PTL

-----------------------------------------------------------------------------
(* The store never forgets a session before its token runs out             *)

CauseInv ==
    /\ \A j \in Minted : /\ claims[j].iat <= now
                         /\ keyUntil[j] = 0 \/ claims[j].iat + BaseTTL <= keyUntil[j]
    /\ FlaggedForCause

\* The claim of FlaggedForCause about one handler.
Cause(r) ==
    rf[r].pc = "flag" =>
       \/ ~rf[r].good
       \/ keyUntil[rf[r].old] = 0
       \/ now >= claims[rf[r].old].iat + BaseTTL

LEMMA CauseParts == FlaggedForCause <=> \A r \in Refreshers : Cause(r)
BY DEF FlaggedForCause, Cause

LEMMA CausePrimed == FlaggedForCause' <=> \A r \in Refreshers : Cause(r)'
BY DEF FlaggedForCause, Cause

\* A handler that does not sign and stores nothing.
LEMMA CauseMove ==
    ASSUME CauseInv, NEW r \in Refreshers, Others(r), Cause(r)',
           UNCHANGED <<now, claims, keyUntil>>
    PROVE  CauseInv'
<1>1. \A s \in Refreshers : Cause(s)'
  BY CauseParts DEF CauseInv, Cause, Others
<1>2. FlaggedForCause'
  BY <1>1, CausePrimed
<1> QED BY <1>2 DEF CauseInv, Minted

LEMMA CauseFrame ==
    ASSUME CauseInv, UNCHANGED <<now, claims, keyUntil, rf>>
    PROVE  CauseInv'
BY DEF CauseInv, FlaggedForCause, Minted

LEMMA CauseStep == TypeInv /\ KeyInv /\ CauseInv /\ [Next]_vars => CauseInv'
<1> SUFFICES ASSUME TypeInv, KeyInv, CauseInv, [Next]_vars PROVE CauseInv'
    OBVIOUS
<1>0. now \in Nat /\ held \subseteq Minted /\ Minted \subseteq Jti
  BY HeldJti DEF TypeInv, TypeOK
<1>1. \A s \in Refreshers : rf[s].pc = "flag" => rf[s].old \in Minted
  BY RefreshFields
<1>2. \A j \in Minted : claims[j].iat \in Nat /\ keyUntil[j] \in Nat
  BY ClaimFacts DEF TypeInv
<1>3. ASSUME NEW u \in Users, NEW d \in Devices, Login(u, d) PROVE CauseInv'
  <2> DEFINE c == [sub |-> u, dev |-> d, iat |-> now, parent |-> 0]
  <2>1. Signed(c) /\ keyUntil'[NextJti] = now + BaseTTL /\ UNCHANGED <<now, rf>> /\ c.iat = now
    BY <1>3, LoginEffect
  <2>2. \A j \in Jti : j # NextJti => keyUntil'[j] = keyUntil[j]
    BY <1>3, LoginEffect
  <2> HIDE DEF c
  <2>3. \A j \in Minted : claims'[j] = claims[j] /\ keyUntil'[j] = keyUntil[j]
    BY <1>0, <2>1, <2>2 DEF Signed
  <2>4. \A j \in Minted' : /\ claims'[j].iat <= now'
                           /\ keyUntil'[j] = 0 \/ claims'[j].iat + BaseTTL <= keyUntil'[j]
    BY <1>0, <2>1, <2>3, TTLAssumption DEF Signed, CauseInv
  <2>5. \A s \in Refreshers : Cause(s)'
    BY <1>1, <2>1, <2>3, CauseParts DEF CauseInv, Cause
  <2> QED BY <2>4, <2>5, CausePrimed DEF CauseInv
<1>4. ASSUME NEW r \in Refreshers, NEW j \in held, NEW good \in BOOLEAN,
             RefreshStart(r, j, good)
      PROVE  CauseInv'
  BY <1>4, RefreshStartEffect, CauseMove, DonePc DEF Cause
<1>5. ASSUME NEW r \in Refreshers, SetWindow(r) PROVE CauseInv'
  BY <1>5, SetWindowEffect, CauseMove DEF Cause
<1>6. ASSUME NEW r \in Refreshers, ReadTTL(r) PROVE CauseInv'
  <2>1. rf[r].old \in Minted
    BY <1>6, RefreshFields DEF ReadTTL
  <2>2. Cause(r)'
    BY <1>0, <1>2, <1>6, <2>1, ReadTTLEffect, TTLAssumption DEF Cause, CauseInv
  <2> QED BY <1>6, <2>2, ReadTTLEffect, CauseMove
<1>7. ASSUME NEW r \in Refreshers, FlagReuse(r) \/ AbortRefresh(r) PROVE CauseInv'
  BY <1>7, FinishEffect, CauseMove, DonePc DEF Cause
<1>8. ASSUME NEW r \in Refreshers, DeleteOld(r) PROVE CauseInv'
  <2> DEFINE c == [sub |-> claims[rf[r].old].sub, dev |-> claims[rf[r].old].dev,
                   iat |-> now, parent |-> rf[r].old]
  <2>1. Signed(c) /\ now' = now /\ c.iat = now
    BY <1>8, DeleteOldEffect
  <2> HIDE DEF c
  <2>2. /\ \A j \in Jti : keyUntil'[j] = IF j = rf[r].old THEN 0 ELSE keyUntil[j]
        /\ rf[r].pc = "del" /\ rf'[r].pc = "set" /\ Others(r)
    BY <1>8, DeleteOldEffect
  <2>3. rf[r].old \in Minted
    BY <2>2, RefreshFields
  <2>4. NextJti \in Jti /\ keyUntil'[NextJti] = 0
    BY <2>1, <2>2, <2>3 DEF KeyInv, Signed
  <2>5. \A j \in Minted : /\ claims'[j] = claims[j]
                          /\ keyUntil'[j] = 0 \/ keyUntil'[j] = keyUntil[j]
    BY <1>0, <2>1, <2>2 DEF Signed
  <2>6. \A j \in Minted' : /\ claims'[j].iat <= now'
                           /\ keyUntil'[j] = 0 \/ claims'[j].iat + BaseTTL <= keyUntil'[j]
    BY <1>0, <2>1, <2>4, <2>5 DEF Signed, CauseInv
  <2>7. \A s \in Refreshers : Cause(s)'
    BY <1>1, <2>1, <2>2, <2>5, CauseParts DEF CauseInv, Cause, Others
  <2> QED BY <2>6, <2>7, CausePrimed DEF CauseInv
<1>9. ASSUME NEW r \in Refreshers, StoreNew(r) PROVE CauseInv'
  <2>1. /\ rf[r].pc = "set" /\ rf[r].new \in Minted /\ rf[r].new \in Jti
        /\ keyUntil'[rf[r].new] >= now + BaseTTL
        /\ \A j \in Jti : j # rf[r].new => keyUntil'[j] = keyUntil[j]
        /\ rf'[r] = DoneRefresh /\ Others(r) /\ UNCHANGED <<now, claims>>
    BY <1>9, StoreNewEffect
  <2>2. Minted' = Minted
    BY <2>1 DEF Minted
  <2>3. TypeInv'
    BY StepType
  <2>4. keyUntil'[rf[r].new] \in Nat
    BY <2>1, <2>3 DEF TypeInv, TypeOK
  <2>5. \A j \in Minted : /\ claims[j].iat <= now
                          /\ keyUntil'[j] = 0 \/ claims[j].iat + BaseTTL <= keyUntil'[j]
    BY <1>0, <1>2, <2>1, <2>4, TTLAssumption DEF CauseInv
  <2>6. \A s \in Refreshers : rf[s].pc = "flag" => rf[s].old # rf[r].new
    BY <2>1 DEF KeyInv
  <2>7. \A s \in Refreshers : Cause(s)'
    BY <1>0, <1>1, <2>1, <2>6, CauseParts, DonePc DEF CauseInv, Cause, Others
  <2> QED BY <2>1, <2>2, <2>5, <2>7, CausePrimed DEF CauseInv
<1>10. ASSUME NEW v \in Revokers, RevokeNext(v) PROVE CauseInv'
  <2>1. CASE Unlink(v)
    <3>1. /\ \A j \in Jti : keyUntil'[j] = IF j \in rv[v].batch THEN 0 ELSE keyUntil[j]
          /\ UNCHANGED <<now, claims, rf>>
      BY <2>1, UnlinkEffect
    <3>2. \A j \in Minted : keyUntil'[j] = 0 \/ keyUntil'[j] = keyUntil[j]
      BY <1>0, <3>1
    <3>3. Minted' = Minted
      BY <3>1 DEF Minted
    <3>4. \A s \in Refreshers : Cause(s)'
      BY <1>1, <3>1, <3>2, CauseParts DEF CauseInv, Cause
    <3> QED BY <3>1, <3>2, <3>3, <3>4, CausePrimed DEF CauseInv
  <2>2. CASE ~Unlink(v)
    BY <1>10, <2>2, RevokeEffect, CauseFrame
  <2> QED BY <2>1, <2>2
<1>11. CASE Tick
  <2>1. now' = now + 1 /\ UNCHANGED <<claims, keyUntil, rf>>
    BY <1>11 DEF Tick
  <2>2. \A s \in Refreshers : Cause(s)'
    BY <1>0, <1>1, <1>2, <2>1, CauseParts, TTLAssumption DEF CauseInv, Cause
  <2>3. \A j \in Minted : /\ claims[j].iat <= now + 1
                          /\ keyUntil[j] = 0 \/ claims[j].iat + BaseTTL <= keyUntil[j]
    BY <1>0, <1>2 DEF CauseInv
  <2> QED BY <2>1, <2>2, <2>3, CausePrimed DEF CauseInv, Minted
<1>12. CASE UNCHANGED vars
  BY <1>12, CauseFrame DEF vars
<1> QED
  BY <1>3, <1>4, <1>5, <1>6, <1>7, <1>8, <1>9, <1>10, <1>11, <1>12 DEF Next, RefreshNext

\* The 403 of a missing key always has a cause the client can know of.
THEOREM RefusalsHaveACause == Spec => []FlaggedForCause
<1>1. Init => CauseInv
  BY DEF Init, CauseInv, FlaggedForCause, Minted, IdleRefresh
<1>2. Spec => [](TypeInv /\ KeyInv /\ SpentInv /\ CauseInv)
  BY <1>1, InitType, KeyInit, StepType, KeyStep, CauseStep, PTL DEF Spec
<1>3. CauseInv => FlaggedForCause
  BY DEF CauseInv
<1> QED BY <1>2, <1>3, PTL

-----------------------------------------------------------------------------
(* Sessions and Access together                                            *)

\* The proofs about Access, read over the flags of Sessions.
Proved == INSTANCE AccessProofs WITH blockedUntil <- Up(blockedUntil[Device]),
                                     revokedUntil <- Up(revokedUntil[Device])

(* Two writers set each flag of a device, and one of them at a time.       *)
LEMMA FlagWrites ==
    ASSUME TypeInv, [Next]_vars, now' = now, NEW d \in Devices
    PROVE  \/ blockedUntil'[d] = blockedUntil[d] /\ revokedUntil'[d] = revokedUntil[d]
           \/ blockedUntil'[d] = now + FlagTTL /\ revokedUntil'[d] = revokedUntil[d]
           \/ blockedUntil'[d] = blockedUntil[d] /\ revokedUntil'[d] = now + FlagTTL
<1>1. blockedUntil \in [Devices -> Nat] /\ revokedUntil \in [Devices -> Nat]
  BY DEF TypeInv, TypeOK
<1>2. ASSUME NEW v \in Revokers, MarkBlocked(v)
      PROVE  /\ blockedUntil'[d] \in {blockedUntil[d], now + FlagTTL}
             /\ revokedUntil' = revokedUntil
  BY <1>1, <1>2 DEF MarkBlocked
<1>3. ASSUME NEW v \in Revokers, MarkRevoked(v)
      PROVE  /\ revokedUntil'[d] \in {revokedUntil[d], now + FlagTTL}
             /\ blockedUntil' = blockedUntil
  BY <1>1, <1>3 DEF MarkRevoked
<1>4. ASSUME NEW r \in Refreshers, FlagReuse(r)
      PROVE  /\ revokedUntil'[d] \in {revokedUntil[d], now + FlagTTL}
             /\ blockedUntil' = blockedUntil
  BY <1>1, <1>4 DEF FlagReuse
<1>5. ASSUME NEW v \in Revokers, RevokeNext(v), ~MarkBlocked(v), ~MarkRevoked(v)
      PROVE  UNCHANGED <<blockedUntil, revokedUntil>>
  BY <1>5 DEF RevokeNext, Logout, ServerRevoke, StartRevoke, Scan, Unlink, PublishBlock,
              MarkOverlay, AbortRevoke, flags
<1>6. ASSUME NEW r \in Refreshers, RefreshNext(r), ~FlagReuse(r)
      PROVE  UNCHANGED <<blockedUntil, revokedUntil>>
  BY <1>6 DEF RefreshNext, RefreshStart, SetWindow, ReadTTL, DeleteOld, StoreNew, AbortRefresh, flags
<1>7. ASSUME NEW u \in Users, NEW e \in Devices, Login(u, e)
      PROVE  UNCHANGED <<blockedUntil, revokedUntil>>
  BY <1>7 DEF Login, flags
<1>8. Tick \/ UNCHANGED vars => UNCHANGED <<blockedUntil, revokedUntil>>
  BY DEF Tick, vars, flags
<1> QED BY <1>2, <1>3, <1>4, <1>5, <1>6, <1>7, <1>8 DEF Next

LEMMA SubjectFacts ==
    ASSUME TypeInv, Subject \in Owners
    PROVE  /\ Device \in Devices /\ now \in Nat /\ lastRevoke[Device] \in Nat
           /\ blockedUntil[Device] \in Nat /\ revokedUntil[Device] \in Nat
BY DEF TypeInv, TypeOK, Owners, Device

(* To the guard, what Sessions does to the flags is what it expects.       *)
LEMMA GuardSeesSessions ==
    ASSUME TypeInv, Subject \in Owners, [Next]_vars, now' = now, UNCHANGED guardVars
    PROVE  [Guard!Next]_Guard!vars
<1>1. FlagTTL \in Nat /\ FlagTTL > 0
  BY TTLAssumption, FlagOutlivesAccess
<1>2. Up(now + FlagTTL) = now + FlagTTL
  BY <1>1, SubjectFacts DEF Up
<1>3. UNCHANGED <<reg, sub, cache, win, rq, known>>
  BY DEF guardVars
<1>4. Up(blockedUntil[Device])' = Up(blockedUntil'[Device]) /\ Up(revokedUntil[Device])' = Up(revokedUntil'[Device])
  BY DEF Up, Device
<1>5. CASE blockedUntil'[Device] = blockedUntil[Device] /\ revokedUntil'[Device] = revokedUntil[Device]
  BY <1>3, <1>4, <1>5 DEF Guard!vars
<1>6. CASE blockedUntil'[Device] = now + FlagTTL /\ revokedUntil'[Device] = revokedUntil[Device]
  <2>1. Guard!SetBlocked
    BY <1>2, <1>3, <1>4, <1>6 DEF Guard!SetBlocked, Guard!billed
  <2> QED BY <2>1 DEF Guard!Next
<1>7. CASE blockedUntil'[Device] = blockedUntil[Device] /\ revokedUntil'[Device] = now + FlagTTL
  <2>1. Guard!SetRevoked
    BY <1>2, <1>3, <1>4, <1>7 DEF Guard!SetRevoked, Guard!billed
  <2> QED BY <2>1 DEF Guard!Next
<1> QED BY <1>5, <1>6, <1>7, FlagWrites, SubjectFacts

(* Time ends the same flags for both.                                      *)
LEMMA PassTicks ==
    ASSUME TypeInv, Subject \in Owners, Pass
    PROVE  Guard!Tick
<1>1. now < MaxTime /\ now' = now + 1 /\ UNCHANGED <<blockedUntil, revokedUntil>>
  BY DEF Pass, Tick, flags
<1>2. \A until \in Nat : (IF until > now + 1 THEN until ELSE 0)
                            = IF Up(until) = now + 1 THEN 0 ELSE Up(until)
  BY SubjectFacts DEF Up
<1>3. /\ Up(blockedUntil[Device])' = IF blockedUntil[Device] > now + 1 THEN blockedUntil[Device] ELSE 0
      /\ Up(revokedUntil[Device])' = IF revokedUntil[Device] > now + 1 THEN revokedUntil[Device] ELSE 0
  BY <1>1 DEF Up, Device
<1>4. /\ Up(blockedUntil[Device])' = IF Up(blockedUntil[Device]) = now + 1 THEN 0 ELSE Up(blockedUntil[Device])
      /\ Up(revokedUntil[Device])' = IF Up(revokedUntil[Device]) = now + 1 THEN 0 ELSE Up(revokedUntil[Device])
  BY <1>2, <1>3, SubjectFacts
<1> QED BY <1>1, <1>4 DEF Pass, Guard!Tick, Guard!billed

LEMMA LockoutMoves ==
    ASSUME TypeInv, Subject \in Owners, [LockoutNext]_lockVars
    PROVE  [Next]_vars /\ [Guard!Next]_Guard!vars
<1>1. CASE Next /\ now' = now /\ UNCHANGED <<guardVars, callVars>>
  BY <1>1, GuardSeesSessions
<1>2. ASSUME NEW r \in Requests, Call(r) \/ Serve(r) PROVE UNCHANGED vars /\ Guard!Next
  BY <1>2 DEF Call, Serve, Guard!Next, Guard!RequestStep
<1>3. CASE Bill
  BY <1>3 DEF Bill, Guard!Next
<1>4. CASE Pass
  BY <1>4, PassTicks DEF Pass, Next, Guard!Next
<1>5. CASE UNCHANGED lockVars
  BY <1>5, GuardSeesSessions DEF lockVars, vars
<1> QED BY <1>1, <1>2, <1>3, <1>4, <1>5 DEF LockoutNext

LEMMA LockoutSessions ==
    ASSUME Subject \in Owners
    PROVE  LockoutSpec => Spec /\ [](TypeInv /\ FlagInv)
<1>1. LockoutInit => Init /\ FlagInv
  BY DEF LockoutInit, Init, FlagInv, Minted
<1>2. TypeInv /\ [LockoutNext]_lockVars => [Next]_vars
  BY LockoutMoves
<1> QED BY <1>1, <1>2, InitType, StepType, FlagStep, PTL DEF LockoutSpec, Spec

\* What Access takes for granted of the flags is what Sessions does: over the
\* calls of revoke_and_block and the detection of reuse, the guard behaves as
\* Access says.
THEOREM FlagsImplemented ==
    ASSUME Subject \in Owners
    PROVE  LockoutSpec => Guard!Spec
<1>1. LockoutInit => Guard!Init
  BY DEF LockoutInit
<1>2. TypeInv /\ [LockoutNext]_lockVars => [Guard!Next]_Guard!vars
  BY LockoutMoves
<1> QED BY <1>1, <1>2, LockoutSessions, PTL DEF LockoutSpec, Guard!Spec

(* Specification and proofs speak of the same guard: each action of one is *)
(* the action of that name of the other.                                   *)
LEMMA SameStep ==
    ASSUME NEW r, Guard!RequestStep(r)
    PROVE  Proved!RequestStep(r)
BY
      DEF Guard!Tiers, Proved!Tiers, Guard!Content, Proved!Content, Guard!NoContent,
          Proved!NoContent, Guard!Steps, Proved!Steps, Guard!Ends, Proved!Ends,
          Guard!Request, Proved!Request, Guard!Blank, Proved!Blank, Guard!NoKey,
          Proved!NoKey, Guard!Later, Proved!Later, Guard!Goto, Proved!Goto, Guard!End,
          Proved!End, Guard!locks, Proved!locks, Guard!billed, Proved!billed, Guard!Arrive,
          Proved!Arrive, Guard!ReadRevoked, Proved!ReadRevoked, Guard!ReadState,
          Proved!ReadState, Guard!TierOf, Proved!TierOf, Guard!ReadCache, Proved!ReadCache,
          Guard!SelectRegistration, Proved!SelectRegistration, Guard!Attest, Proved!Attest,
          Guard!InsertRegistration, Proved!InsertRegistration, Guard!CommitRegistration,
          Proved!CommitRegistration, Guard!IsPremium, Proved!IsPremium, Guard!TrialExpired,
          Proved!TrialExpired, Guard!Unpaid, Proved!Unpaid, Guard!AnswerStatus,
          Proved!AnswerStatus, Guard!PassPaywall, Proved!PassPaywall,
          Guard!SelectSubscription, Proved!SelectSubscription, Guard!Count, Proved!Count,
          Guard!SetWindow, Proved!SetWindow, Guard!Crash, Proved!Crash, Guard!RequestStep,
          Proved!RequestStep

LEMMA SameGuard ==
    /\ Guard!AccessAssumption => Proved!AccessAssumption
    /\ Guard!Spec => Proved!Spec
<1>1. Guard!AccessAssumption => Proved!AccessAssumption
  BY
      DEF Guard!AccessAssumption, Proved!AccessAssumption, Guard!Content, Proved!Content,
          Guard!Tiers, Proved!Tiers, Guard!IsFiniteSet, Proved!IsFiniteSet
<1>2. Guard!Init => Proved!Init
  BY
      DEF Guard!Init, Proved!Init, Guard!NoContent, Proved!NoContent, Guard!Tiers,
          Proved!Tiers, Guard!Blank, Proved!Blank, Guard!NoKey, Proved!NoKey
<1>3. [Guard!Next]_Guard!vars => [Proved!Next]_Proved!vars
  <2>1. UNCHANGED Guard!vars => UNCHANGED Proved!vars
    BY DEF Guard!vars, Proved!vars
  <2>2. Guard!Next => Proved!Next
    BY SameStep
      DEF Guard!Next, Proved!Next, Guard!CommitWebhook, Proved!CommitWebhook,
          Guard!FillCache, Proved!FillCache, Guard!CacheExpires, Proved!CacheExpires,
          Guard!SetBlocked, Proved!SetBlocked, Guard!SetRevoked, Proved!SetRevoked,
          Guard!Tick, Proved!Tick, Guard!NoContent, Proved!NoContent, Guard!NoKey,
          Proved!NoKey, Guard!Tiers, Proved!Tiers, Guard!locks, Proved!locks, Guard!billed,
          Proved!billed
  <2> QED BY <2>1, <2>2
<1> QED BY <1>1, <1>2, <1>3, PTL DEF Guard!Spec, Proved!Spec

(* A request under way was let in with a token that a client holds; if it  *)
(* was signed before the last revocation then, it ends before the flags do *)
(* that the request found.                                                 *)
Admissible == Guard!Steps \cup {"admitted", "answered"}

CallInv ==
    \A r \in Requests :
       /\ token[r] \in held \/ rq[r].pc = "idle"
       /\ rq[r].pc \in Admissible /\ claims[token[r]].iat <= found[r] =>
             claims[token[r]].iat + AccessTTL + Leeway < rq[r].barred

LockoutTypes ==
    /\ TypeInv /\ FlagInv /\ Proved!TypeOK
    /\ token \in [Requests -> Nat] /\ found \in [Requests -> Nat]

LEMMA CallKept ==
    ASSUME LockoutTypes, CallInv, [Next]_vars, UNCHANGED <<rq, callVars>>
    PROVE  CallInv'
<1>1. held \subseteq held'
  <2>1. ASSUME NEW u \in Users, NEW d \in Devices, Login(u, d) PROVE held \subseteq held'
    BY <2>1 DEF Login
  <2>2. ASSUME NEW r \in Refreshers, RefreshNext(r) PROVE held \subseteq held'
    BY <2>2 DEF RefreshNext, RefreshStart, SetWindow, ReadTTL, FlagReuse, DeleteOld, StoreNew, AbortRefresh
  <2>3. ASSUME NEW v \in Revokers, RevokeNext(v) PROVE held \subseteq held'
    BY <2>3, RevokeEffect
  <2>4. Tick \/ UNCHANGED vars => held \subseteq held'
    BY DEF Tick, vars
  <2> QED BY <2>1, <2>2, <2>3, <2>4 DEF Next
<1>2. \A j \in held : claims'[j] = claims[j]
  BY ClaimStays DEF LockoutTypes, TypeInv, TypeOK
<1>3. \A r \in Requests : rq[r].pc \in Admissible => rq[r].pc # "idle"
  BY DEF Admissible, Guard!Steps
<1>4. \A r \in Requests : token'[r] = token[r] /\ found'[r] = found[r] /\ rq'[r] = rq[r]
  BY DEF callVars
<1> QED BY <1>1, <1>2, <1>3, <1>4 DEF CallInv, Admissible, Guard!Steps

LEMMA CallComes ==
    ASSUME LockoutTypes, CallInv, Subject \in Owners, NEW r \in Requests, Call(r)
    PROVE  CallInv'
<1>1. PICK j \in held : Verified(j) /\ token' = [token EXCEPT ![r] = j]
  BY DEF Call
<1>2. PICK guard, android, att \in BOOLEAN : Guard!Arrive(r, guard, android, att)
  BY DEF Call
<1>3. /\ UNCHANGED vars /\ found' = [found EXCEPT ![r] = lastRevoke[Device]]
      /\ held' = held /\ claims' = claims
  BY DEF Call, vars
<1>4. /\ j \in Minted /\ claims[j].iat \in Nat /\ claims[j].iat >= 1 /\ claims[j].dev = Device
      /\ now <= claims[j].iat + AccessTTL + Leeway
  <2>1. j \in Minted
    BY DEF LockoutTypes, TypeInv, TypeOK
  <2> QED BY <1>1, <2>1, ClaimFacts DEF LockoutTypes, TypeInv, FlagInv, Verified, Owner, Device
<1>5. /\ rq'[r].barred >= Up(revokedUntil[Device])
      /\ \A o \in Requests \ {r} : rq'[o] = rq[o]
  <2>1. rq \in [Requests -> Proved!Request]
    BY DEF LockoutTypes, Proved!TypeOK
  <2>2. /\ rq'[r].barred = IF guard THEN Guard!Later(Up(blockedUntil[Device]), Up(revokedUntil[Device]))
                           ELSE Up(revokedUntil[Device])
        /\ \A o \in Requests \ {r} : rq'[o] = rq[o]
    BY <1>2, <2>1 DEF Guard!Arrive, Proved!Request
  <2>3. Up(blockedUntil[Device]) \in Nat /\ Up(revokedUntil[Device]) \in Nat
    BY SubjectFacts DEF Up, LockoutTypes
  <2> QED BY <2>2, <2>3 DEF Guard!Later
<1>6. claims[j].iat <= lastRevoke[Device] => claims[j].iat + AccessTTL + Leeway < rq'[r].barred
  <2> SUFFICES ASSUME claims[j].iat <= lastRevoke[Device]
               PROVE  claims[j].iat + AccessTTL + Leeway < rq'[r].barred
    OBVIOUS
  <2>1. /\ Device \in Devices /\ now \in Nat /\ lastRevoke[Device] \in Nat
        /\ revokedUntil[Device] \in Nat
    BY SubjectFacts DEF LockoutTypes
  <2>2. revokedUntil[Device] = lastRevoke[Device] + FlagTTL
    BY <1>4, <2>1 DEF LockoutTypes, FlagInv
  <2>3. claims[j].iat + AccessTTL + Leeway < revokedUntil[Device]
    BY <1>4, <2>1, <2>2, TTLAssumption, FlagOutlivesAccess
  <2>4. Up(revokedUntil[Device]) = revokedUntil[Device]
    BY <1>4, <2>1, <2>3, TTLAssumption DEF Up
  <2>5. rq'[r].barred \in Nat
    BY <1>2, SubjectFacts DEF LockoutTypes, Proved!TypeOK, Proved!Request, Guard!Arrive, Guard!Later, Up
  <2> QED BY <1>4, <1>5, <2>1, <2>3, <2>4, <2>5, TTLAssumption
<1>7. /\ token'[r] = j /\ found'[r] = lastRevoke[Device]
      /\ \A o \in Requests \ {r} : token'[o] = token[o] /\ found'[o] = found[o]
  BY <1>1, <1>3 DEF LockoutTypes
<1> QED BY <1>3, <1>5, <1>6, <1>7 DEF CallInv

LEMMA CallServed ==
    ASSUME Proved!AccessAssumption, LockoutTypes, CallInv, NEW r \in Requests, Serve(r)
    PROVE  CallInv'
<1>1. UNCHANGED <<claims, held, token, found>> /\ rq[r].pc # "idle" /\ Guard!RequestStep(r)
  BY DEF Serve, vars, callVars
<1>2. Proved!TypeOK /\ Proved!RequestStep(r)
  BY <1>1, SameStep DEF LockoutTypes
<1>3. \A o \in Requests \ {r} : rq'[o] = rq[o]
  BY <1>2, Proved!Others
<1>4. /\ rq[r].pc \in Proved!Steps
      /\ rq'[r].pc \in {"refused", "error", "crashed"} \/ rq'[r].barred = rq[r].barred
  BY <1>1, <1>2, Proved!BarredKept
<1> QED BY <1>1, <1>3, <1>4 DEF CallInv, Admissible, Guard!Steps, Proved!Steps

LEMMA CallStep ==
    ASSUME Subject \in Owners, Proved!AccessAssumption
    PROVE  LockoutTypes /\ CallInv /\ [LockoutNext]_lockVars => CallInv'
<1> SUFFICES ASSUME LockoutTypes, CallInv, [LockoutNext]_lockVars PROVE CallInv'
  OBVIOUS
<1>1. [Next]_vars
  BY LockoutMoves DEF LockoutTypes
<1>2. ASSUME NEW r \in Requests, Call(r) PROVE CallInv'
  BY <1>2, CallComes
<1>3. ASSUME NEW r \in Requests, Serve(r) PROVE CallInv'
  BY <1>3, CallServed
<1>4. CASE UNCHANGED <<guardVars, callVars>>
  BY <1>1, <1>4, CallKept DEF guardVars
<1>5. CASE Bill
  BY <1>1, <1>5, CallKept DEF Bill, Guard!CommitWebhook, Guard!FillCache, Guard!CacheExpires
<1>6. CASE Pass
  BY <1>1, <1>6, CallKept DEF Pass
<1> QED BY <1>2, <1>3, <1>4, <1>5, <1>6 DEF LockoutNext, lockVars

LEMMA CallTypes ==
    ASSUME Subject \in Owners
    PROVE  LockoutSpec => [](token \in [Requests -> Nat] /\ found \in [Requests -> Nat])
<1> DEFINE T == token \in [Requests -> Nat] /\ found \in [Requests -> Nat]
<1>1. LockoutInit => T
  BY DEF LockoutInit
<1>2. TypeInv /\ T /\ [LockoutNext]_lockVars => T'
  <2> SUFFICES ASSUME TypeInv, T, [LockoutNext]_lockVars PROVE T'
    OBVIOUS
  <2>1. ASSUME NEW r \in Requests, Call(r) PROVE T'
    <3>1. \A j \in held : j \in Nat
      BY DEF TypeInv, TypeOK, Minted
    <3> QED BY <2>1, <3>1, SubjectFacts DEF Call
  <2>2. UNCHANGED callVars => T'
    BY DEF callVars
  <2> QED BY <2>1, <2>2 DEF LockoutNext, lockVars, Serve, Bill, Pass
<1> QED BY <1>1, <1>2, LockoutSessions, PTL DEF LockoutSpec

\* Whoever sets or reads the flags, in whatever order and however slowly: an
\* access token that was signed before a revocation gets nothing from requests
\* that come after it.
THEOREM RevocationReaches ==
    ASSUME Subject \in Owners, Guard!AccessAssumption
    PROVE  LockoutSpec => []RevokedGetNothing
<1>1. Proved!AccessAssumption
  BY SameGuard
<1>2. Proved!Spec => [](Proved!TypeOK /\ Proved!FlagsBar)
  BY <1>1, Proved!TypeCorrect, Proved!FlagsHold, PTL
<1>3. LockoutSpec => []LockoutTypes
  BY <1>2, FlagsImplemented, SameGuard, LockoutSessions, CallTypes, PTL DEF LockoutTypes
<1>4. LockoutInit => CallInv
  BY DEF LockoutInit, CallInv, Admissible, Guard!Init, Guard!Blank, Guard!Steps
<1>5. LockoutTypes /\ CallInv /\ Proved!FlagsBar => RevokedGetNothing
  <2> SUFFICES ASSUME LockoutTypes, CallInv, Proved!FlagsBar, NEW r \in Requests,
                      rq[r].pc \in (Guard!Steps \ {"revoked", "state"}) \cup {"admitted", "answered"},
                      claims[token[r]].iat <= found[r]
               PROVE  now > claims[token[r]].iat + AccessTTL + Leeway
    BY DEF RevokedGetNothing
  <2>1. rq[r].pc \in Admissible /\ rq[r].pc # "idle"
    BY DEF Admissible, Guard!Steps
  <2>2. claims[token[r]].iat + AccessTTL + Leeway < rq[r].barred /\ token[r] \in held
    BY <2>1 DEF CallInv
  <2>3. rq[r].barred <= now
    BY DEF Proved!FlagsBar, Proved!Steps, Guard!Steps
  <2>4. claims[token[r]].iat \in Nat /\ now \in Nat /\ rq[r].barred \in Nat
    BY <2>2, ClaimFacts DEF LockoutTypes, TypeInv, TypeOK, Proved!TypeOK, Proved!Request
  <2> QED BY <2>2, <2>3, <2>4, TTLAssumption
<1> QED BY <1>2, <1>3, <1>4, <1>5, FlagsImplemented, SameGuard, CallStep, PTL DEF LockoutSpec
=============================================================================
