----------------------------- MODULE JwksProofs -----------------------------
(***************************************************************************)
(* Theorems about Jwks, for every number of keys and processes, every cache*)
(* lifetime and every duration of a fetch.                                 *)
(***************************************************************************)
EXTENDS Jwks, TLAPS

-----------------------------------------------------------------------------
(* Type correctness                                                        *)

LEMMA VerdictType ==
    ASSUME NEW set \in KeySet, NEW by \in Kids, NEW named \in BOOLEAN
    PROVE  Verdict(set, by, named) \in Verdicts
BY Zenon DEF Verdict, Verdicts

LEMMA EmptyType == Empty \in KeySet
BY DEF Empty, KeySet

LEMMA JobTypes ==
    ASSUME NEW by \in Kids \cup {None}, NEW named \in BOOLEAN, NEW n \in Nat
    PROVE  /\ NoJob \in JobState
           /\ \A pc \in Verdicts :
                [NoJob EXCEPT !.pc = pc, !.by = by, !.named = named, !.done = n] \in JobState
           /\ [NoJob EXCEPT !.pc = "fetch", !.by = by, !.named = named, !.asked = n] \in JobState
BY EmptyType, Zenon DEF NoJob, JobState

LEMMA ReplyType ==
    ASSUME NEW j \in JobState, NEW s \in KeySet, NEW n \in Nat
    PROVE  [j EXCEPT !.pc = "reply", !.set = s, !.seen = n] \in JobState
BY Zenon DEF JobState

LEMMA JudgeType ==
    ASSUME TypeOK, NEW p \in Processes, NEW set \in KeySet, NEW by \in Kids,
           NEW named \in BOOLEAN, Judge(p, set, by, named)
    PROVE  job' \in [Processes -> JobState]
<1>1. [NoJob EXCEPT !.pc = Verdict(set, by, named), !.by = by, !.named = named, !.done = now]
         \in JobState
  BY VerdictType, JobTypes, Zenon DEF TypeOK
<1> QED BY <1>1, Zenon DEF TypeOK, Judge

\* Every token was signed by some key.
Signed == \A p \in Processes : job[p].pc # "idle" => job[p].by \in Kids

LEMMA SignedInit == Init => Signed
BY DEF Init, Signed, NoJob

LEMMA TypeInit == Init => TypeOK
<1> SUFFICES ASSUME Init PROVE TypeOK
  OBVIOUS
<1>1. [set |-> Empty, at |-> 0, seen |-> 0] \in CacheState /\ NoJob \in JobState
  BY EmptyType, JobTypes, 0 \in Nat, FALSE \in BOOLEAN, Zenon DEF CacheState, NoJob, JobState
<1> QED BY <1>1, EmptyType, 0 \in Nat, 1 \in Nat, Zenon DEF Init, TypeOK

LEMMA TypeNext == TypeOK /\ Signed /\ [Next]_vars => TypeOK'
<1> SUFFICES ASSUME TypeOK, Signed, [Next]_vars PROVE TypeOK'
  OBVIOUS
<1>0. ASSUME NEW p \in Processes
      PROVE  /\ job[p] \in JobState /\ cache[p] \in CacheState
             /\ cache[p].set \in KeySet /\ job[p].set \in KeySet /\ job[p].seen \in Nat
             /\ job[p].by \in Kids \cup {None} /\ job[p].named \in BOOLEAN
  BY Zenon DEF TypeOK, CacheState, JobState
<1>1. ASSUME NEW p \in Processes, NEW by \in Kids, NEW named \in BOOLEAN,
             FromCache(p, by, named)
      PROVE  TypeOK'
  BY <1>0, <1>1, JudgeType, Zenon DEF FromCache, TypeOK
<1>2. ASSUME NEW p \in Processes, NEW by \in Kids, NEW named \in BOOLEAN,
             StartFetch(p, by, named)
      PROVE  TypeOK'
  BY <1>2, JobTypes, Zenon DEF StartFetch, TypeOK
<1>3. ASSUME NEW p \in Processes, Respond(p) PROVE TypeOK'
  <2>1. [job[p] EXCEPT !.pc = "reply", !.set = listed, !.seen = now] \in JobState
    <3>1. job[p] \in JobState /\ listed \in KeySet /\ now \in Nat
      BY Zenon DEF TypeOK
    <3> QED BY <3>1, ReplyType, Zenon
  <2> QED BY <1>3, <2>1, Zenon DEF Respond, TypeOK
<1>4. ASSUME NEW p \in Processes, Store(p) PROVE TypeOK'
  <2>1. [set |-> job[p].set, at |-> now, seen |-> job[p].seen] \in CacheState
    BY <1>0, Zenon DEF TypeOK, CacheState
  <2>2. job[p].by \in Kids
    BY <1>4 DEF Store, Signed
  <2>3. job' \in [Processes -> JobState]
    <3>1. job[p].set \in KeySet /\ job[p].named \in BOOLEAN
      BY <1>0, Zenon
    <3>2. Judge(p, job[p].set, job[p].by, job[p].named)
      BY <1>4, Zenon DEF Store
    <3> QED BY <2>2, <3>1, <3>2, JudgeType, Zenon
  <2> QED BY <1>4, <2>1, <2>3, Zenon DEF Store, TypeOK
<1>5. ASSUME NEW p \in Processes, FetchFails(p) PROVE TypeOK'
  <2>1. [NoJob EXCEPT !.pc = "unavailable", !.by = job[p].by, !.named = job[p].named, !.done = now]
           \in JobState
    BY <1>0, JobTypes, Zenon DEF TypeOK, Verdicts
  <2> QED BY <1>5, <2>1, Zenon DEF FetchFails, Refuse, TypeOK
<1>6. ASSUME NEW p \in Processes, Restart(p) PROVE TypeOK'
  <2>1. [set |-> Empty, at |-> 0, seen |-> 0] \in CacheState /\ NoJob \in JobState
    BY <1>0, EmptyType, JobTypes, 0 \in Nat, Zenon DEF CacheState
  <2> QED BY <1>6, <2>1, Zenon DEF Restart, TypeOK
<1>7. ASSUME NEW k \in Kids, Publish(k) PROVE TypeOK'
  <2>1. listed.keys \subseteq Kids /\ listed.first \in listed.keys \cup {None}
    BY DEF TypeOK, KeySet
  <2>2. ASSUME NEW f \in {k, listed.first} \ {None}
        PROVE  [keys |-> listed.keys \cup {k}, first |-> f] \in KeySet
    BY <2>1 DEF KeySet
  <2> QED BY <1>7, <2>2, Zenon DEF Publish, TypeOK
<1>8. ASSUME NEW k \in Kids, Withdraw(k) PROVE TypeOK'
  <2>1. listed.keys \subseteq Kids
    BY DEF TypeOK, KeySet
  <2>2. ASSUME NEW f \in listed.keys \ {k}
        PROVE  [keys |-> listed.keys \ {k}, first |-> f] \in KeySet
    BY <2>1 DEF KeySet
  <2>3. listed' \in KeySet
    BY <1>8, <2>2, EmptyType, Zenon DEF Withdraw
  <2> QED BY <1>8, <2>3, Zenon DEF Withdraw, TypeOK
<1>9. CASE Tick BY <1>9 DEF Tick, TypeOK
<1>10. CASE UNCHANGED vars BY <1>10, Zenon DEF vars, TypeOK
<1> QED BY <1>1, <1>2, <1>3, <1>4, <1>5, <1>6, <1>7, <1>8, <1>9, <1>10, Zenon DEF Next

LEMMA SignedNext == TypeOK /\ Signed /\ [Next]_vars => Signed'
<1> SUFFICES ASSUME TypeOK, Signed, [Next]_vars, NEW q \in Processes, job'[q].pc # "idle"
             PROVE  job'[q].by \in Kids
  BY Zenon DEF Signed
<1>1. ASSUME NEW p \in Processes, NEW set, NEW by \in Kids, NEW named, Judge(p, set, by, named)
      PROVE  job'[q].by \in Kids
  BY <1>1 DEF Judge, NoJob, TypeOK, Signed
<1>2. ASSUME NEW p \in Processes, NEW by \in Kids, NEW named \in BOOLEAN,
             FromCache(p, by, named)
      PROVE  job'[q].by \in Kids
  BY <1>1, <1>2, Zenon DEF FromCache
<1>3. ASSUME NEW p \in Processes, NEW by \in Kids, NEW named \in BOOLEAN,
             StartFetch(p, by, named)
      PROVE  job'[q].by \in Kids
  BY <1>3 DEF StartFetch, Signed, NoJob, TypeOK
<1>4. ASSUME NEW p \in Processes, Respond(p) PROVE job'[q].by \in Kids
  BY <1>4 DEF Respond, Signed, TypeOK
<1>5. ASSUME NEW p \in Processes, Store(p) PROVE job'[q].by \in Kids
  <2>1. job[p].by \in Kids
    BY <1>5 DEF Store, Signed
  <2> QED BY <1>1, <1>5, <2>1, Zenon DEF Store
<1>6. ASSUME NEW p \in Processes, FetchFails(p) PROVE job'[q].by \in Kids
  BY <1>6 DEF FetchFails, Refuse, Signed, NoJob, TypeOK
<1>7. ASSUME NEW p \in Processes, Restart(p) PROVE job'[q].by \in Kids
  BY <1>7 DEF Restart, Signed, NoJob, TypeOK
<1>8. CASE UNCHANGED job BY <1>8, Zenon DEF Signed
<1> QED BY <1>2, <1>3, <1>4, <1>5, <1>6, <1>7, <1>8, Zenon
        DEF Next, Publish, Withdraw, Tick, vars

\* Caches, verifications and the endpoint are well typed in every reachable state;
\* in particular the first key of a set is one of its keys.
THEOREM TypeCorrect == Spec => []TypeOK
<1>1. Init => TypeOK /\ Signed
  BY TypeInit, SignedInit
<1>2. TypeOK /\ Signed /\ [Next]_vars => (TypeOK /\ Signed)'
  BY TypeNext, SignedNext
<1> QED BY <1>1, <1>2, PTL DEF Spec

-----------------------------------------------------------------------------
(* The inductive invariant                                                 *)

\* A set is what the endpoint listed at one moment.
ListedAt(set, seen) ==
    \A k \in Kids :
       /\ k \in set.keys => pub[k] # 0 /\ (gone[k] # 0 => gone[k] >= seen)
       /\ k \notin set.keys =>
             (pub[k] # 0 /\ pub[k] < seen => gone[k] # 0 /\ gone[k] <= seen)
\* Keys are published, listed, withdrawn, in this order and not in the future.
Endpoint ==
    /\ now # 0
    /\ \A k \in Kids : /\ pub[k] <= now /\ gone[k] <= now
                       /\ gone[k] # 0 => pub[k] # 0
                       /\ k \in listed.keys <=> pub[k] # 0 /\ gone[k] = 0
\* A cached set is at most one fetch older than cached_at says.
Cached ==
    \A p \in Processes : cache[p].at # 0 =>
       /\ ListedAt(cache[p].set, cache[p].seen)
       /\ cache[p].seen <= cache[p].at /\ cache[p].at <= cache[p].seen + FetchTime
       /\ cache[p].at <= now
\* A fetch ends in time.
Fetching ==
    \A p \in Processes :
       /\ ~Idle(p) => job[p].asked <= now /\ now <= job[p].asked + FetchTime
       /\ job[p].pc = "reply" => /\ ListedAt(job[p].set, job[p].seen)
                                /\ job[p].asked <= job[p].seen /\ job[p].seen <= now
Judged ==
    /\ AcceptedWasListed /\ LongListedIsKnown
    /\ \A p \in Processes : job[p].pc \in {"accepted", "unknown"} => job[p].done <= now

Inv == TypeOK /\ Signed /\ Endpoint /\ Cached /\ Fetching /\ Judged

\* What a verdict says about its key, one cache lifetime and one fetch back.
Sound(verdict, by, done) ==
    /\ verdict = "accepted" /\ by # Static =>
          pub[by] # 0 /\ (gone[by] # 0 => done < gone[by] + TTL + FetchTime)
    /\ verdict = "unknown" => \/ pub[by] = 0
                              \/ done < pub[by] + TTL + FetchTime
                              \/ gone[by] # 0 /\ gone[by] <= done

LEMMA VerdictSound ==
    ASSUME TypeOK, NEW set \in KeySet, NEW seen \in Nat, NEW by \in Kids,
           NEW named \in BOOLEAN, ListedAt(set, seen), seen <= now,
           now < seen + TTL + FetchTime
    PROVE  Sound(Verdict(set, by, named), by, now)
<1> DEFINE v == Verdict(set, by, named)
<1>1. v = "accepted" => by \in set.keys \/ by = Static
  BY Zenon DEF Verdict, KeySet
<1>2. v = "unknown" => by \notin set.keys
  BY Zenon DEF Verdict
<1>3. pub[by] \in Nat /\ gone[by] \in Nat /\ now \in Nat
  BY Zenon DEF TypeOK
<1> HIDE DEF v
<1>4. Sound(v, by, now)
  BY <1>1, <1>2, <1>3, JwksAssumption DEF Sound, ListedAt
<1> QED BY <1>4, Zenon DEF v

\* A verdict on a set that is recent enough.
LEMMA JudgeHolds ==
    ASSUME Inv, NEW p \in Processes, NEW set \in KeySet, NEW seen \in Nat, NEW by \in Kids,
           NEW named \in BOOLEAN, ListedAt(set, seen), seen <= now,
           now < seen + TTL + FetchTime, Judge(p, set, by, named),
           UNCHANGED <<now, listed, pub, gone>>
    PROVE  Fetching' /\ Judged'
<1> DEFINE v == Verdict(set, by, named)
<1>1. v \in Verdicts
  BY VerdictType, Zenon
<1>2. /\ job'[p].pc = v /\ job'[p].by = by /\ job'[p].done = now
      /\ \A q \in Processes \ {p} : job'[q] = job[q]
  BY DEF Judge, NoJob, Inv, TypeOK
<1>3. Sound(v, by, now)
  BY VerdictSound, Zenon DEF Inv
<1> HIDE DEF v
<1>5. Fetching'
  BY <1>1, <1>2 DEF Inv, Fetching, Idle, ListedAt, Verdicts
<1>6. Judged'
  BY <1>2, <1>3 DEF Inv, Judged, AcceptedWasListed, LongListedIsKnown, Sound, TypeOK
<1> QED BY <1>5, <1>6

LEMMA InvInit == Init => Inv
BY TypeInit, SignedInit
   DEF Init, Inv, Endpoint, Cached, Fetching, Judged, AcceptedWasListed, LongListedIsKnown, Idle,
       NoJob, Empty

LEMMA ProcessStep ==
    ASSUME Inv, NEW p \in Processes,
           \/ \E by \in Kids, named \in BOOLEAN : FromCache(p, by, named) \/ StartFetch(p, by, named)
           \/ Respond(p) \/ Store(p) \/ FetchFails(p) \/ Restart(p)
    PROVE  Endpoint' /\ Cached' /\ Fetching' /\ Judged'
<1>0. /\ now \in Nat
      /\ cache[p].set \in KeySet /\ cache[p].at \in Nat /\ cache[p].seen \in Nat
      /\ job[p].set \in KeySet /\ job[p].seen \in Nat /\ job[p].asked \in Nat
      /\ job[p].named \in BOOLEAN
  BY Zenon DEF Inv, TypeOK, CacheState, JobState
<1>a. TypeOK /\ Endpoint /\ Cached /\ Fetching /\ Judged
  BY Zenon DEF Inv
<1>1. UNCHANGED <<now, listed, pub, gone>>
  BY Zenon DEF FromCache, StartFetch, Respond, Store, FetchFails, Restart
<1>2. Endpoint'
  BY <1>1, <1>a, Zenon DEF Endpoint
<1>3. cache' = cache => Cached'
  BY <1>1, <1>a, Zenon DEF Cached, ListedAt
<1>b. ASSUME job'[p].pc \notin {"fetch", "reply", "accepted", "unknown"},
             \A q \in Processes \ {p} : job'[q] = job[q]
      PROVE  Judged'
  BY <1>1, <1>a, <1>b DEF Judged, AcceptedWasListed, LongListedIsKnown
<1>c. ASSUME ~(~Idle(p))', \A q \in Processes \ {p} : job'[q] = job[q]
      PROVE  Fetching'
  <2>1. job'[p].pc # "reply"
    BY <1>c DEF Idle, Verdicts
  <2> QED BY <1>1, <1>a, <1>c, <2>1 DEF Fetching, Idle, ListedAt
<1>4. ASSUME NEW by \in Kids, NEW named \in BOOLEAN, FromCache(p, by, named)
      PROVE  Cached' /\ Fetching' /\ Judged'
  <2>1. cache[p].at # 0 /\ now - cache[p].at < TTL
    BY <1>4, Zenon DEF FromCache, Fresh
  <2>2. /\ ListedAt(cache[p].set, cache[p].seen) /\ cache[p].seen <= cache[p].at
        /\ cache[p].at <= cache[p].seen + FetchTime /\ cache[p].at <= now
    BY <1>a, <2>1, Zenon DEF Cached
  <2>3. cache[p].seen <= now /\ now < cache[p].seen + TTL + FetchTime
    BY <1>0, <2>1, <2>2, JwksAssumption
  <2>4. Judge(p, cache[p].set, by, named) /\ cache' = cache
    BY <1>4, Zenon DEF FromCache
  <2>5. Fetching' /\ Judged'
    BY <1>0, <1>1, <2>2, <2>3, <2>4, JudgeHolds, Zenon
  <2> QED BY <1>3, <2>4, <2>5
<1>5. ASSUME NEW by \in Kids, NEW named \in BOOLEAN, StartFetch(p, by, named)
      PROVE  Cached' /\ Fetching' /\ Judged'
  <2>1. /\ job'[p].pc = "fetch" /\ job'[p].asked = now
        /\ \A q \in Processes \ {p} : job'[q] = job[q]
    BY <1>5, <1>a DEF StartFetch, NoJob, TypeOK
  <2>2. Fetching'
    BY <1>0, <1>1, <1>a, <2>1, JwksAssumption DEF Fetching, Idle, ListedAt
  <2>3. Judged'
    BY <1>1, <1>a, <2>1 DEF Judged, AcceptedWasListed, LongListedIsKnown
  <2> QED BY <1>3, <1>5, <2>2, <2>3 DEF StartFetch
<1>6. CASE Respond(p)
  <2>1. /\ job[p].pc = "fetch" /\ job'[p].pc = "reply" /\ job'[p].asked = job[p].asked
        /\ job'[p].set = listed /\ job'[p].seen = now
        /\ \A q \in Processes \ {p} : job'[q] = job[q]
    BY <1>6, <1>a DEF Respond, TypeOK
  <2>2. \A k \in Kids : /\ pub[k] <= now /\ gone[k] <= now
                        /\ k \in listed.keys <=> pub[k] # 0 /\ gone[k] = 0
    BY <1>a, Zenon DEF Endpoint
  <2>3. job[p].asked <= now /\ now <= job[p].asked + FetchTime
    <3>1. ~Idle(p)
      BY <2>1 DEF Idle, Verdicts
    <3> QED BY <1>a, <3>1, Zenon DEF Fetching
  <2>4. ASSUME NEW k \in Kids
        PROVE  /\ k \in listed.keys => pub[k] # 0 /\ (gone[k] # 0 => gone[k] >= now)
               /\ k \notin listed.keys =>
                     (pub[k] # 0 /\ pub[k] < now => gone[k] # 0 /\ gone[k] <= now)
    BY <2>2, Zenon
  <2>5. ListedAt(job[p].set, job[p].seen)'
    BY <1>1, <2>1, <2>4 DEF ListedAt
  <2>6. ASSUME NEW q \in Processes \ {p}
        PROVE  /\ ~Idle(q)' => job'[q].asked <= now' /\ now' <= job'[q].asked + FetchTime
               /\ job'[q].pc = "reply" =>
                    /\ ListedAt(job[q].set, job[q].seen)'
                    /\ job'[q].asked <= job'[q].seen /\ job'[q].seen <= now'
    <3>1. job'[q] = job[q]
      BY <2>1
    <3> QED BY <1>1, <1>a, <3>1 DEF Fetching, Idle, ListedAt
  <2>7. Fetching'
    BY <1>0, <1>1, <2>1, <2>3, <2>5, <2>6 DEF Fetching
  <2>8. Judged'
    BY <1>1, <1>a, <2>1 DEF Judged, AcceptedWasListed, LongListedIsKnown
  <2> QED BY <1>2, <1>3, <1>6, <2>7, <2>8, Zenon DEF Respond
<1>7. CASE Store(p)
  <2>1. job[p].pc = "reply" /\ Judge(p, job[p].set, job[p].by, job[p].named)
    BY <1>7, Zenon DEF Store
  <2>2. ~Idle(p)
    BY <2>1 DEF Idle, Verdicts
  <2>3. /\ ListedAt(job[p].set, job[p].seen) /\ job[p].seen <= now
        /\ job[p].asked <= job[p].seen /\ now <= job[p].asked + FetchTime
    BY <1>a, <2>1, <2>2, Zenon DEF Fetching
  <2>4. now <= job[p].seen + FetchTime /\ now < job[p].seen + TTL + FetchTime
    BY <1>0, <2>3, JwksAssumption
  <2>5. job[p].by \in Kids
    BY <2>1 DEF Inv, Signed
  <2>6. Fetching' /\ Judged'
    BY <1>0, <1>1, <2>1, <2>3, <2>4, <2>5, JudgeHolds, Zenon
  <2>7. /\ cache'[p] = [set |-> job[p].set, at |-> now, seen |-> job[p].seen]
        /\ \A q \in Processes \ {p} : cache'[q] = cache[q]
    BY <1>7, <1>a DEF Store, TypeOK
  <2>8. Cached'
    BY <1>0, <1>1, <1>a, <2>3, <2>4, <2>7 DEF Cached, ListedAt
  <2> QED BY <1>2, <2>6, <2>8
<1>8. CASE FetchFails(p)
  <2>1. job'[p].pc = "unavailable" /\ \A q \in Processes \ {p} : job'[q] = job[q]
    BY <1>8, <1>a DEF FetchFails, Refuse, NoJob, TypeOK
  <2>2. UNCHANGED cache
    BY <1>8, Zenon DEF FetchFails
  <2>3. Fetching'
    BY <1>c, <2>1 DEF Idle, Verdicts
  <2>4. Judged'
    BY <1>b, <2>1
  <2> QED BY <1>2, <1>3, <2>2, <2>3, <2>4
<1>9. CASE Restart(p)
  <2>1. /\ job'[p].pc = "idle" /\ \A q \in Processes \ {p} : job'[q] = job[q]
        /\ cache'[p].at = 0 /\ \A q \in Processes \ {p} : cache'[q] = cache[q]
    BY <1>9, <1>a DEF Restart, NoJob, TypeOK
  <2>2. Cached'
    BY <1>1, <1>a, <2>1 DEF Cached, ListedAt
  <2>3. Fetching'
    BY <1>c, <2>1 DEF Idle
  <2>4. Judged'
    BY <1>b, <2>1
  <2> QED BY <1>2, <2>2, <2>3, <2>4
<1> QED BY <1>2, <1>4, <1>5, <1>6, <1>7, <1>8, <1>9, Zenon

\* `pub` and `gone` only ever get the present time.
LEMMA EndpointStep ==
    ASSUME Inv, NEW k \in Kids, Publish(k) \/ Withdraw(k)
    PROVE  Endpoint' /\ Cached' /\ Fetching' /\ Judged'
<1>0. /\ now \in Nat /\ \A j \in Kids : pub[j] \in Nat /\ gone[j] \in Nat
      /\ \A p \in Processes : cache[p].seen \in Nat /\ job[p].seen \in Nat /\ cache[p].at \in Nat
                              /\ job[p].done \in Nat
  BY Zenon DEF Inv, TypeOK, CacheState, JobState
<1>a. TypeOK /\ Signed /\ Endpoint /\ Cached /\ Fetching /\ Judged
  BY Zenon DEF Inv
<1>1. UNCHANGED <<now, cache, job>>
  BY Zenon DEF Publish, Withdraw
<1>2. /\ \A j \in Kids \ {k} : pub'[j] = pub[j] /\ gone'[j] = gone[j]
      /\ \/ /\ pub[k] = 0 /\ pub'[k] = now /\ gone'[k] = gone[k]
            /\ listed'.keys = listed.keys \cup {k}
         \/ /\ pub'[k] = pub[k] /\ k \in listed.keys /\ gone'[k] = now
            /\ listed'.keys = listed.keys \ {k}
  <2>1. CASE Publish(k) BY <2>1, <1>a DEF Publish, TypeOK
  <2>2. CASE Withdraw(k) BY <2>2, <1>a DEF Withdraw, TypeOK, Empty
  <2> QED BY <2>1, <2>2
<1>b. /\ now # 0
      /\ \A j \in Kids : /\ pub[j] <= now /\ gone[j] <= now /\ (gone[j] # 0 => pub[j] # 0)
                         /\ j \in listed.keys <=> pub[j] # 0 /\ gone[j] = 0
  BY <1>a, Zenon DEF Endpoint
<1>3. Endpoint'
  BY <1>0, <1>1, <1>2, <1>b DEF Endpoint
<1>4. ASSUME NEW set, NEW seen \in Nat, seen <= now, ListedAt(set, seen)
      PROVE  ListedAt(set, seen)'
  BY <1>0, <1>2, <1>4, <1>b DEF ListedAt
<1>5. Cached'
  <2> SUFFICES ASSUME NEW p \in Processes, cache[p].at # 0
               PROVE  ListedAt(cache[p].set, cache[p].seen)'
    BY <1>1, <1>a, Zenon DEF Cached
  <2>1. ListedAt(cache[p].set, cache[p].seen) /\ cache[p].seen <= now
    BY <1>0, <1>a DEF Cached
  <2> QED BY <1>0, <1>1, <1>4, <2>1, Zenon DEF ListedAt
<1>6. Fetching'
  <2> SUFFICES ASSUME NEW p \in Processes, job[p].pc = "reply"
               PROVE  ListedAt(job[p].set, job[p].seen)'
    BY <1>1, <1>a, Zenon DEF Fetching, Idle
  <2>1. ListedAt(job[p].set, job[p].seen) /\ job[p].seen <= now
    BY <1>a, Zenon DEF Fetching
  <2> QED BY <1>0, <1>1, <1>4, <2>1, Zenon DEF ListedAt
<1>7. Judged'
  <2> SUFFICES ASSUME NEW p \in Processes, job[p].pc \in {"accepted", "unknown"}
               PROVE  Sound(job[p].pc, job[p].by, job[p].done)'
    BY <1>1, <1>a DEF Judged, AcceptedWasListed, LongListedIsKnown, Sound
  <2>1. job[p].done <= now /\ job[p].by \in Kids /\ job[p].done \in Nat
    BY <1>0, <1>a DEF Judged, Signed
  <2>2. Sound(job[p].pc, job[p].by, job[p].done)
    BY <1>a, Zenon DEF Judged, AcceptedWasListed, LongListedIsKnown, Sound
  <2> QED BY <1>0, <1>1, <1>2, <1>b, <2>1, <2>2, JwksAssumption DEF Sound
<1> QED BY <1>3, <1>5, <1>6, <1>7

LEMMA TickStep == Inv /\ Tick => Endpoint' /\ Cached' /\ Fetching' /\ Judged'
<1> SUFFICES ASSUME Inv, Tick PROVE Endpoint' /\ Cached' /\ Fetching' /\ Judged'
  OBVIOUS
<1>0. /\ now \in Nat /\ \A j \in Kids : pub[j] \in Nat /\ gone[j] \in Nat
      /\ \A p \in Processes : cache[p].at \in Nat /\ job[p].seen \in Nat /\ job[p].asked \in Nat
                              /\ job[p].done \in Nat
  BY Zenon DEF Inv, TypeOK, CacheState, JobState
<1>a. TypeOK /\ Signed /\ Endpoint /\ Cached /\ Fetching /\ Judged
  BY Zenon DEF Inv
<1>1. /\ now' = now + 1 /\ UNCHANGED <<listed, pub, gone, cache, job>>
      /\ \A p \in Processes : ~Idle(p) => now < job[p].asked + FetchTime
  BY Zenon DEF Tick
<1>2. Endpoint' BY <1>0, <1>1, <1>a DEF Endpoint
<1>3. Cached' BY <1>0, <1>1, <1>a DEF Cached, ListedAt
<1>4. Fetching' BY <1>0, <1>1, <1>a, JwksAssumption DEF Fetching, Idle, ListedAt
<1>5. Judged' BY <1>0, <1>1, <1>a DEF Judged, AcceptedWasListed, LongListedIsKnown
<1> QED BY <1>2, <1>3, <1>4, <1>5

LEMMA InvNext == Inv /\ [Next]_vars => Inv'
<1> SUFFICES ASSUME Inv, [Next]_vars PROVE Inv'
  OBVIOUS
<1>1. TypeOK' /\ Signed'
  BY TypeNext, SignedNext, Zenon DEF Inv
<1>2. CASE UNCHANGED vars
  <2>1. UNCHANGED <<now, listed, pub, gone, cache, job>>
    BY <1>2, Zenon DEF vars
  <2>2. Endpoint'
    BY <2>1, Zenon DEF Inv, Endpoint
  <2>3. Cached'
    BY <2>1, Zenon DEF Inv, Cached, ListedAt
  <2>4. Fetching'
    BY <2>1, Zenon DEF Inv, Fetching, Idle, ListedAt
  <2>5. Judged'
    BY <2>1, Zenon DEF Inv, Judged, AcceptedWasListed, LongListedIsKnown
  <2> QED BY <1>1, <2>2, <2>3, <2>4, <2>5, Zenon DEF Inv
<1>3. Endpoint' /\ Cached' /\ Fetching' /\ Judged'
  BY <1>2, ProcessStep, EndpointStep, TickStep, Zenon DEF Next, Inv
<1> QED BY <1>1, <1>3, Zenon DEF Inv

\* A withdrawn key verifies nothing once a cache lifetime and a fetch have passed,
\* whatever the endpoint, its outages and the processes do.
THEOREM WithdrawnKeysEnd == Spec => []AcceptedWasListed
<1>1. Inv => AcceptedWasListed
  BY Zenon DEF Inv, Judged
<1> QED BY <1>1, InvInit, InvNext, PTL DEF Spec

\* A key that is listed and has been for that long is unknown to no process.
THEOREM RotationReaches == Spec => []LongListedIsKnown
<1>1. Inv => LongListedIsKnown
  BY Zenon DEF Inv, Judged
<1> QED BY <1>1, InvInit, InvNext, PTL DEF Spec
=============================================================================
