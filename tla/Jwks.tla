-------------------------------- MODULE Jwks --------------------------------
(***************************************************************************)
(* Which key verifies a token: JWKSCache and _select_jwk of                *)
(* app/core/security.py, in several processes, while the endpoint of       *)
(* app/api/internal/jwks.py publishes and withdraws keys and may be down.  *)
(* httpx.get blocks its process, so a process verifies one token at a time *)
(* and answers nobody while it waits, itself included; the clock goes on.  *)
(* A token is the key that signed it and whether its header names that key.*)
(***************************************************************************)
EXTENDS Integers

CONSTANTS
    Kids,         \* keys the signer may ever use
    Processes,    \* API, gRPC and worker processes: a cache each
    Hosts,        \* where JWKS_URL leads: API processes among them, or others
    TTL,          \* jwks_cache_ttl_seconds
    FetchTime,    \* the longest fetch under httpx's timeout
    Static,       \* jwt_public_key (or the HS secret), None when not set
    None,
    MaxTime       \* bound: last value of the clock

ASSUME JwksAssumption ==
    /\ TTL \in Nat \ {0} /\ FetchTime \in Nat /\ MaxTime \in Nat
    /\ None \notin Kids /\ Static \in Kids \cup {None}

VARIABLES
    now,      \* the clock
    listed,   \* keys the endpoint lists: the set, and its first member
    pub,      \* pub[k]: when key k was published, 0: not yet
    gone,     \* gone[k]: when it was withdrawn, 0: not yet
    cache,    \* cache[p]: the JWKSCache of process p; at = 0: cached_at is None
    job       \* job[p]: the verification process p is in, or was in last

vars == <<now, listed, pub, gone, cache, job>>

KeySet == {s \in [keys : SUBSET Kids, first : Kids \cup {None}] :
              IF s.keys = {} THEN s.first = None ELSE s.first \in s.keys}
Verdicts == {"accepted", "unknown", "failed", "unavailable"}

\* `seen` is history: when the endpoint answered with the cached keys.
CacheState == [set : KeySet, at : Nat, seen : Nat]
JobState == [pc : {"idle", "fetch", "reply"} \cup Verdicts, by : Kids \cup {None},
             named : BOOLEAN, asked : Nat, set : KeySet, seen : Nat, done : Nat]

Empty == [keys |-> {}, first |-> None]
NoJob == [pc |-> "idle", by |-> None, named |-> FALSE, asked |-> 0, set |-> Empty,
          seen |-> 0, done |-> 0]

TypeOK ==
    /\ now \in Nat
    /\ listed \in KeySet
    /\ pub \in [Kids -> Nat] /\ gone \in [Kids -> Nat]
    /\ cache \in [Processes -> CacheState]
    /\ job \in [Processes -> JobState]

Init ==
    /\ now = 1
    /\ listed = Empty
    /\ pub = [k \in Kids |-> 0] /\ gone = [k \in Kids |-> 0]
    /\ cache = [p \in Processes |-> [set |-> Empty, at |-> 0, seen |-> 0]]
    /\ job = [p \in Processes |-> NoJob]

-----------------------------------------------------------------------------
(* A verification                                                          *)

\* Mutant: the search ends without a key and without an exception.
VerdictUnraised(set, by, named) ==
    IF named THEN IF by \in set.keys THEN "accepted" ELSE None
    ELSE IF set.first = by THEN "accepted" ELSE "failed"

\* A named key must be in the set; a token without kid is tried with the first
\* key, or with the static one when the set is empty.
Verdict(set, by, named) ==
    LET key == IF set.keys # {} THEN set.first ELSE Static
    IN  IF named THEN IF by \in set.keys THEN "accepted" ELSE "unknown"
        ELSE IF key = None THEN "unavailable"
        ELSE IF key = by THEN "accepted" ELSE "failed"

Judge(p, set, by, named) ==
    job' = [job EXCEPT ![p] = [NoJob EXCEPT !.pc = Verdict(set, by, named), !.by = by,
                                            !.named = named, !.done = now]]

Fresh(p) == cache[p].at # 0 /\ now - cache[p].at < TTL

Idle(p) == job[p].pc \in {"idle"} \cup Verdicts

\* Mutant: every use renews the set.
RenewOnUse(p, by, named) ==
    /\ Idle(p) /\ Fresh(p)
    /\ Judge(p, cache[p].set, by, named)
    /\ cache' = [cache EXCEPT ![p].at = now]
    /\ UNCHANGED <<now, listed, pub, gone>>

FromCache(p, by, named) ==
    /\ Idle(p) /\ Fresh(p)
    /\ Judge(p, cache[p].set, by, named)
    /\ UNCHANGED <<now, listed, pub, gone, cache>>

StartFetch(p, by, named) ==
    /\ Idle(p) /\ ~Fresh(p)
    /\ job' = [job EXCEPT ![p] = [NoJob EXCEPT !.pc = "fetch", !.by = by, !.named = named,
                                               !.asked = now]]
    /\ UNCHANGED <<now, listed, pub, gone, cache>>

\* A host that does not wait for keys itself answers with what it lists now.
Respond(p) ==
    /\ job[p].pc = "fetch"
    /\ \E h \in Hosts : h \in Processes => Idle(h)
    /\ job' = [job EXCEPT ![p].pc = "reply", ![p].set = listed, ![p].seen = now]
    /\ UNCHANGED <<now, listed, pub, gone, cache>>

\* The answer arrives: cached_at is the time of arrival.
Store(p) ==
    LET set == job[p].set IN
    /\ job[p].pc = "reply"
    /\ cache' = [cache EXCEPT ![p] = [set |-> set, at |-> now, seen |-> job[p].seen]]
    /\ Judge(p, set, job[p].by, job[p].named)
    /\ UNCHANGED <<now, listed, pub, gone>>

Refuse(p) ==
    job' = [job EXCEPT ![p] = [NoJob EXCEPT !.pc = "unavailable", !.by = job[p].by,
                                            !.named = job[p].named, !.done = now]]

\* Mutant: what was cached before serves while the endpoint is down.
StaleIfError(p) ==
    /\ job[p].pc \in {"fetch", "reply"}
    /\ IF cache[p].at = 0 THEN Refuse(p) ELSE Judge(p, cache[p].set, job[p].by, job[p].named)
    /\ UNCHANGED <<now, listed, pub, gone, cache>>

\* Refused, timed out, no keys configured (500), not a key set: 503, and the old set stays as it is.
FetchFails(p) ==
    /\ job[p].pc \in {"fetch", "reply"}
    /\ Refuse(p)
    /\ UNCHANGED <<now, listed, pub, gone, cache>>

Restart(p) ==
    /\ cache' = [cache EXCEPT ![p] = [set |-> Empty, at |-> 0, seen |-> 0]]
    /\ job' = [job EXCEPT ![p] = NoJob]
    /\ UNCHANGED <<now, listed, pub, gone>>

-----------------------------------------------------------------------------
(* The endpoint and the clock                                              *)

\* The keys are read from jwks.json, or the settings, at each request: an operator
\* changes them under way.  A key comes once, in front or behind the others.
Publish(k) ==
    /\ pub[k] = 0
    /\ pub' = [pub EXCEPT ![k] = now]
    /\ \E f \in {k, listed.first} \ {None} :
          listed' = [keys |-> listed.keys \cup {k}, first |-> f]
    /\ UNCHANGED <<now, gone, cache, job>>

Withdraw(k) ==
    LET rest == listed.keys \ {k} IN
    /\ k \in listed.keys
    /\ gone' = [gone EXCEPT ![k] = now]
    /\ \/ rest = {} /\ listed' = Empty
       \/ \E f \in rest : /\ listed.first # k => f = listed.first
                          /\ listed' = [keys |-> rest, first |-> f]
    /\ UNCHANGED <<now, pub, cache, job>>

Tick ==
    /\ now < MaxTime
    /\ \A p \in Processes : ~Idle(p) => now < job[p].asked + FetchTime
    /\ now' = now + 1
    /\ UNCHANGED <<listed, pub, gone, cache, job>>

Next ==
    \/ \E p \in Processes :
          \/ \E by \in Kids, named \in BOOLEAN : FromCache(p, by, named) \/ StartFetch(p, by, named)
          \/ Respond(p) \/ Store(p) \/ FetchFails(p) \/ Restart(p)
    \/ \E k \in Kids : Publish(k) \/ Withdraw(k)
    \/ Tick

Spec == Init /\ [][Next]_vars

-----------------------------------------------------------------------------
(* Properties                                                              *)

\* A withdrawn key verifies for one cache lifetime and one fetch more, in any
\* process, whether the token names it or not (JWKSCache.load, _select_jwk).
AcceptedWasListed ==
    \A p \in Processes : job[p].pc = "accepted" /\ job[p].by # Static =>
       /\ pub[job[p].by] # 0
       /\ gone[job[p].by] # 0 => job[p].done < gone[job[p].by] + TTL + FetchTime

\* A key that is listed and has been for that long is unknown to no process.
LongListedIsKnown ==
    \A p \in Processes : job[p].pc = "unknown" =>
       \/ pub[job[p].by] = 0
       \/ job[p].done < pub[job[p].by] + TTL + FetchTime
       \/ gone[job[p].by] # 0 /\ gone[job[p].by] <= job[p].done
=============================================================================
