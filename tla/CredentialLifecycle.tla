------------------------ MODULE CredentialLifecycle ------------------------
(***************************************************************************)
(* What the refresh-token store promises about one credential: it is born  *)
(* once, it can be used while it is live, and once it is dead it is dead   *)
(* for good.  Nothing that is dead is ever accepted again, whatever the    *)
(* order in which logins, rotations, revocations, expiries and failures    *)
(* interleave.                                                             *)
(***************************************************************************)
CONSTANT Credentials

VARIABLE phase   \* phase[c]: "unborn", "live" or "dead"

Init == phase = [c \in Credentials |-> "unborn"]

\* A login or a rotation stores a credential that never existed before.
Issue(c) ==
    /\ phase[c] = "unborn"
    /\ phase' = [phase EXCEPT ![c] = "live"]

\* Any set of credentials dies at once: by use, by revocation, by expiry, or
\* because the request that was about to store them failed.
Retire(S) == phase' = [c \in Credentials |-> IF c \in S THEN "dead" ELSE phase[c]]

Next ==
    \/ \E c \in Credentials : Issue(c)
    \/ \E S \in SUBSET Credentials : Retire(S)

Spec == Init /\ [][Next]_phase
=============================================================================
