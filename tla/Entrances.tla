------------------------------ MODULE Entrances ------------------------------
(***************************************************************************)
(* How a device gets in beside HTTP: admission to the kill-switch socket   *)
(* (app/api/v1/security.py), to the priority socket (security_priority.py) *)
(* and the gRPC call SendHeartbeat (grpc_server.py), for one device whose  *)
(* token is valid throughout.  None of the three looks at the revocation   *)
(* flags.  The verdict of compute_paywall_state is any (Access has it);    *)
(* an open kill-switch socket goes on in KillSwitch, where the alarms of a *)
(* priority socket are, and Trust has the score.  hb:{user}:{device}, a    *)
(* counter that is written and never read, is left out.                    *)
(***************************************************************************)
EXTENDS Naturals

CONSTANTS
    Calls,       \* connections and calls under way at a time
    Addresses,   \* client addresses
    Max,         \* ws_rate_limit_max
    Window,      \* ws_rate_limit_window
    FlagTTL      \* the ex=3600 of the device flags

ASSUME EntrancesAssumption ==
    /\ Max \in Nat \ {0} /\ Window \in Nat \ {0} /\ FlagTTL \in Nat \ {0}

Sockets == {"kill-switch", "priority"}
Keys == Sockets \X Addresses   \* ws:conn:... and ws:priority:...

VARIABLES
    counter,    \* counter[k]: its value and what is left of its TTL (0: none)
    blocked,    \* what is left of device:{device}:state, 0: no such key
    overlay,    \* what is left of force_overlay:{device}
    call,       \* call[c]: the handler of call c
    age,        \* history: time since a window was last opened, up to Window
    passes,     \* history: calls it let pass in that time
    orphan      \* history: its first caller died before it set the TTL

keys == <<counter, age, passes, orphan>>
flags == <<blocked, overlay>>
vars == <<keys, flags, call>>

Steps == {"count", "window", "paywall", "state", "overlay", "history"}

\* known: history, the flag this entrance looks at was set on arrival and has
\* not ended since.  told: it was sent force_overlay.
Call == [pc : {"idle"} \cup Steps \cup {"open", "scored"},
         entrance : Sockets \cup {"grpc"}, addr : Addresses,
         known : BOOLEAN, told : BOOLEAN]

TypeOK ==
    /\ counter \in [Keys -> [n : 0 .. Max + 1, ttl : 0 .. Window]]
    /\ blocked \in 0 .. FlagTTL /\ overlay \in 0 .. FlagTTL
    /\ call \in [Calls -> Call]
    /\ age \in [Keys -> 0 .. Window]
    /\ passes \in [Keys -> Nat]
    /\ orphan \in [Keys -> BOOLEAN]

NoKey == [n |-> 0, ttl |-> 0]

Init ==
    /\ counter = [k \in Keys |-> NoKey]
    /\ blocked = 0 /\ overlay = 0
    /\ call \in [Calls -> {x \in Call : x.pc = "idle" /\ x.entrance = "grpc" /\ ~x.known /\ ~x.told}]
    /\ age = [k \in Keys |-> Window]
    /\ passes = [k \in Keys |-> 0]
    /\ orphan = [k \in Keys |-> FALSE]

At(c, pc) == call[c].pc = pc
KeyOf(c) == <<call[c].entrance, call[c].addr>>
Goto(c, pc) == call' = [call EXCEPT ![c].pc = pc]
End(c) == call' = [call EXCEPT ![c].pc = "idle", ![c].entrance = "grpc",
                               ![c].known = FALSE, ![c].told = FALSE]

-----------------------------------------------------------------------------
(* Arrival                                                                 *)

\* The flag an entrance looks at; the kill-switch socket does so once it is open.
FlagUp(entrance, state, forced) == \/ entrance = "grpc" /\ state > 0
                                   \/ entrance = "priority" /\ forced > 0

\* The token is verified and bound to the device.
Arrive(c, entrance, addr) ==
    /\ At(c, "idle")
    /\ call' = [call EXCEPT ![c] =
                  [pc |-> IF entrance = "grpc" THEN "paywall" ELSE "count",
                   entrance |-> entrance, addr |-> addr,
                   known |-> FlagUp(entrance, blocked, overlay), told |-> FALSE]]
    /\ UNCHANGED <<keys, flags>>

-----------------------------------------------------------------------------
(* The connection rate of the two sockets                                  *)

\* The priority socket has no paywall.
AfterRate(c) == IF call[c].entrance = "priority" THEN "overlay" ELSE "paywall"

\* The count, of which only "first" and "too many" are told apart.
Incr(n) == IF n <= Max THEN n + 1 ELSE n

\* Mutant: the TTL is set by each attempt.
KeepAlive(c) ==
    LET k == KeyOf(c)
        n == Incr(counter[k].n)
    IN  /\ At(c, "count")
        /\ counter' = [counter EXCEPT ![k] = [n |-> n, ttl |-> Window]]
        /\ IF n > Max THEN End(c) ELSE Goto(c, AfterRate(c))
        /\ UNCHANGED <<flags, age, passes, orphan>>

\* INCR.  A window opens with a new counter once the last one is over.
Count(c) ==
    LET k == KeyOf(c)
        n == Incr(counter[k].n)
        opens == n = 1 /\ age[k] = Window
        passed == n <= Max /\ (opens \/ age[k] < Window)
    IN  /\ At(c, "count")
        /\ counter' = [counter EXCEPT ![k].n = n]
        /\ age' = IF opens THEN [age EXCEPT ![k] = 0] ELSE age
        /\ passes' = IF passed THEN [passes EXCEPT ![k] = @ + 1] ELSE passes
        /\ IF n > Max THEN End(c) ELSE Goto(c, IF n = 1 THEN "window" ELSE AfterRate(c))
        /\ UNCHANGED <<flags, orphan>>

\* Mutant: the TTL is set by writing the counter anew.
RestartCounter(c) ==
    /\ At(c, "window")
    /\ counter' = [counter EXCEPT ![KeyOf(c)] = [n |-> 0, ttl |-> Window]]
    /\ Goto(c, AfterRate(c))
    /\ UNCHANGED <<flags, age, passes, orphan>>

\* Mutant: EXPIRE is given milliseconds.
MillisWindow(c) ==
    /\ At(c, "window")
    /\ counter' = [counter EXCEPT ![KeyOf(c)].ttl = 1000 * Window]
    /\ Goto(c, AfterRate(c))
    /\ UNCHANGED <<flags, age, passes, orphan>>

\* EXPIRE
SetWindow(c) ==
    /\ At(c, "window")
    /\ counter' = [counter EXCEPT ![KeyOf(c)].ttl = Window]
    /\ Goto(c, AfterRate(c))
    /\ UNCHANGED <<flags, age, passes, orphan>>

-----------------------------------------------------------------------------
(* Paywall and flags                                                       *)

\* compute_paywall_state refuses, or not.
Paywall(c) ==
    /\ At(c, "paywall")
    /\ \/ End(c)
       \/ Goto(c, IF call[c].entrance = "grpc" THEN "state" ELSE "open")
    /\ UNCHANGED <<keys, flags>>

\* Mutant: gRPC leaves the state to the middleware, which it does not pass.
TrustState(c) ==
    /\ At(c, "state")
    /\ Goto(c, "history")
    /\ UNCHANGED <<keys, flags>>

\* gRPC: GET device:{device}:state, in the pipeline.
ReadState(c) ==
    /\ At(c, "state")
    /\ IF blocked > 0 THEN End(c) ELSE Goto(c, "history")
    /\ UNCHANGED <<keys, flags>>

\* gRPC: the history is read, and the score of it is the answer.
Answer(c) ==
    /\ At(c, "history")
    /\ Goto(c, "scored")
    /\ UNCHANGED <<keys, flags>>

\* Priority: accept, GET force_overlay, and the message it calls for.
Accept(c) ==
    /\ At(c, "overlay")
    /\ call' = [call EXCEPT ![c].pc = "open", ![c].told = (overlay > 0)]
    /\ UNCHANGED <<keys, flags>>

\* The client closes its socket, or has its answer.
Leave(c) ==
    /\ call[c].pc \in {"open", "scored"}
    /\ End(c)
    /\ UNCHANGED <<keys, flags>>

\* A call to Redis or Postgres fails, or the process dies.
Crash(c) ==
    /\ call[c].pc \in Steps
    /\ End(c)
    /\ orphan' = IF At(c, "window") THEN [orphan EXCEPT ![KeyOf(c)] = TRUE] ELSE orphan
    /\ UNCHANGED <<counter, age, passes, flags>>

-----------------------------------------------------------------------------
(* The rest of the system                                                  *)

\* revoke_and_block sets the two flags one after the other.
SetBlocked ==
    /\ blocked' = FlagTTL
    /\ UNCHANGED <<keys, overlay, call>>

SetOverlay ==
    /\ overlay' = FlagTTL
    /\ UNCHANGED <<keys, blocked, call>>

Less(t) == IF t > 0 THEN t - 1 ELSE 0

\* Time passes, and Redis drops the keys whose TTL is over.
Tick ==
    /\ counter' = [k \in Keys |-> IF counter[k].ttl = 1 THEN NoKey
                                  ELSE [counter[k] EXCEPT !.ttl = Less(@)]]
    /\ age' = [k \in Keys |-> IF age[k] < Window THEN age[k] + 1 ELSE Window]
    /\ passes' = [k \in Keys |-> IF age'[k] = Window THEN 0 ELSE passes[k]]
    /\ blocked' = Less(blocked) /\ overlay' = Less(overlay)
    /\ call' = [c \in Calls |-> [call[c] EXCEPT
                  !.known = @ /\ FlagUp(call[c].entrance, blocked', overlay')]]
    /\ UNCHANGED orphan

Step(c) ==
    \/ Count(c) \/ SetWindow(c) \/ Paywall(c) \/ ReadState(c) \/ Answer(c) \/ Accept(c)

Next ==
    \/ \E c \in Calls :
          \/ \E entrance \in Sockets \cup {"grpc"}, addr \in Addresses : Arrive(c, entrance, addr)
          \/ Step(c) \/ Leave(c) \/ Crash(c)
    \/ SetBlocked \/ SetOverlay \/ Tick

Spec == Init /\ [][Next]_vars

\* Handlers that live go on, and time passes.
Fairness == WF_vars(Tick) /\ \A c \in Calls : WF_vars(Step(c))

FairSpec == Spec /\ Fairness

-----------------------------------------------------------------------------
(* Properties                                                              *)

\* From the connection that opens a window, for as long as a window lasts, an
\* address gets no more than its connections through, whatever dies between INCR
\* and EXPIRE and however late EXPIRE comes (the rate limits of both sockets).
RateHolds == \A k \in Keys : passes[k] <= Max

\* A call that arrives under a lock is answered under it: gRPC gives no score
\* and the priority socket says so, although the flags are set one by one, end,
\* and are read some awaits after the arrival.
LockMeetsCaller ==
    \A c \in Calls : call[c].known =>
       ~At(c, "scored") /\ (At(c, "open") => call[c].told)

\* An address that is refused is let in again: its counter ends, however often it
\* tries, unless the first caller died before it set the TTL.
RefusalEnds ==
    \A k \in Keys : counter[k].n > Max ~> counter[k] = NoKey \/ orphan[k]
=============================================================================
