--------------------------- MODULE EntrancesProofs ---------------------------
(***************************************************************************)
(* Proofs about the module Entrances: its types, the connection rate and   *)
(* the flags hold for any number of calls and addresses, any limit, any    *)
(* window and any life of the flags.                                       *)
(***************************************************************************)
EXTENDS Entrances, TLAPS

\* Which steps belong to which entrance.
Routed ==
    \A c \in Calls :
       /\ call[c].pc \in {"count", "window"} => call[c].entrance \in Sockets
       /\ At(c, "paywall") => call[c].entrance # "priority"
       /\ At(c, "state") => call[c].entrance = "grpc"
       /\ At(c, "overlay") => call[c].entrance = "priority"

\* One caller at a time sets the TTL of a counter, and it is there without one.
OpenerInv ==
    /\ \A c \in Calls : At(c, "window") =>
          counter[KeyOf(c)].n > 0 /\ counter[KeyOf(c)].ttl = 0
    /\ \A c, d \in Calls :
          At(c, "window") /\ At(d, "window") /\ KeyOf(c) = KeyOf(d) => c = d

\* A counter outlives the window it opened, and has counted what passed in it.
WindowInv ==
    \A k \in Keys :
       /\ counter[k].n = 0 => counter[k].ttl = 0
       /\ age[k] < Window =>
             counter[k].n > 0 /\ (counter[k].ttl = 0 \/ counter[k].ttl >= Window - age[k])
       /\ age[k] = Window => passes[k] = 0
       /\ passes[k] <= counter[k].n
       /\ passes[k] <= Max

\* A flag known from the arrival is still set, until it has been read.
KnownInv ==
    \A c \in Calls : call[c].known =>
       /\ FlagUp(call[c].entrance, blocked, overlay)
       /\ call[c].pc \notin {"idle", "history", "scored"}
       /\ At(c, "open") => call[c].told

IInv == TypeOK /\ Routed /\ OpenerInv /\ WindowInv /\ KnownInv

-----------------------------------------------------------------------------
(* The initial states                                                      *)

LEMMA InitInv == Init => IInv
<1>. USE EntrancesAssumption
<1>. SUFFICES ASSUME Init PROVE IInv
  OBVIOUS
<1>1. TypeOK
  BY DEF Init, TypeOK, NoKey
<1>2. Routed /\ OpenerInv /\ KnownInv
  BY DEF Init, Routed, OpenerInv, KnownInv, At
<1>3. WindowInv
  BY DEF Init, WindowInv, NoKey
<1>. QED
  BY <1>1, <1>2, <1>3 DEF IInv

-----------------------------------------------------------------------------
(* Steps that leave the counters alone                                     *)

\* No call has come to the TTL in this step.
NoOpener == \A d \in Calls : At(d, "window")' => At(d, "window") /\ KeyOf(d)' = KeyOf(d)

LEMMA OpenerStays ==
    ASSUME OpenerInv, NoOpener,
           \A d \in Calls : At(d, "window") =>
              counter'[KeyOf(d)].n > 0 /\ counter'[KeyOf(d)].ttl = 0
    PROVE  OpenerInv'
<1>1. ASSUME NEW c \in Calls, At(c, "window")'
      PROVE  counter'[KeyOf(c)'].n > 0 /\ counter'[KeyOf(c)'].ttl = 0
  BY <1>1 DEF NoOpener
<1>2. ASSUME NEW c \in Calls, NEW d \in Calls,
             At(c, "window")', At(d, "window")', KeyOf(c)' = KeyOf(d)'
      PROVE  c = d
  BY <1>2 DEF NoOpener, OpenerInv
<1>. QED
  BY <1>1, <1>2 DEF OpenerInv

\* What a handler does to its own call.
LEMMA CallStep ==
    ASSUME IInv, NEW c \in Calls,
           UNCHANGED <<keys, flags>>,
           NEW x \in Call, call' = [call EXCEPT ![c] = x],
           x.pc # "window", x.pc = "count" => x.entrance \in Sockets,
           x.pc = "paywall" => x.entrance # "priority",
           x.pc = "state" => x.entrance = "grpc",
           x.pc = "overlay" => x.entrance = "priority",
           x.known => /\ FlagUp(x.entrance, blocked, overlay)
                      /\ x.pc \notin {"idle", "history", "scored"}
                      /\ x.pc = "open" => x.told
    PROVE  IInv'
<1>. USE DEF IInv, keys, flags
<1>1. TypeOK'
  BY DEF TypeOK
<1>2. WindowInv'
  BY DEF WindowInv
<1>3. ASSUME NEW d \in Calls PROVE call'[d] = IF d = c THEN x ELSE call[d]
  BY DEF TypeOK
<1>4. Routed'
  BY <1>3 DEF Routed, At
<1>5. KnownInv'
  BY <1>3 DEF KnownInv, At, FlagUp
<1>6. OpenerInv'
  <2>1. NoOpener
    BY <1>3 DEF NoOpener, At, KeyOf
  <2>. QED
    BY <2>1, OpenerStays DEF OpenerInv
<1>. QED
  BY <1>1, <1>2, <1>4, <1>5, <1>6

\* The end of a call, whatever else the step does to the counters.
LEMMA EndCall ==
    ASSUME TypeOK, Routed, KnownInv, NEW c \in Calls, End(c), UNCHANGED flags
    PROVE  call' \in [Calls -> Call] /\ Routed' /\ KnownInv' /\ NoOpener
<1>. DEFINE x == [call[c] EXCEPT !.pc = "idle", !.entrance = "grpc", !.known = FALSE, !.told = FALSE]
<1>1. x \in Call /\ x.pc = "idle" /\ ~x.known
  BY DEF TypeOK, Call
<1>2. call' = [call EXCEPT ![c] = x]
  BY DEF End, TypeOK, Call
<1>. HIDE DEF x
<1>3. call' \in [Calls -> Call]
  BY <1>1, <1>2 DEF TypeOK
<1>4. ASSUME NEW d \in Calls PROVE call'[d] = IF d = c THEN x ELSE call[d]
  BY <1>2 DEF TypeOK
<1>5. Routed'
  BY <1>1, <1>4 DEF Routed, At
<1>6. KnownInv'
  BY <1>1, <1>4 DEF KnownInv, At, FlagUp, flags
<1>7. NoOpener
  BY <1>1, <1>4 DEF NoOpener, At, KeyOf
<1>. QED
  BY <1>3, <1>5, <1>6, <1>7

\* A move to a step of the same entrance at which nothing has been decided yet.
LEMMA MoveCall ==
    ASSUME TypeOK, Routed, KnownInv, NEW c \in Calls, NEW pc, Goto(c, pc), UNCHANGED flags,
           pc \in {"window", "paywall", "state", "overlay", "history", "open", "scored"},
           pc = "window" => call[c].entrance \in Sockets,
           pc = "paywall" => call[c].entrance # "priority",
           pc = "state" => call[c].entrance = "grpc",
           pc = "overlay" => call[c].entrance = "priority",
           pc \in {"history", "open", "scored"} => ~call[c].known
    PROVE  call' \in [Calls -> Call] /\ Routed' /\ KnownInv' /\ (pc # "window" => NoOpener)
<1>. DEFINE x == [call[c] EXCEPT !.pc = pc]
<1>1. /\ x \in Call /\ x.pc = pc
      /\ x.entrance = call[c].entrance /\ x.known = call[c].known
  BY DEF TypeOK, Call, Steps
<1>2. call' = [call EXCEPT ![c] = x]
  BY DEF Goto, TypeOK, Call
<1>. HIDE DEF x
<1>3. call' \in [Calls -> Call]
  BY <1>1, <1>2 DEF TypeOK
<1>4. ASSUME NEW d \in Calls PROVE call'[d] = IF d = c THEN x ELSE call[d]
  BY <1>2 DEF TypeOK
<1>5. Routed'
  BY <1>1, <1>4 DEF Routed, At
<1>6. KnownInv'
  BY <1>1, <1>4 DEF KnownInv, At, FlagUp, flags
<1>7. ASSUME pc # "window" PROVE NoOpener
  BY <1>1, <1>4, <1>7 DEF NoOpener, At, KeyOf
<1>. QED
  BY <1>3, <1>5, <1>6, <1>7

\* Counters that stay are of their types and keep their invariant.
LEMMA KeysStay ==
    ASSUME IInv, UNCHANGED <<keys, flags>>, call' \in [Calls -> Call], Routed', KnownInv', NoOpener
    PROVE  IInv'
<1>1. OpenerInv'
  BY OpenerStays DEF IInv, OpenerInv, keys
<1>. QED
  BY <1>1 DEF IInv, TypeOK, WindowInv, keys, flags

LEMMA ArriveInv ==
    ASSUME IInv, NEW c \in Calls, NEW entrance \in Sockets \cup {"grpc"}, NEW addr \in Addresses,
           Arrive(c, entrance, addr)
    PROVE  IInv'
<1>. DEFINE x == [pc |-> IF entrance = "grpc" THEN "paywall" ELSE "count",
                  entrance |-> entrance, addr |-> addr,
                  known |-> FlagUp(entrance, blocked, overlay), told |-> FALSE]
<1>1. FlagUp(entrance, blocked, overlay) \in BOOLEAN
  BY DEF FlagUp
<1>2. x \in Call
  BY <1>1 DEF Call, Steps
<1>3. /\ x.pc = IF entrance = "grpc" THEN "paywall" ELSE "count"
      /\ x.entrance = entrance /\ x.known = FlagUp(entrance, blocked, overlay)
  OBVIOUS
<1>4. call' = [call EXCEPT ![c] = x] /\ UNCHANGED <<keys, flags>>
  BY DEF Arrive
<1>. HIDE DEF x
<1>. QED
  BY <1>2, <1>3, <1>4, CallStep DEF Sockets

LEMMA PaywallInv ==
    ASSUME IInv, NEW c \in Calls, Paywall(c)
    PROVE  IInv'
<1>. USE DEF IInv
<1>1. CASE End(c)
  BY <1>1, EndCall, KeysStay DEF Paywall
<1>2. CASE Goto(c, IF call[c].entrance = "grpc" THEN "state" ELSE "open")
  <2>1. CASE call[c].entrance = "grpc"
    BY <1>2, <2>1, MoveCall, KeysStay DEF Paywall
  <2>2. CASE call[c].entrance # "grpc"
    <3>1. call[c].entrance = "kill-switch"
      BY <2>2 DEF Paywall, Routed, TypeOK, Call, Sockets
    <3>2. ~call[c].known
      BY <3>1 DEF KnownInv, FlagUp
    <3>. QED
      BY <1>2, <2>2, <3>2, MoveCall, KeysStay DEF Paywall
  <2>. QED
    BY <2>1, <2>2
<1>. QED
  BY <1>1, <1>2 DEF Paywall

LEMMA ReadStateInv ==
    ASSUME IInv, NEW c \in Calls, ReadState(c)
    PROVE  IInv'
<1>. USE DEF IInv
<1>1. CASE blocked > 0
  BY <1>1, EndCall, KeysStay DEF ReadState
<1>2. CASE ~(blocked > 0)
  <2>1. call[c].entrance = "grpc"
    BY DEF ReadState, Routed
  <2>2. ~call[c].known
    BY <1>2, <2>1 DEF KnownInv, FlagUp
  <2>. QED
    BY <1>2, <2>2, MoveCall, KeysStay DEF ReadState
<1>. QED
  BY <1>1, <1>2

LEMMA AnswerInv ==
    ASSUME IInv, NEW c \in Calls, Answer(c)
    PROVE  IInv'
<1>1. ~call[c].known
  BY DEF IInv, KnownInv, Answer, At
<1>. QED
  BY <1>1, MoveCall, KeysStay DEF IInv, Answer

LEMMA AcceptInv ==
    ASSUME IInv, NEW c \in Calls, Accept(c)
    PROVE  IInv'
<1>. DEFINE x == [call[c] EXCEPT !.pc = "open", !.told = (overlay > 0)]
<1>1. ASSUME NEW b \in BOOLEAN PROVE [call[c] EXCEPT !.pc = "open", !.told = b] \in Call
  BY DEF IInv, TypeOK, Call
<1>2. x \in Call
  <2>1. (overlay > 0) \in BOOLEAN
    OBVIOUS
  <2>. HIDE DEF Call
  <2>. QED
    BY <1>1, <2>1
<1>3. /\ x.pc = "open" /\ x.told = (overlay > 0)
      /\ x.entrance = call[c].entrance /\ x.known = call[c].known
  BY DEF IInv, TypeOK, Call
<1>4. call' = [call EXCEPT ![c] = x] /\ UNCHANGED <<keys, flags>>
  BY DEF Accept, IInv, TypeOK, Call
<1>5. call[c].entrance = "priority"
  BY DEF Accept, IInv, Routed
<1>6. x.known => FlagUp(x.entrance, blocked, overlay) /\ overlay > 0
  BY <1>3, <1>5 DEF IInv, KnownInv, FlagUp
<1>. HIDE DEF x
<1>. QED
  BY <1>2, <1>3, <1>4, <1>6, CallStep

LEMMA LeaveInv ==
    ASSUME IInv, NEW c \in Calls, Leave(c)
    PROVE  IInv'
  BY EndCall, KeysStay DEF IInv, Leave

LEMMA CrashInv ==
    ASSUME IInv, NEW c \in Calls, Crash(c)
    PROVE  IInv'
<1>1. call' \in [Calls -> Call] /\ Routed' /\ KnownInv' /\ NoOpener
  BY EndCall DEF IInv, Crash
<1>2. orphan' \in [Keys -> BOOLEAN]
  BY DEF IInv, TypeOK, Crash
<1>3. TypeOK'
  BY <1>1, <1>2 DEF IInv, TypeOK, Crash, flags
<1>4. WindowInv'
  BY DEF IInv, WindowInv, Crash
<1>5. OpenerInv'
  BY <1>1, OpenerStays DEF IInv, OpenerInv, Crash
<1>. QED
  BY <1>1, <1>3, <1>4, <1>5 DEF IInv

-----------------------------------------------------------------------------
(* Steps of the counters                                                   *)

LEMMA CountInv ==
    ASSUME IInv, NEW c \in Calls, Count(c)
    PROVE  IInv'
<1>. USE EntrancesAssumption DEF IInv
<1>. DEFINE k == KeyOf(c)
            n == Incr(counter[k].n)
            opens == n = 1 /\ age[k] = Window
            passed == n <= Max /\ (opens \/ age[k] < Window)
<1>1. call[c].entrance \in Sockets /\ k \in Keys
  BY DEF Count, At, Routed, KeyOf, Keys, TypeOK, Call
<1>2. /\ counter[k].n \in 0 .. Max + 1 /\ counter[k].ttl \in 0 .. Window
      /\ age[k] \in 0 .. Window /\ passes[k] \in Nat
  BY <1>1 DEF TypeOK
<1>3. n \in 1 .. Max + 1 /\ (n <= Max => n = counter[k].n + 1) /\ counter[k].n <= n
  BY <1>2 DEF Incr
<1>4. /\ counter' = [counter EXCEPT ![k].n = n]
      /\ age' = IF opens THEN [age EXCEPT ![k] = 0] ELSE age
      /\ passes' = IF passed THEN [passes EXCEPT ![k] = @ + 1] ELSE passes
      /\ IF n > Max THEN End(c) ELSE Goto(c, IF n = 1 THEN "window" ELSE AfterRate(c))
      /\ UNCHANGED <<flags, orphan>>
  BY DEF Count
<1>5. call' \in [Calls -> Call] /\ Routed' /\ KnownInv' /\ (n # 1 => NoOpener)
  <2>1. CASE n > Max
    BY <1>4, <2>1, EndCall
  <2>2. CASE ~(n > Max) /\ n = 1
    BY <1>1, <1>4, <2>2, MoveCall
  <2>3. CASE ~(n > Max) /\ n # 1
    <3>1. Goto(c, AfterRate(c))
      BY <1>4, <2>3
    <3>. QED
      BY <1>4, <3>1, MoveCall DEF AfterRate
  <2>. QED
    BY <2>1, <2>2, <2>3
<1>9. n = 1 => ~(n > Max) /\ Goto(c, "window")
  BY <1>4
<1>. HIDE DEF k, n
<1>6. ASSUME NEW j \in Keys
      PROVE  /\ counter'[j].n = IF j = k THEN n ELSE counter[j].n
             /\ counter'[j].ttl = counter[j].ttl
             /\ age'[j] = IF j = k /\ opens THEN 0 ELSE age[j]
             /\ passes'[j] = IF j = k /\ passed THEN passes[j] + 1 ELSE passes[j]
  BY <1>1, <1>4 DEF TypeOK
<1>7. TypeOK'
  <2>1. counter' \in [Keys -> [n : 0 .. Max + 1, ttl : 0 .. Window]]
    BY <1>1, <1>3, <1>4 DEF TypeOK
  <2>2. age' \in [Keys -> 0 .. Window]
    BY <1>1, <1>4 DEF TypeOK
  <2>3. passes' \in [Keys -> Nat]
    BY <1>1, <1>2, <1>4 DEF TypeOK
  <2>. QED
    BY <1>4, <1>5, <2>1, <2>2, <2>3 DEF TypeOK, flags
<1>8. WindowInv'
  <2>. SUFFICES ASSUME NEW j \in Keys
                PROVE  /\ counter'[j].n = 0 => counter'[j].ttl = 0
                       /\ age'[j] < Window =>
                              /\ counter'[j].n > 0
                              /\ counter'[j].ttl = 0 \/ counter'[j].ttl >= Window - age'[j]
                       /\ age'[j] = Window => passes'[j] = 0
                       /\ passes'[j] <= counter'[j].n
                       /\ passes'[j] <= Max
    BY DEF WindowInv
  <2>1. CASE j # k
    BY <1>6, <2>1 DEF WindowInv
  <2>2. CASE j = k /\ opens
    <3>1. counter[k].n = 0 /\ passes[k] = 0
      BY <1>1, <1>2, <1>3, <2>2 DEF WindowInv, Incr
    <3>2. counter[k].ttl = 0
      BY <1>1, <3>1 DEF WindowInv
    <3>. QED
      BY <1>2, <1>3, <1>6, <2>2, <3>1, <3>2
  <2>3. CASE j = k /\ ~opens
    <3>1. /\ age'[j] = age[k] /\ counter'[j].n = n /\ counter'[j].ttl = counter[k].ttl
          /\ passes'[j] = IF passed THEN passes[k] + 1 ELSE passes[k]
      BY <1>6, <2>3
    <3>2. /\ age[k] < Window =>
               counter[k].n > 0 /\ (counter[k].ttl = 0 \/ counter[k].ttl >= Window - age[k])
          /\ age[k] = Window => passes[k] = 0
          /\ passes[k] <= counter[k].n /\ passes[k] <= Max
      BY <1>1 DEF WindowInv
    <3>3. passed => n <= Max /\ age[k] < Window
      BY <2>3
    <3>. QED
      BY <1>2, <1>3, <3>1, <3>2, <3>3
  <2>. QED
    BY <2>1, <2>2, <2>3
<1>10. OpenerInv'
  <2>1. ASSUME NEW d \in Calls, At(d, "window")
        PROVE  counter'[KeyOf(d)].n > 0 /\ counter'[KeyOf(d)].ttl = 0
    <3>1. KeyOf(d) \in Keys
      BY <2>1 DEF At, Routed, KeyOf, Keys, TypeOK, Call
    <3>2. counter[KeyOf(d)].n > 0 /\ counter[KeyOf(d)].ttl = 0
      BY <2>1 DEF OpenerInv
    <3>. QED
      BY <1>3, <1>6, <3>1, <3>2
  <2>2. CASE n # 1
    BY <1>5, <2>1, <2>2, OpenerStays
  <2>3. CASE n = 1
    <3>1. counter[k].n = 0 /\ counter[k].ttl = 0
      BY <1>1, <1>2, <1>3, <2>3 DEF WindowInv, Incr
    <3>2. ASSUME NEW d \in Calls, At(d, "window") PROVE KeyOf(d) # k
      BY <3>1, <3>2 DEF OpenerInv
    <3>3. ASSUME NEW d \in Calls
          PROVE  /\ At(d, "window")' <=> d = c \/ At(d, "window")
                 /\ KeyOf(d)' = KeyOf(d)
      BY <1>9, <2>3 DEF Goto, At, KeyOf, TypeOK, Call
    <3>4. KeyOf(c) = k
      BY DEF k
    <3>5. counter'[k].n = 1 /\ counter'[k].ttl = 0
      BY <1>1, <1>6, <2>3, <3>1
    <3>. QED
      BY <2>1, <3>2, <3>3, <3>4, <3>5 DEF OpenerInv
  <2>. QED
    BY <2>2, <2>3
<1>. QED
  BY <1>5, <1>7, <1>8, <1>10

LEMMA SetWindowInv ==
    ASSUME IInv, NEW c \in Calls, SetWindow(c)
    PROVE  IInv'
<1>. USE EntrancesAssumption DEF IInv
<1>1. call[c].entrance \in Sockets /\ KeyOf(c) \in Keys
  BY DEF SetWindow, At, Routed, KeyOf, Keys, TypeOK, Call
<1>2. call' \in [Calls -> Call] /\ Routed' /\ KnownInv' /\ NoOpener
  <2>1. AfterRate(c) = IF call[c].entrance = "priority" THEN "overlay" ELSE "paywall"
    BY DEF AfterRate
  <2>2. call[c].entrance = "priority" \/ call[c].entrance = "kill-switch"
    BY <1>1 DEF Sockets
  <2>. QED
    BY <2>1, <2>2, MoveCall DEF SetWindow
<1>3. ASSUME NEW j \in Keys
      PROVE  /\ counter'[j].n = counter[j].n
             /\ counter'[j].ttl = IF j = KeyOf(c) THEN Window ELSE counter[j].ttl
  BY <1>1 DEF TypeOK, SetWindow
<1>4. TypeOK'
  <2>1. counter' \in [Keys -> [n : 0 .. Max + 1, ttl : 0 .. Window]]
    BY <1>1 DEF TypeOK, SetWindow
  <2>. QED
    BY <1>2, <2>1 DEF TypeOK, SetWindow, flags
<1>5. WindowInv'
  <2>1. UNCHANGED <<age, passes>> /\ age \in [Keys -> 0 .. Window]
    BY DEF SetWindow, TypeOK
  <2>2. counter[KeyOf(c)].n > 0
    BY DEF SetWindow, OpenerInv
  <2>. QED
    BY <1>3, <2>1, <2>2 DEF WindowInv
<1>6. OpenerInv'
  <2>1. ASSUME NEW d \in Calls, At(d, "window")'
        PROVE  d # c /\ At(d, "window") /\ KeyOf(d)' = KeyOf(d)
    <3>1. AfterRate(c) # "window"
      BY DEF AfterRate
    <3>2. ~At(c, "window")'
      BY <3>1 DEF SetWindow, Goto, At, TypeOK, Call
    <3>. QED
      BY <1>2, <2>1, <3>2 DEF NoOpener
  <2>2. ASSUME NEW d \in Calls, At(d, "window")'
        PROVE  counter'[KeyOf(d)'].n > 0 /\ counter'[KeyOf(d)'].ttl = 0
    <3>1. d # c /\ At(d, "window") /\ KeyOf(d)' = KeyOf(d)
      BY <2>1, <2>2
    <3>2. KeyOf(d) # KeyOf(c)
      BY <3>1 DEF OpenerInv, SetWindow
    <3>3. KeyOf(d) \in Keys
      BY <3>1 DEF At, Routed, KeyOf, Keys, TypeOK, Call
    <3>4. counter'[KeyOf(d)] = counter[KeyOf(d)]
      BY <3>2, <3>3, <1>1 DEF SetWindow, TypeOK
    <3>. QED
      BY <3>1, <3>4 DEF OpenerInv
  <2>. QED
    BY <1>2, <2>2 DEF OpenerInv, NoOpener
<1>. QED
  BY <1>2, <1>4, <1>5, <1>6

-----------------------------------------------------------------------------
(* The rest of the system                                                  *)

LEMMA SetFlagInv ==
    ASSUME IInv, SetBlocked \/ SetOverlay
    PROVE  IInv'
<1>. USE EntrancesAssumption DEF IInv
<1>1. /\ UNCHANGED <<keys, call>>
      /\ blocked' \in {blocked, FlagTTL} /\ overlay' \in {overlay, FlagTTL}
  BY DEF SetBlocked, SetOverlay
<1>2. TypeOK'
  BY <1>1 DEF TypeOK, keys
<1>3. Routed' /\ WindowInv' /\ OpenerInv'
  BY <1>1 DEF Routed, WindowInv, OpenerInv, keys, At, KeyOf
<1>4. KnownInv'
  BY <1>1 DEF KnownInv, FlagUp, At
<1>. QED
  BY <1>2, <1>3, <1>4

LEMMA TickInv ==
    ASSUME IInv, Tick
    PROVE  IInv'
<1>. USE EntrancesAssumption DEF IInv
<1>1. ASSUME NEW j \in Keys
      PROVE  /\ age[j] \in 0 .. Window /\ passes[j] \in Nat
             /\ age'[j] = IF age[j] < Window THEN age[j] + 1 ELSE Window
             /\ passes'[j] = IF age'[j] = Window THEN 0 ELSE passes[j]
  BY DEF TypeOK, Tick
<1>2. ASSUME NEW j \in Keys
      PROVE  /\ counter[j].n \in 0 .. Max + 1 /\ counter[j].ttl \in 0 .. Window
             /\ counter'[j].n = IF counter[j].ttl = 1 THEN 0 ELSE counter[j].n
             /\ counter'[j].ttl = IF counter[j].ttl = 0 THEN 0 ELSE counter[j].ttl - 1
             /\ counter'[j] \in [n : 0 .. Max + 1, ttl : 0 .. Window]
  <2>1. counter[j] \in [n : 0 .. Max + 1, ttl : 0 .. Window]
    BY DEF TypeOK
  <2>2. CASE counter[j].ttl = 1
    <3>1. counter'[j] = NoKey
      BY <2>2 DEF Tick
    <3>. QED
      BY <2>1, <2>2, <3>1 DEF NoKey
  <2>3. CASE counter[j].ttl # 1
    <3>1. counter'[j] = [counter[j] EXCEPT !.ttl = Less(counter[j].ttl)]
      BY <2>3 DEF Tick
    <3>. QED
      BY <2>1, <2>3, <3>1 DEF Less
  <2>. QED
    BY <2>2, <2>3
<1>3. ASSUME NEW d \in Calls
      PROVE  /\ call'[d] \in Call
             /\ call'[d].pc = call[d].pc /\ call'[d].entrance = call[d].entrance
             /\ call'[d].told = call[d].told /\ call'[d].addr = call[d].addr
             /\ call'[d].known =
                   (call[d].known /\ FlagUp(call[d].entrance, blocked', overlay'))
  <2>1. call[d] \in Call
    BY DEF TypeOK
  <2>2. (call[d].known /\ FlagUp(call[d].entrance, blocked', overlay')) \in BOOLEAN
    BY <2>1 DEF FlagUp, Call
  <2>3. call'[d] = [call[d] EXCEPT
                      !.known = call[d].known /\ FlagUp(call[d].entrance, blocked', overlay')]
    BY DEF Tick
  <2>. HIDE DEF FlagUp
  <2>. QED
    BY <2>1, <2>2, <2>3 DEF Call
<1>4. TypeOK'
  <2>1. counter' \in [Keys -> [n : 0 .. Max + 1, ttl : 0 .. Window]]
    BY <1>2 DEF Tick
  <2>2. age' \in [Keys -> 0 .. Window] /\ passes' \in [Keys -> Nat]
    BY <1>1 DEF Tick
  <2>3. blocked' \in 0 .. FlagTTL /\ overlay' \in 0 .. FlagTTL
    BY DEF Tick, TypeOK, Less
  <2>4. call' \in [Calls -> Call]
    BY <1>3 DEF Tick
  <2>. QED
    BY <2>1, <2>2, <2>3, <2>4 DEF TypeOK, Tick
<1>5. Routed'
  BY <1>3 DEF Routed, At
<1>6. WindowInv'
  <2>. SUFFICES ASSUME NEW j \in Keys
                PROVE  /\ counter'[j].n = 0 => counter'[j].ttl = 0
                       /\ age'[j] < Window =>
                              /\ counter'[j].n > 0
                              /\ counter'[j].ttl = 0 \/ counter'[j].ttl >= Window - age'[j]
                       /\ age'[j] = Window => passes'[j] = 0
                       /\ passes'[j] <= counter'[j].n
                       /\ passes'[j] <= Max
    BY DEF WindowInv
  <2>1. /\ counter[j].n = 0 => counter[j].ttl = 0
        /\ age[j] < Window =>
             counter[j].n > 0 /\ (counter[j].ttl = 0 \/ counter[j].ttl >= Window - age[j])
        /\ passes[j] <= counter[j].n /\ passes[j] <= Max
    BY DEF WindowInv
  <2>2. CASE age'[j] = Window
    BY <1>1, <1>2, <2>1, <2>2
  <2>3. CASE age'[j] # Window
    <3>1. age[j] < Window /\ age'[j] = age[j] + 1 /\ age'[j] < Window /\ passes'[j] = passes[j]
      BY <1>1, <2>3
    <3>2. counter[j].ttl # 1
      BY <1>1, <2>1, <3>1
    <3>. QED
      BY <1>1, <1>2, <2>1, <3>1, <3>2
  <2>. QED
    BY <2>2, <2>3
<1>7. KnownInv'
  BY <1>3 DEF KnownInv, At
<1>8. OpenerInv'
  <2>1. NoOpener
    BY <1>3 DEF NoOpener, At, KeyOf, Tick
  <2>2. ASSUME NEW d \in Calls, At(d, "window")
        PROVE  counter'[KeyOf(d)].n > 0 /\ counter'[KeyOf(d)].ttl = 0
    <3>1. KeyOf(d) \in Keys
      BY <2>2 DEF At, Routed, KeyOf, Keys, TypeOK, Call
    <3>2. counter[KeyOf(d)].n > 0 /\ counter[KeyOf(d)].ttl = 0
      BY <2>2 DEF OpenerInv
    <3>. QED
      BY <1>2, <3>1, <3>2
  <2>. QED
    BY <2>1, <2>2, OpenerStays
<1>. QED
  BY <1>4, <1>5, <1>6, <1>7, <1>8

-----------------------------------------------------------------------------
(* The invariant                                                           *)

LEMMA NextInv == IInv /\ [Next]_vars => IInv'
<1>. SUFFICES ASSUME IInv, [Next]_vars PROVE IInv'
  OBVIOUS
<1>1. ASSUME NEW c \in Calls,
             \/ \E entrance \in Sockets \cup {"grpc"}, addr \in Addresses : Arrive(c, entrance, addr)
             \/ Step(c) \/ Leave(c) \/ Crash(c)
      PROVE  IInv'
  BY <1>1, ArriveInv, CountInv, SetWindowInv, PaywallInv, ReadStateInv, AnswerInv, AcceptInv,
     LeaveInv, CrashInv DEF Step
<1>2. CASE UNCHANGED vars
  BY <1>2 DEF vars, keys, flags, IInv, TypeOK, Routed, WindowInv, OpenerInv, KnownInv, At, KeyOf
<1>. QED
  BY <1>1, <1>2, SetFlagInv, TickInv DEF Next

LEMMA Invariance == Spec => []IInv
  BY InitInv, NextInv, PTL DEF Spec

\* All variables of Entrances keep their types: a counter lives a window at most
\* and stops one past the limit.
THEOREM TypeCorrect == Spec => []TypeOK
  BY Invariance, PTL DEF IInv

\* Whatever the limit and the window, and with any number of connections under
\* way, an address gets no more than its limit through while a window lasts.
THEOREM RateHoldsAlways == Spec => []RateHolds
<1>1. IInv => RateHolds
  BY DEF IInv, WindowInv, RateHolds
<1>. QED
  BY <1>1, Invariance, PTL

\* A gRPC call that arrives under a block that lasts has no score, and a
\* priority socket that connects under an overlay is told so.
THEOREM LockMeetsCallerAlways == Spec => []LockMeetsCaller
<1>1. IInv => LockMeetsCaller
  BY DEF IInv, KnownInv, LockMeetsCaller, At
<1>. QED
  BY <1>1, Invariance, PTL
-----------------------------------------------------------------------------
(* Counters without TTL                                                    *)

\* A counter without TTL is owed one by the call that opened it, or is an orphan.
Owner(k) == \E c \in Calls : At(c, "window") /\ KeyOf(c) = k
TTLOwed == \A k \in Keys : counter[k].n > 0 /\ counter[k].ttl = 0 => orphan[k] \/ Owner(k)

\* A step of another call takes no owner away.
LEMMA OwnersStay ==
    ASSUME NEW c \in Calls, ~At(c, "window"), NEW k, Owner(k),
           \A d \in Calls \ {c} : call'[d] = call[d]
    PROVE  Owner(k)'
<1>1. PICK d \in Calls : At(d, "window") /\ KeyOf(d) = k
  BY Zenon DEF Owner
<1>2. call'[d] = call[d]
  BY <1>1, Zenon
<1>3. At(d, "window")' /\ KeyOf(d)' = k
  BY <1>1, <1>2, Zenon DEF At, KeyOf
<1> QED BY <1>3, Zenon DEF Owner

LEMMA OwedNext == IInv /\ TTLOwed /\ [Next]_vars => TTLOwed'
<1> SUFFICES ASSUME IInv, TTLOwed, [Next]_vars PROVE TTLOwed'
  OBVIOUS
<1> USE EntrancesAssumption
<1>a. /\ counter \in [Keys -> [n : 0 .. Max + 1, ttl : 0 .. Window]]
      /\ call \in [Calls -> Call] /\ orphan \in [Keys -> BOOLEAN]
  BY DEF IInv, TypeOK
<1>b. ASSUME NEW c \in Calls, call[c].pc \in {"count", "window"} PROVE KeyOf(c) \in Keys
  BY <1>a, <1>b DEF IInv, Routed, KeyOf, Keys, Call
<1>c. ASSUME NEW c \in Calls,
             \/ \E entrance \in Sockets \cup {"grpc"}, addr \in Addresses : Arrive(c, entrance, addr)
             \/ Step(c) \/ Leave(c) \/ Crash(c)
      PROVE  \A d \in Calls \ {c} : call'[d] = call[d]
  BY <1>a, <1>c DEF Arrive, Step, Count, SetWindow, Paywall, ReadState, Answer, Accept, Leave,
     Crash, Goto, End
<1>1. ASSUME NEW c \in Calls, ~At(c, "window"), UNCHANGED <<counter, orphan>>,
             \A d \in Calls \ {c} : call'[d] = call[d]
      PROVE  TTLOwed'
  BY <1>1, OwnersStay DEF TTLOwed
<1>2. ASSUME NEW c \in Calls,
             \/ \E entrance \in Sockets \cup {"grpc"}, addr \in Addresses : Arrive(c, entrance, addr)
             \/ Paywall(c) \/ ReadState(c) \/ Answer(c) \/ Accept(c) \/ Leave(c)
      PROVE  TTLOwed'
  <2>1. ~At(c, "window") /\ UNCHANGED <<counter, orphan>>
    BY <1>2 DEF Arrive, Paywall, ReadState, Answer, Accept, Leave, At, keys
  <2> QED BY <1>1, <1>2, <1>c, <2>1 DEF Step
<1>3. ASSUME NEW c \in Calls, Count(c) PROVE TTLOwed'
  <2>0. PICK k \in Keys : k = KeyOf(c)
    BY <1>3, <1>b DEF Count, At
  <2> DEFINE n == Incr(counter[k].n)
  <2>1. ~At(c, "window")
    BY <1>3 DEF Count, At
  <2>2. counter' = [counter EXCEPT ![k].n = n] /\ UNCHANGED orphan
        /\ (n = 1 => Goto(c, "window"))
    BY <1>3, <2>0 DEF Count
  <2>3. n # 1 => counter[k].n > 0
    BY <1>a DEF Incr
  <2>4. n = 1 => Owner(k)'
    <3>1. n = 1 => call' = [call EXCEPT ![c].pc = "window"]
      BY <2>2 DEF Goto
    <3>2. n = 1 => At(c, "window")' /\ KeyOf(c)' = k
      BY <1>a, <2>0, <3>1 DEF At, KeyOf, Call
    <3> QED BY <3>2, Zenon DEF Owner
  <2> HIDE DEF n
  <2>5. \A j \in Keys : counter'[j].ttl = counter[j].ttl /\ (j # k => counter'[j] = counter[j])
    BY <1>a, <2>2
  <2>6. ASSUME NEW j \in Keys, counter'[j].n > 0, counter'[j].ttl = 0
        PROVE  orphan'[j] \/ Owner(j)'
    <3>1. CASE j = k /\ n = 1
      BY <2>4, <3>1
    <3>2. CASE ~(j = k /\ n = 1)
      <4>1. counter[j].n > 0 /\ counter[j].ttl = 0
        BY <2>3, <2>5, <2>6, <3>2
      <4>2. orphan[j] \/ Owner(j)
        BY <4>1, Zenon DEF TTLOwed
      <4> QED BY <1>3, <1>c, <2>1, <2>2, <4>2, OwnersStay, Zenon DEF Step
    <3> QED BY <3>1, <3>2
  <2> QED BY <2>6, Zenon DEF TTLOwed
<1>4. ASSUME NEW c \in Calls, SetWindow(c) PROVE TTLOwed'
  <2>1. KeyOf(c) \in Keys /\ counter' = [counter EXCEPT ![KeyOf(c)].ttl = Window] /\ UNCHANGED orphan
    BY <1>4, <1>b DEF SetWindow, At
  <2>2. /\ counter'[KeyOf(c)].ttl = Window
        /\ \A j \in Keys : j # KeyOf(c) => counter'[j] = counter[j]
    BY <1>a, <2>1
  <2>3. ASSUME NEW j \in Keys, counter'[j].n > 0, counter'[j].ttl = 0
        PROVE  orphan'[j] \/ Owner(j)'
    <3>1. j # KeyOf(c) /\ (orphan[j] \/ Owner(j))
      BY <2>2, <2>3 DEF TTLOwed
    <3>2. CASE Owner(j)
      <4>1. PICK d \in Calls : At(d, "window") /\ KeyOf(d) = j
        BY <3>2, Zenon DEF Owner
      <4>2. call'[d] = call[d]
        BY <1>4, <1>c, <3>1, <4>1, Zenon DEF Step
      <4>3. At(d, "window")' /\ KeyOf(d)' = j
        BY <4>1, <4>2, Zenon DEF At, KeyOf
      <4> QED BY <4>3, Zenon DEF Owner
    <3> QED BY <2>1, <3>1, <3>2
  <2> QED BY <2>3, Zenon DEF TTLOwed
<1>5. ASSUME NEW c \in Calls, Crash(c) PROVE TTLOwed'
  <2>1. CASE ~At(c, "window")
    BY <1>1, <1>5, <1>c, <2>1 DEF Crash
  <2>2. CASE At(c, "window")
    <3>1. orphan' = [orphan EXCEPT ![KeyOf(c)] = TRUE] /\ UNCHANGED counter /\ KeyOf(c) \in Keys
      BY <1>5, <1>b, <2>2 DEF Crash, At
    <3>2. orphan'[KeyOf(c)] /\ \A j \in Keys : orphan[j] => orphan'[j]
      BY <1>a, <3>1
    <3>3. ASSUME NEW j \in Keys, j # KeyOf(c), Owner(j) PROVE Owner(j)'
      <4>1. PICK d \in Calls : At(d, "window") /\ KeyOf(d) = j
        BY <3>3, Zenon DEF Owner
      <4>2. call'[d] = call[d]
        BY <1>5, <1>c, <3>3, <4>1, Zenon
      <4>3. At(d, "window")' /\ KeyOf(d)' = j
        BY <4>1, <4>2, Zenon DEF At, KeyOf
      <4> QED BY <4>3, Zenon DEF Owner
    <3> QED BY <3>1, <3>2, <3>3, Zenon DEF TTLOwed
  <2> QED BY <2>1, <2>2
<1>6. CASE Tick
  <2>1. UNCHANGED orphan /\ \A k \in Keys : counter'[k] = IF counter[k].ttl = 1 THEN NoKey
                                  ELSE [counter[k] EXCEPT !.ttl = Less(@)]
    BY <1>6 DEF Tick
  <2>2. ASSUME NEW k \in Keys, counter'[k].n > 0, counter'[k].ttl = 0
        PROVE  counter[k].n > 0 /\ counter[k].ttl = 0
    <3>1. counter[k].n \in 0 .. Max + 1 /\ counter[k].ttl \in 0 .. Window
      BY <1>a
    <3>2. counter[k].ttl # 1
      <4>1. ~(0 > 0) /\ NoKey.n = 0
        BY DEF NoKey
      <4> QED BY <2>1, <2>2, <4>1, Zenon
    <3>3. counter'[k] = [counter[k] EXCEPT !.ttl = Less(counter[k].ttl)]
      BY <2>1, <3>2
    <3>4. counter'[k].n = counter[k].n /\ counter'[k].ttl = Less(counter[k].ttl)
      BY <1>a, <3>3
    <3> QED BY <2>2, <3>1, <3>2, <3>4 DEF Less
  <2>3. \A c \in Calls : call'[c].pc = call[c].pc /\ KeyOf(c)' = KeyOf(c)
    BY <1>a, <1>6 DEF Tick, KeyOf, Call
  <2> QED BY <2>1, <2>2, <2>3, Zenon DEF TTLOwed, Owner, At
<1>7. CASE SetBlocked \/ SetOverlay \/ UNCHANGED vars
  <2>1. UNCHANGED <<counter, orphan, call>>
    BY <1>7 DEF SetBlocked, SetOverlay, vars, keys
  <2> QED BY <2>1, Zenon DEF TTLOwed, Owner, At, KeyOf
<1> QED BY <1>2, <1>3, <1>4, <1>5, <1>6, <1>7 DEF Next, Step

\* However connections overlap and whatever the moment of EXPIRE, a counter has a TTL,
\* or the call that is about to set it, unless that call died (what RefusalEnds needs
\* beside fairness: no address is counted for ever for a reason of its own).
THEOREM CountersAreOwed == Spec => []TTLOwed
<1>1. Init => TTLOwed
  BY DEF Init, TTLOwed, NoKey
<1> QED BY <1>1, InitInv, NextInv, OwedNext, PTL DEF Spec
=============================================================================
