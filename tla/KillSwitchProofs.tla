-------------------------- MODULE KillSwitchProofs --------------------------
(***************************************************************************)
(* Theorems about KillSwitch, for every number of sockets, devices and     *)
(* publishers.                                                             *)
(***************************************************************************)
EXTENDS KillSwitch, TLAPS

-----------------------------------------------------------------------------
(* Type correctness                                                        *)

\* A broadcast under way has its message at the head of the queue.
TypeInv == TypeOK /\ \A t \in Sockets : task[t] = "cast" => inbox[t] # <<>>

\* The parts of the state, typed one by one.
HubOK ==
    /\ connections \subseteq Sockets
    /\ sk \in [Sockets -> {"new", "check", "listen", "open", "lost", "closing", "join", "gone"}]
    /\ waits \in [Sockets -> Sockets \cup {NoTask}]
    /\ listenerTask \in Sockets \cup {NoTask}
    /\ stop \in BOOLEAN
RelayOK ==
    /\ task \in [Sockets -> {"none", "starting", "loop", "wait", "cast", "ending",
                             "ended", "failed"}]
    /\ inbox \in [Sockets -> Seq(Message)]
    /\ todo \in [Sockets -> SUBSET Sockets]
    /\ relayed \subseteq Message
    /\ \A t \in Sockets : task[t] = "cast" => inbox[t] # <<>>
PubOK ==
    /\ overlay \subseteq Devices
    /\ pub \in [Publishers -> [pc : {"idle", "block", "flag", "final", "done"},
                               script : Scripts, dev : Devices]]
PartsOK == HubOK /\ RelayOK /\ PubOK /\ warned \subseteq Sockets

LEMMA TypeParts == TypeInv <=> PartsOK
BY DEF TypeInv, TypeOK, PartsOK, HubOK, RelayOK, PubOK

\* A publisher's message is well formed.
LEMMA MessageTyped ==
    ASSUME PubOK, NEW p \in Publishers
    PROVE  /\ [kind |-> Kind(p), dev |-> pub[p].dev] \in Message
           /\ pub[p].pc = "block" => Kind(p) = "block"
           /\ Kind(p) \in {"score", "IMMEDIATE_QUARANTINE"} =>
                 pub[p].pc # "block" /\ pub[p].script \in {"worker", "edr"}
<1>1. pub[p].dev \in Devices
  BY DEF PubOK
<1>2. Kind(p) \in {"block", "score", "IMMEDIATE_QUARANTINE", "CRITICAL_LOCK"}
  BY DEF Kind, LastKind, PubOK, Scripts
<1>3. pub[p].pc = "block" => Kind(p) = "block"
  BY DEF Kind
<1>4. Kind(p) \in {"score", "IMMEDIATE_QUARANTINE"} =>
         pub[p].pc # "block" /\ pub[p].script \in {"worker", "edr"}
  BY DEF Kind, LastKind, PubOK, Scripts
<1> QED BY <1>1, <1>2, <1>3, <1>4 DEF Message

LEMMA AdvanceTyped ==
    ASSUME PubOK, NEW p \in Publishers, pub[p].pc # "done", Advance(p)
    PROVE  /\ pub' \in [Publishers -> [pc : {"idle", "block", "flag", "final", "done"},
                                       script : Scripts, dev : Devices]]
           /\ \A q \in Publishers : q # p => pub'[q] = pub[q]
           /\ pub'[p].script = pub[p].script /\ pub'[p].dev = pub[p].dev
           /\ pub'[p].pc = NextPc(pub[p].script, pub[p].pc)
<1>1. NextPc(pub[p].script, pub[p].pc) \in {"block", "flag", "final", "done"}
  BY DEF PubOK, NextPc, Scripts
<1> QED BY <1>1 DEF PubOK, Advance

LEMMA TypeInit == Init => TypeInv
<1> SUFFICES ASSUME Init PROVE PartsOK
  BY TypeParts
<1>1. PubOK
  BY DEF Init, PubOK
<1>2. <<>> \in Seq(Message)
  OBVIOUS
<1>3. inbox \in [Sockets -> Seq(Message)]
  BY <1>2 DEF Init
<1> QED BY <1>1, <1>3 DEF Init, PartsOK, HubOK, RelayOK

LEMMA TypeNext == TypeInv /\ [Next]_vars => TypeInv'
<1> SUFFICES ASSUME PartsOK, [Next]_vars PROVE PartsOK'
  BY TypeParts DEF TypeInv, TypeOK, PartsOK, HubOK, RelayOK, PubOK
<1> USE HubAssumption
<1>1. ASSUME NEW s \in Sockets,
             Register(s) \/ RegisterFails(s) \/ ClientLeaves(s) \/ ReadFails(s)
             \/ CheckOverlay(s) \/ Disconnect(s)
      PROVE PartsOK'
  <2>1. HubOK'
    BY <1>1 DEF PartsOK, HubOK, Register, RegisterFails, ClientLeaves, ReadFails,
                CheckOverlay, Disconnect
  <2>2. warned' \subseteq Sockets
    BY <1>1 DEF PartsOK, Register, RegisterFails, ClientLeaves, ReadFails,
                CheckOverlay, Disconnect
  <2>3. UNCHANGED <<relay, overlay, pub>>
    BY <1>1 DEF Register, RegisterFails, ClientLeaves, ReadFails, CheckOverlay, Disconnect
  <2> QED BY <2>1, <2>2, <2>3 DEF PartsOK, RelayOK, PubOK, relay
<1>2. ASSUME NEW s \in Sockets, StartListener(s) PROVE PartsOK'
  BY <1>2 DEF PartsOK, HubOK, RelayOK, PubOK, StartListener
<1>3. ASSUME NEW s \in Sockets, LastOneOut(s) PROVE PartsOK'
  <2>1. HubOK'
    <3>1. sk' \in [Sockets -> {"new", "check", "listen", "open", "lost", "closing", "join", "gone"}]
      BY <1>3 DEF PartsOK, HubOK, LastOneOut
    <3>2. waits' \in [Sockets -> Sockets \cup {NoTask}]
      BY <1>3 DEF PartsOK, HubOK, LastOneOut
    <3> QED BY <1>3, <3>1, <3>2 DEF PartsOK, HubOK, LastOneOut
  <2>2. UNCHANGED <<relay, overlay, pub, warned>>
    BY <1>3 DEF LastOneOut
  <2> QED BY <2>1, <2>2 DEF PartsOK, RelayOK, PubOK, relay
<1>4. ASSUME NEW s \in Sockets, JoinersReturn(s) PROVE PartsOK'
  <2>1. sk' \in [Sockets -> {"new", "check", "listen", "open", "lost", "closing", "join", "gone"}]
    BY <1>4 DEF PartsOK, HubOK, JoinersReturn
  <2> QED BY <1>4, <2>1 DEF PartsOK, HubOK, RelayOK, PubOK, JoinersReturn, relay
<1>5. ASSUME NEW t \in Sockets, Subscribe(t) \/ CheckStop(t) \/ ReadTimeout(t) PROVE PartsOK'
  BY <1>5 DEF PartsOK, HubOK, RelayOK, PubOK, Subscribe, CheckStop, ReadTimeout, MoveTask, hub
<1>6. ASSUME NEW t \in Sockets, Receive(t) PROVE PartsOK'
  <2>1. PICK snapshot \in SUBSET Sockets : todo' = [todo EXCEPT ![t] = snapshot]
    BY <1>6 DEF PartsOK, HubOK, Receive
  <2>2. todo' \in [Sockets -> SUBSET Sockets]
    BY <2>1 DEF PartsOK, RelayOK
  <2>3. inbox[t] # <<>> /\ task' = [task EXCEPT ![t] = "cast"]
        /\ UNCHANGED <<hub, overlay, pub, warned, inbox, relayed>>
    BY <1>6 DEF Receive, MoveTask
  <2> QED BY <2>2, <2>3 DEF PartsOK, HubOK, RelayOK, PubOK, hub
<1>7. ASSUME NEW t \in Sockets, NEW s \in Sockets, Send(t, s) PROVE PartsOK'
  BY <1>7 DEF PartsOK, HubOK, RelayOK, PubOK, Send
<1>8. ASSUME NEW t \in Sockets, EndCast(t) PROVE PartsOK'
  <2>1. inbox[t] \in Seq(Message) /\ inbox[t] # <<>> /\ task[t] = "cast"
    BY <1>8 DEF PartsOK, RelayOK, EndCast, MoveTask
  <2>2. Head(inbox[t]) \in Message /\ Tail(inbox[t]) \in Seq(Message)
    BY <2>1
  <2> QED BY <1>8, <2>2 DEF PartsOK, HubOK, RelayOK, PubOK, EndCast, MoveTask, hub
<1>9. ASSUME NEW t \in Sockets, Finish(t) \/ TaskFails(t) PROVE PartsOK'
  <2>1. <<>> \in Seq(Message)
    OBVIOUS
  <2>2. inbox' = [inbox EXCEPT ![t] = <<>>] /\ UNCHANGED <<hub, overlay, pub, warned, todo, relayed>>
    BY <1>9 DEF Finish, TaskFails, MoveTask
  <2>3. inbox' \in [Sockets -> Seq(Message)] /\ \A u \in Sockets : u # t => inbox'[u] = inbox[u]
    BY <2>1, <2>2 DEF PartsOK, RelayOK
  <2>4. task' = [task EXCEPT ![t] = "ended"] \/ task' = [task EXCEPT ![t] = "failed"]
    BY <1>9 DEF Finish, TaskFails, MoveTask
  <2>5. RelayOK'
    BY <2>2, <2>3, <2>4 DEF PartsOK, RelayOK
  <2> QED BY <2>2, <2>5 DEF PartsOK, HubOK, PubOK, hub
<1>10. ASSUME NEW p \in Publishers, Begin(p) \/ SetOverlay(p) PROVE PartsOK'
  <2>1. Advance(p) /\ pub[p].pc # "done"
    BY <1>10 DEF Begin, SetOverlay
  <2> QED BY <1>10, <2>1, AdvanceTyped
        DEF PartsOK, HubOK, RelayOK, PubOK, Begin, SetOverlay, hub, relay
<1>11. ASSUME NEW p \in Publishers, PublisherDies(p) PROVE PartsOK'
  BY <1>11 DEF PartsOK, HubOK, RelayOK, PubOK, PublisherDies, hub, relay
<1>12. ASSUME NEW p \in Publishers, Publish(p) PROVE PartsOK'
  <2> DEFINE m == [kind |-> Kind(p), dev |-> pub[p].dev]
  <2>1. Advance(p) /\ pub[p].pc # "done" /\ m \in Message
    BY <1>12, MessageTyped DEF Publish, PartsOK
  <2>2. \A t \in Sockets : inbox'[t] = IF Subscribed(t) THEN Append(inbox[t], m) ELSE inbox[t]
    BY <1>12 DEF Publish
  <2> HIDE DEF m
  <2>3. \A t \in Sockets : Append(inbox[t], m) \in Seq(Message) /\ Append(inbox[t], m) # <<>>
    BY <2>1 DEF PartsOK, RelayOK
  <2>4. inbox' \in [Sockets -> Seq(Message)]
    BY <1>12, <2>1, <2>3 DEF PartsOK, RelayOK, Publish, m
  <2> QED BY <1>12, <2>1, <2>2, <2>3, <2>4, AdvanceTyped
        DEF PartsOK, HubOK, RelayOK, PubOK, Publish, hub
<1>13. CASE UNCHANGED vars
  BY <1>13 DEF PartsOK, HubOK, RelayOK, PubOK, vars, hub, relay
<1> QED BY <1>1, <1>2, <1>3, <1>4, <1>5, <1>6, <1>7, <1>8, <1>9, <1>10, <1>11, <1>12, <1>13
      DEF Next, HandlerStep, TaskStep

\* Every reachable state of the hub, the relay tasks and the publishers is
\* well typed, whatever the number of sockets and publishers.
THEOREM TypeCorrect == Spec => []TypeOK
<1>1. Spec => []TypeInv
  BY TypeInit, TypeNext, PTL DEF Spec
<1>2. TypeInv => TypeOK
  BY DEF TypeInv
<1> QED BY <1>1, <1>2, PTL

-----------------------------------------------------------------------------
(* The stop event has an owner                                             *)

\* A handler that has not reached its listener check has no relay task yet, so
\* creating one never overwrites a task that failed.
StopInv ==
    /\ StopHasOwner
    /\ \A s \in Sockets : sk[s] \in {"new", "check", "listen"} => task[s] = "none"

LEMMA StopNext == TypeInv /\ StopInv /\ [Next]_vars => StopInv'
<1> SUFFICES ASSUME PartsOK, StopInv, [Next]_vars PROVE StopInv'
  BY TypeParts
<1> USE DEF StopInv, StopHasOwner, PartsOK, HubOK, RelayOK
<1>1. ASSUME NEW s \in Sockets,
             Register(s) \/ RegisterFails(s) \/ ClientLeaves(s) \/ ReadFails(s)
             \/ CheckOverlay(s) \/ Disconnect(s)
      PROVE StopInv'
  BY <1>1 DEF Register, RegisterFails, ClientLeaves, ReadFails, CheckOverlay, Disconnect, relay
<1>2. ASSUME NEW s \in Sockets, StartListener(s) PROVE StopInv'
  BY <1>2 DEF StartListener
<1>3. ASSUME NEW s \in Sockets, LastOneOut(s) PROVE StopInv'
  <2>1. sk[s] = "closing" /\ UNCHANGED task
    BY <1>3 DEF LastOneOut, relay
  <2>2. CASE stop' = stop /\ sk' = [sk EXCEPT ![s] = "gone"]
    BY <2>1, <2>2
  <2>3. CASE stop' = FALSE /\ sk' = [sk EXCEPT ![s] = "gone"]
    BY <2>1, <2>3
  <2>4. CASE sk' = [sk EXCEPT ![s] = "join"]
    BY <2>1, <2>4
  <2>5. CASE sk' = [sk EXCEPT ![s] = "gone"] /\ listenerTask \in Sockets
             /\ task[listenerTask] = "failed"
    BY <2>1, <2>5
  <2> QED BY <1>3, <2>2, <2>3, <2>4, <2>5 DEF LastOneOut
<1>4. ASSUME NEW t \in Sockets, JoinersReturn(t) PROVE StopInv'
  BY <1>4 DEF JoinersReturn, Joiners, relay
<1>5. ASSUME NEW t \in Sockets, NEW from \in {"starting", "loop", "wait", "cast", "ending"},
             NEW to \in {"loop", "wait", "cast", "ending", "ended", "failed"},
             MoveTask(t, from, to)
      PROVE StopInv'
  BY <1>5 DEF MoveTask, hub
<1>6. ASSUME NEW t \in Sockets,
             Subscribe(t) \/ CheckStop(t) \/ ReadTimeout(t) \/ EndCast(t) \/ Finish(t)
             \/ Receive(t) \/ TaskFails(t)
      PROVE StopInv'
  BY <1>5, <1>6 DEF Subscribe, CheckStop, ReadTimeout, EndCast, Finish, Receive, TaskFails
<1>7. ASSUME NEW t \in Sockets, NEW s \in Sockets, Send(t, s) PROVE StopInv'
  BY <1>7 DEF Send
<1>8. ASSUME NEW p \in Publishers, Begin(p) \/ Publish(p) \/ SetOverlay(p) \/ PublisherDies(p)
      PROVE StopInv'
  BY <1>8 DEF Begin, Publish, SetOverlay, PublisherDies, hub, relay
<1>9. CASE UNCHANGED vars
  BY <1>9 DEF vars, hub, relay
<1> QED BY <1>1, <1>2, <1>3, <1>4, <1>6, <1>7, <1>8, <1>9 DEF Next, HandlerStep, TaskStep

\* The stop event is never left set without a handler that will clear it, unless
\* a relay task failed: for any number of sockets that connect and leave.
THEOREM StopIsOwned == Spec => []StopHasOwner
<1>1. Init => TypeInv /\ StopInv
  BY TypeInit DEF Init, StopInv, StopHasOwner
<1>2. TypeInv /\ StopInv /\ [Next]_vars => (TypeInv /\ StopInv)'
  BY TypeNext, StopNext
<1>3. StopInv => StopHasOwner
  BY DEF StopInv
<1> QED BY <1>1, <1>2, <1>3, PTL DEF Spec

-----------------------------------------------------------------------------
(* The last message of a lock covers every socket                          *)

\* The messages a worker or an EDR report ends with, for one device.
Closing(m) == m.kind \in {"score", "IMMEDIATE_QUARANTINE"}
Concerns(s, m) == sk[s] \in {"listen", "open"} /\ DeviceOf[s] = m.dev

\* The overlay is set before such a message is published; from then on a socket
\* either was in the hub when the broadcast began or has seen the overlay.
InHub == \A s \in Sockets : sk[s] \in {"check", "listen", "open"} => s \in connections
OverlayFirst ==
    \A p \in Publishers :
       pub[p].pc = "final" /\ pub[p].script \in {"worker", "edr"} => pub[p].dev \in overlay
QueueBacked ==
    \A t \in Sockets : \A i \in DOMAIN inbox[t] :
       Closing(inbox[t][i]) => inbox[t][i].dev \in overlay
CastCovers ==
    \A t \in Sockets : task[t] = "cast" /\ Closing(Head(inbox[t])) =>
       \A s \in Sockets : Concerns(s, Head(inbox[t])) => s \in todo[t] \cup warned
RelayCovers ==
    \A m \in relayed : Closing(m) =>
       m.dev \in overlay /\ \A s \in Sockets : Concerns(s, m) => s \in warned
CoverInv == InHub /\ OverlayFirst /\ QueueBacked /\ CastCovers /\ RelayCovers

\* A step of a handler other than CheckOverlay brings no socket under Concerns.
LEMMA HandlerKeepsCover ==
    ASSUME PartsOK, CoverInv, UNCHANGED <<inbox, todo, relayed, overlay, pub, warned>>,
           \A t \in Sockets : task'[t] = "cast" => task[t] = "cast",
           \A s \in Sockets : sk'[s] \in {"listen", "open"} => sk[s] \in {"listen", "open"},
           InHub'
    PROVE  CoverInv'
<1>1. \A s \in Sockets : \A m : Concerns(s, m)' => Concerns(s, m)
  BY DEF Concerns
<1>2. CastCovers' BY <1>1 DEF CoverInv, CastCovers, Closing, Concerns
<1>3. RelayCovers' BY <1>1 DEF CoverInv, RelayCovers, Closing, Concerns
<1> QED BY <1>2, <1>3 DEF CoverInv, OverlayFirst, QueueBacked, Closing

LEMMA CoverNext == TypeInv /\ CoverInv /\ [Next]_vars => CoverInv'
<1> SUFFICES ASSUME PartsOK, CoverInv, [Next]_vars PROVE CoverInv'
  BY TypeParts
<1> USE DEF PartsOK, HubOK
<1>1. ASSUME NEW s \in Sockets,
             Register(s) \/ RegisterFails(s) \/ ClientLeaves(s) \/ ReadFails(s) \/ Disconnect(s)
      PROVE CoverInv'
  <2>1. InHub'
    BY <1>1 DEF CoverInv, InHub, Register, RegisterFails, ClientLeaves, ReadFails, Disconnect
  <2>2. \A r \in Sockets : sk'[r] \in {"listen", "open"} => sk[r] \in {"listen", "open"}
    BY <1>1 DEF Register, RegisterFails, ClientLeaves, ReadFails, Disconnect
  <2>3. UNCHANGED <<task, inbox, todo, relayed, overlay, pub, warned>>
    BY <1>1 DEF Register, RegisterFails, ClientLeaves, ReadFails, Disconnect, relay
  <2> QED BY <2>1, <2>2, <2>3, HandlerKeepsCover
<1>2. ASSUME NEW s \in Sockets, CheckOverlay(s) PROVE CoverInv'
  <2>1. /\ sk[s] = "check" /\ sk' = [sk EXCEPT ![s] = "listen"]
        /\ UNCHANGED <<connections, task, inbox, todo, relayed, overlay, pub>>
        /\ warned \subseteq warned' /\ (DeviceOf[s] \in overlay => s \in warned')
    BY <1>2 DEF CheckOverlay, relay
  <2>2. \A r \in Sockets : r # s => sk'[r] = sk[r]
    BY <2>1
  <2>3. InHub' BY <2>1, <2>2 DEF CoverInv, InHub
  <2>4. CastCovers'
    <3> SUFFICES ASSUME NEW t \in Sockets, task[t] = "cast", Closing(Head(inbox[t])),
                        NEW r \in Sockets, Concerns(r, Head(inbox[t]))'
                 PROVE  r \in todo[t] \cup warned'
      BY <2>1 DEF CastCovers, Closing
    <3>1. inbox[t] # <<>> /\ inbox[t] \in Seq(Message)
      BY DEF RelayOK
    <3>2. Head(inbox[t]).dev \in overlay
      BY <3>1 DEF CoverInv, QueueBacked
    <3>3. CASE r = s
      BY <2>1, <3>2, <3>3 DEF Concerns
    <3>4. CASE r # s
      BY <2>1, <2>2, <3>4 DEF Concerns, CoverInv, CastCovers
    <3> QED BY <3>3, <3>4
  <2>5. RelayCovers'
    BY <2>1, <2>2 DEF CoverInv, RelayCovers, Concerns, Closing
  <2> QED BY <2>1, <2>3, <2>4, <2>5 DEF CoverInv, OverlayFirst, QueueBacked, Closing
<1>3. ASSUME NEW s \in Sockets, StartListener(s) \/ LastOneOut(s) \/ JoinersReturn(s)
      PROVE CoverInv'
  <2>1. UNCHANGED <<connections, inbox, todo, relayed, overlay, pub, warned>>
    BY <1>3 DEF StartListener, LastOneOut, JoinersReturn, relay
  <2>2. \A r \in Sockets : sk'[r] \in {"listen", "open"} => sk[r] \in {"listen", "open"}
    BY <1>3 DEF StartListener, LastOneOut, JoinersReturn
  <2>3. \A r \in Sockets : sk'[r] # sk[r] => sk[r] \in {"listen"} \/ sk'[r] \in {"gone", "join"}
    BY <1>3 DEF StartListener, LastOneOut, JoinersReturn
  <2>4. InHub' BY <2>1, <2>3 DEF CoverInv, InHub
  <2>5. \A t \in Sockets : task'[t] = "cast" => task[t] = "cast"
    BY <1>3 DEF StartListener, LastOneOut, JoinersReturn, relay, RelayOK
  <2> QED BY <2>1, <2>2, <2>4, <2>5, HandlerKeepsCover
<1>4. ASSUME NEW t \in Sockets,
             Subscribe(t) \/ CheckStop(t) \/ ReadTimeout(t) \/ Finish(t) \/ TaskFails(t)
      PROVE CoverInv'
  <2>1. UNCHANGED <<connections, sk, todo, relayed, overlay, pub, warned>>
    BY <1>4 DEF Subscribe, CheckStop, ReadTimeout, Finish, TaskFails, MoveTask, hub
  <2>2. \A u \in Sockets : task'[u] = "cast" => task[u] = "cast"
    BY <1>4 DEF Subscribe, CheckStop, ReadTimeout, Finish, TaskFails, MoveTask, RelayOK
  <2>3. \A u \in Sockets : inbox'[u] = inbox[u] \/ (inbox'[u] = <<>> /\ task'[u] # "cast")
    BY <1>4 DEF Subscribe, CheckStop, ReadTimeout, Finish, TaskFails, MoveTask, RelayOK
  <2>4. CastCovers'
    BY <2>1, <2>2, <2>3 DEF CoverInv, CastCovers, Concerns, Closing
  <2>5. QueueBacked'
    BY <2>1, <2>3 DEF CoverInv, QueueBacked, Closing
  <2> QED BY <2>1, <2>4, <2>5 DEF CoverInv, InHub, OverlayFirst, RelayCovers, Concerns, Closing
<1>5. ASSUME NEW t \in Sockets, Receive(t) PROVE CoverInv'
  <2> DEFINE m == Head(inbox[t])
  <2>1. /\ UNCHANGED <<connections, sk, inbox, relayed, overlay, pub, warned>>
        /\ task' = [task EXCEPT ![t] = "cast"] /\ inbox[t] # <<>>
    BY <1>5 DEF Receive, MoveTask, hub
  <2>2. \A u \in Sockets : u # t => task'[u] = task[u] /\ todo'[u] = todo[u]
    BY <1>5 DEF Receive, MoveTask, RelayOK
  <2>3. ASSUME NEW s \in Sockets, Concerns(s, m) PROVE s \in todo'[t]
    <3>1. s \in connections /\ DeviceOf[s] = m.dev
      BY <2>3 DEF CoverInv, InHub, Concerns
    <3> QED BY <1>5, <3>1 DEF Receive, RelayOK
  <2>4. CastCovers'
    BY <2>1, <2>2, <2>3 DEF CoverInv, CastCovers, Concerns, Closing
  <2> QED BY <2>1, <2>4 DEF CoverInv, InHub, OverlayFirst, QueueBacked, RelayCovers, Concerns, Closing
<1>6. ASSUME NEW t \in Sockets, NEW r \in Sockets, Send(t, r) PROVE CoverInv'
  <2> DEFINE m == Head(inbox[t])
  <2>1. /\ UNCHANGED <<sk, task, inbox, relayed, overlay, pub>>
        /\ todo' = [todo EXCEPT ![t] = @ \ {r}] /\ warned \subseteq warned'
        /\ connections' = connections \/ (Deaf(r) /\ connections' = connections \ {r})
    BY <1>6 DEF Send
  <2>2. Concerns(r, m) => r \in warned'
    BY <1>6 DEF Send, Concerns, Deaf
  <2>3. InHub' BY <2>1 DEF CoverInv, InHub, Deaf
  <2>4. CastCovers'
    <3> SUFFICES ASSUME NEW u \in Sockets, task[u] = "cast", Closing(Head(inbox[u])),
                        NEW s \in Sockets, Concerns(s, Head(inbox[u]))
                 PROVE  s \in todo'[u] \cup warned'
      BY <2>1 DEF CastCovers, Closing, Concerns
    <3>1. s \in todo[u] \cup warned
      BY DEF CoverInv, CastCovers
    <3>2. CASE u = t /\ s = r
      BY <2>2, <3>2
    <3>3. CASE u # t \/ s # r
      BY <2>1, <3>1, <3>3 DEF RelayOK
    <3> QED BY <3>2, <3>3
  <2>5. RelayCovers' BY <2>1 DEF CoverInv, RelayCovers, Concerns, Closing
  <2> QED BY <2>1, <2>3, <2>4, <2>5 DEF CoverInv, OverlayFirst, QueueBacked, Closing
<1>7. ASSUME NEW t \in Sockets, EndCast(t) PROVE CoverInv'
  <2> DEFINE m == Head(inbox[t])
  <2>1. /\ UNCHANGED <<connections, sk, todo, overlay, pub, warned>>
        /\ task[t] = "cast" /\ task' = [task EXCEPT ![t] = "loop"] /\ todo[t] = {}
        /\ relayed' = relayed \cup {m} /\ inbox' = [inbox EXCEPT ![t] = Tail(@)]
    BY <1>7 DEF EndCast, MoveTask, hub
  <2>2. inbox[t] # <<>> /\ inbox[t] \in Seq(Message)
    BY <2>1 DEF RelayOK
  <2>3. \A u \in Sockets : u # t => inbox'[u] = inbox[u] /\ task'[u] = task[u]
    BY <2>1 DEF RelayOK
  <2>4. Closing(m) => m.dev \in overlay /\ \A s \in Sockets : Concerns(s, m) => s \in warned
    BY <2>1, <2>2 DEF CoverInv, QueueBacked, CastCovers
  <2>5. RelayCovers'
    BY <2>1, <2>4 DEF CoverInv, RelayCovers, Concerns, Closing
  <2>6. \A i \in DOMAIN Tail(inbox[t]) :
           i + 1 \in DOMAIN inbox[t] /\ Tail(inbox[t])[i] = inbox[t][i + 1]
    BY <2>2
  <2>7. inbox'[t] = Tail(inbox[t])
    BY <2>1 DEF RelayOK
  <2>8. QueueBacked'
    BY <2>1, <2>3, <2>6, <2>7 DEF CoverInv, QueueBacked, Closing
  <2>9. CastCovers'
    BY <2>1, <2>3 DEF CoverInv, CastCovers, Concerns, Closing, RelayOK
  <2> QED BY <2>1, <2>5, <2>8, <2>9 DEF CoverInv, InHub, OverlayFirst
<1>8. ASSUME NEW p \in Publishers, Begin(p) \/ SetOverlay(p) PROVE CoverInv'
  <2>1. UNCHANGED <<connections, sk, task, inbox, todo, relayed, warned>> /\ Advance(p)
        /\ pub[p].pc \in {"idle", "flag"} /\ overlay \subseteq overlay'
        /\ (pub[p].pc = "flag" => pub[p].dev \in overlay')
    BY <1>8 DEF Begin, SetOverlay, hub, relay
  <2>2. OverlayFirst'
    <3> SUFFICES ASSUME NEW q \in Publishers, pub'[q].pc = "final",
                        pub'[q].script \in {"worker", "edr"}
                 PROVE  pub'[q].dev \in overlay'
      BY DEF OverlayFirst
    <3>1. CASE q = p
      BY <2>1, <3>1, AdvanceTyped DEF NextPc
    <3>2. CASE q # p
      BY <2>1, <3>2, AdvanceTyped DEF CoverInv, OverlayFirst
    <3> QED BY <3>1, <3>2
  <2> QED BY <2>1, <2>2
        DEF CoverInv, InHub, QueueBacked, CastCovers, RelayCovers, Concerns, Closing
<1>9. ASSUME NEW p \in Publishers, PublisherDies(p) PROVE CoverInv'
  BY <1>9 DEF PublisherDies, hub, relay, PubOK, CoverInv, InHub, OverlayFirst, QueueBacked,
              CastCovers, RelayCovers, Concerns, Closing
<1>10. ASSUME NEW p \in Publishers, Publish(p) PROVE CoverInv'
  <2> DEFINE m == [kind |-> Kind(p), dev |-> pub[p].dev]
  <2>1. UNCHANGED <<connections, sk, task, todo, relayed, overlay, warned>> /\ Advance(p)
        /\ pub[p].pc \in {"block", "final"}
    BY <1>10 DEF Publish, hub
  <2>2. \A t \in Sockets : inbox'[t] = IF Subscribed(t) THEN Append(inbox[t], m) ELSE inbox[t]
    BY <1>10 DEF Publish
  <2>3. m \in Message /\ (Closing(m) => m.dev \in overlay)
    BY <2>1, MessageTyped DEF Closing, CoverInv, OverlayFirst
  <2>4. OverlayFirst'
    <3> SUFFICES ASSUME NEW q \in Publishers, pub'[q].pc = "final",
                        pub'[q].script \in {"worker", "edr"}
                 PROVE  pub'[q].dev \in overlay
      BY <2>1 DEF OverlayFirst
    <3>1. CASE q = p
      BY <2>1, <3>1, AdvanceTyped DEF NextPc
    <3>2. CASE q # p
      BY <2>1, <3>2, AdvanceTyped DEF CoverInv, OverlayFirst
    <3> QED BY <3>1, <3>2
  <2> HIDE DEF m
  <2>5. ASSUME NEW t \in Sockets, NEW i \in DOMAIN inbox'[t]
        PROVE  inbox'[t][i] = m \/ (i \in DOMAIN inbox[t] /\ inbox'[t][i] = inbox[t][i])
    <3>1. inbox[t] \in Seq(Message)
      BY DEF RelayOK
    <3> DEFINE grown == Append(inbox[t], m)
    <3>2. \A k \in DOMAIN grown : grown[k] = m \/ (k \in DOMAIN inbox[t] /\ grown[k] = inbox[t][k])
      BY <2>3, <3>1
    <3> HIDE DEF grown
    <3>3. inbox'[t] = grown \/ inbox'[t] = inbox[t]
      BY <2>2 DEF grown
    <3> QED BY <2>5, <3>2, <3>3
  <2>6. QueueBacked'
    BY <2>1, <2>3, <2>5 DEF CoverInv, QueueBacked, Closing
  <2>7. \A t \in Sockets : task[t] = "cast" => Head(inbox'[t]) = Head(inbox[t])
    <3> TAKE t \in Sockets
    <3> HAVE task[t] = "cast"
    <3>1. inbox[t] \in Seq(Message) /\ inbox[t] # <<>>
      BY DEF RelayOK
    <3>2. Head(Append(inbox[t], m)) = Head(inbox[t])
      BY <2>3, <3>1
    <3> QED BY <2>2, <3>2
  <2>8. CastCovers'
    BY <2>1, <2>7 DEF CoverInv, CastCovers, Concerns, Closing
  <2> QED BY <2>1, <2>4, <2>6, <2>8 DEF CoverInv, InHub, RelayCovers, Concerns, Closing
<1>11. CASE UNCHANGED vars
  BY <1>11 DEF vars, hub, relay, CoverInv, InHub, OverlayFirst, QueueBacked, CastCovers,
               RelayCovers, Concerns, Closing
<1> QED BY <1>1, <1>2, <1>3, <1>4, <1>5, <1>6, <1>7, <1>8, <1>9, <1>10, <1>11
      DEF Next, HandlerStep, TaskStep

\* After the last message of a worker or an EDR report has been relayed, no open
\* socket of its device is without a lock, however registrations, broadcasts
\* and publishers interleave.
THEOREM LocksCover == Spec => []LastMessageCovers
<1>1. Init => TypeInv /\ CoverInv
  <2> SUFFICES ASSUME Init PROVE CoverInv
    BY TypeInit
  <2> QED BY DEF Init, CoverInv, InHub, OverlayFirst, QueueBacked, CastCovers, RelayCovers
<1>2. TypeInv /\ CoverInv /\ [Next]_vars => (TypeInv /\ CoverInv)'
  BY TypeNext, CoverNext
<1>3. CoverInv => LastMessageCovers
  BY DEF CoverInv, RelayCovers, LastMessageCovers, Closing, Concerns
<1> QED BY <1>1, <1>2, <1>3, PTL DEF Spec
-----------------------------------------------------------------------------
(* Who waits in the finally block is waited for                            *)

\* The handlers that await a relay task all await the same one.  While it runs, it
\* is listener_task and the stop event is set; once it is over, no other task is
\* listener_task before they have gone on, unless somebody is connected again.
JoinInv ==
    /\ \A s \in Sockets : sk[s] = "join" => waits[s] \in Sockets /\ task[waits[s]] # "none"
    /\ \A r, s \in Sockets : sk[r] = "join" /\ sk[s] = "join" => waits[r] = waits[s]
    /\ \A s \in Sockets : sk[s] = "join" =>
          IF Over(waits[s]) THEN listenerTask \in {waits[s], NoTask} \/ connections # {}
          ELSE stop /\ listenerTask = waits[s]
    /\ listenerTask # NoTask => task[listenerTask] # "none"

\* A handler in its finally block waits for a task that has been told to stop, or
\* that is over.
JoinersWake ==
    \A s \in Sockets : sk[s] = "join" => waits[s] \in Sockets /\ (stop \/ Over(waits[s]))

\* Where no handler is waking, the tasks awaited run.
LEMMA AsleepRuns ==
    ASSUME JoinInv, ~Waking, NEW s \in Sockets, sk[s] = "join"
    PROVE  ~Over(waits[s]) /\ stop /\ listenerTask = waits[s]
<1>1. waits[s] \in Sockets
  BY Zenon DEF JoinInv
<1>2. Over(waits[s]) => Waking
  BY <1>1 DEF Waking, Joiners
<1> QED BY <1>2, Zenon DEF JoinInv

\* A step that moves no task and takes no handler to or from its wait.
LEMMA AsleepKeeps ==
    ASSUME JoinInv, ~Waking, UNCHANGED <<waits, listenerTask, stop, task>>,
           \A s \in Sockets : sk'[s] = "join" => sk[s] = "join"
    PROVE  JoinInv'
<1>1. \A s \in Sockets : sk'[s] = "join" =>
         ~Over(waits[s]) /\ stop /\ listenerTask = waits[s]
  BY AsleepRuns, Zenon
<1>2. \A s \in Sockets : Over(waits[s])' = Over(waits[s])
  BY Zenon DEF Over
<1> QED BY <1>1, <1>2 DEF JoinInv, Over

LEMMA JoinNext == TypeInv /\ StopInv /\ CoverInv /\ JoinInv /\ [Next]_vars => JoinInv'
<1> SUFFICES ASSUME PartsOK, StopInv, InHub, JoinInv, [Next]_vars PROVE JoinInv'
  BY TypeParts DEF CoverInv
<1>a. /\ sk \in [Sockets -> {"new", "check", "listen", "open", "lost", "closing", "join", "gone"}]
      /\ waits \in [Sockets -> Sockets \cup {NoTask}]
      /\ listenerTask \in Sockets \cup {NoTask}
      /\ task \in [Sockets -> {"none", "starting", "loop", "wait", "cast", "ending",
                               "ended", "failed"}]
  BY DEF PartsOK, HubOK, RelayOK
<1>b. NoTask \notin Sockets
  BY HubAssumption
<1>1. ASSUME NEW s \in Sockets,
             Register(s) \/ RegisterFails(s) \/ ClientLeaves(s) \/ ReadFails(s)
             \/ CheckOverlay(s) \/ Disconnect(s)
      PROVE JoinInv'
  <2>1. ~Waking /\ UNCHANGED <<waits, listenerTask, stop, task>>
    BY <1>1 DEF Register, RegisterFails, ClientLeaves, ReadFails, CheckOverlay, Disconnect, relay
  <2>2. \A r \in Sockets : sk'[r] = "join" => sk[r] = "join"
    BY <1>1, <1>a DEF Register, RegisterFails, ClientLeaves, ReadFails, CheckOverlay, Disconnect
  <2> QED BY <2>1, <2>2, AsleepKeeps
<1>2. ASSUME NEW s \in Sockets, StartListener(s) PROVE JoinInv'
  <2>1. /\ s \in connections /\ task[s] = "none" /\ UNCHANGED <<connections, waits, stop>>
        /\ \A r \in Sockets : sk'[r] = "join" => sk[r] = "join"
    BY <1>2, <1>a DEF StartListener, InHub, StopInv
  <2>2. CASE UNCHANGED <<listenerTask, task>>
    BY <2>1, <2>2 DEF JoinInv, Over
  <2>3. CASE ~Listening /\ listenerTask' = s /\ task' = [task EXCEPT ![s] = "starting"]
    <3>1. task'[s] # "none" /\ \A t \in Sockets : t # s => task'[t] = task[t]
      BY <1>a, <2>3
    <3>2. ASSUME NEW r \in Sockets, sk[r] = "join"
          PROVE  waits[r] \in Sockets /\ waits[r] # s /\ Over(waits[r]) /\ task[waits[r]] # "none"
      BY <2>1, <2>3, <3>2 DEF JoinInv, Listening
    <3>3. ASSUME NEW r \in Sockets, sk[r] = "join"
          PROVE  task'[waits[r]] # "none" /\ Over(waits[r])'
      BY <2>1, <3>1, <3>2, <3>3 DEF Over
    <3> QED BY <2>1, <2>3, <3>1, <3>2, <3>3 DEF JoinInv
  <2> QED BY <1>2, <2>2, <2>3, Zenon DEF StartListener
<1>3. ASSUME NEW s \in Sockets, LastOneOut(s) PROVE JoinInv'
  <2>1. /\ sk[s] = "closing" /\ UNCHANGED <<connections, task>>
        /\ \A t : Over(t)' = Over(t)
    BY <1>3 DEF LastOneOut, relay, Over
  <2>2. CASE sk' = [sk EXCEPT ![s] = "gone"] /\ UNCHANGED <<waits, listenerTask, stop>>
    <3>1. \A r \in Sockets : sk'[r] = "join" => sk[r] = "join"
      BY <1>a, <2>2
    <3> QED BY <2>1, <2>2, <3>1 DEF JoinInv, Over
  <2>3. CASE /\ connections = {} /\ listenerTask # NoTask /\ Listening
             /\ sk' = [sk EXCEPT ![s] = "join"]
             /\ waits' = [waits EXCEPT ![s] = listenerTask] /\ stop' = TRUE /\ UNCHANGED listenerTask
    <3>1. listenerTask \in Sockets /\ ~Over(listenerTask) /\ task[listenerTask] # "none"
      BY <2>3 DEF Listening, JoinInv
    <3>2. ASSUME NEW r \in Sockets, sk'[r] = "join" PROVE waits'[r] = listenerTask
      <4>1. CASE r = s
        BY <1>a, <2>3, <4>1
      <4>2. CASE r # s
        <5>1. sk[r] = "join" /\ waits'[r] = waits[r]
          BY <1>a, <2>3, <3>2, <4>2
        <5> QED BY <1>b, <2>3, <3>1, <5>1 DEF JoinInv
      <4> QED BY <4>1, <4>2
    <3> QED BY <2>1, <2>3, <3>1, <3>2 DEF JoinInv
  <2>4. CASE /\ connections = {} /\ listenerTask # NoTask /\ task[listenerTask] = "ended"
             /\ sk' = [sk EXCEPT ![s] = "gone"] /\ stop' = FALSE /\ listenerTask' = NoTask
             /\ UNCHANGED waits
    <3>1. \A r \in Sockets : sk'[r] = "join" => sk[r] = "join"
      BY <1>a, <2>4
    <3>2. \A r \in Sockets : sk[r] = "join" => Over(waits[r])
      BY <2>4 DEF JoinInv, Over
    <3> QED BY <2>1, <2>4, <3>1, <3>2 DEF JoinInv
  <2>5. CASE /\ connections = {} /\ listenerTask # NoTask /\ task[listenerTask] = "failed"
             /\ sk' = [sk EXCEPT ![s] = "gone"] /\ stop' = TRUE /\ UNCHANGED <<waits, listenerTask>>
    <3>1. \A r \in Sockets : sk'[r] = "join" => sk[r] = "join"
      BY <1>a, <2>5
    <3> QED BY <2>1, <2>5, <3>1 DEF JoinInv
  <2> QED BY <1>3, <2>2, <2>3, <2>4, <2>5, Zenon DEF LastOneOut
<1>4. ASSUME NEW t \in Sockets, JoinersReturn(t) PROVE JoinInv'
  <2>1. PICK j \in Joiners(t) : TRUE
    BY <1>4 DEF JoinersReturn
  <2>2. \A r \in Sockets : sk'[r] # "join"
    BY <1>4, <2>1 DEF JoinersReturn, Joiners, JoinInv
  <2>3. UNCHANGED task /\ (listenerTask' = NoTask \/ listenerTask' = listenerTask)
    BY <1>4 DEF JoinersReturn, relay
  <2> QED BY <2>2, <2>3 DEF JoinInv
<1>5. ASSUME NEW t \in Sockets, NEW from \in {"starting", "loop", "wait", "cast", "ending"},
             NEW to \in {"loop", "wait", "cast", "ending", "ended", "failed"},
             MoveTask(t, from, to)
      PROVE JoinInv'
  <2>1. /\ ~Waking /\ task[t] = from /\ task' = [task EXCEPT ![t] = to]
        /\ UNCHANGED <<connections, sk, waits, listenerTask, stop>>
    BY <1>5 DEF MoveTask, hub
  <2>2. \A u \in Sockets : task[u] # "none" => task'[u] # "none"
    BY <1>a, <2>1
  <2>3. \A r \in Sockets : sk[r] = "join" => stop /\ listenerTask = waits[r]
    BY <2>1, AsleepRuns, Zenon
  <2> QED BY <1>a, <1>b, <2>1, <2>2, <2>3 DEF JoinInv
<1>6. ASSUME NEW t \in Sockets,
             Subscribe(t) \/ CheckStop(t) \/ ReadTimeout(t) \/ EndCast(t) \/ Finish(t)
             \/ Receive(t) \/ TaskFails(t)
      PROVE JoinInv'
  BY <1>5, <1>6 DEF Subscribe, CheckStop, ReadTimeout, EndCast, Finish, Receive, TaskFails
<1>7. ASSUME NEW t \in Sockets, NEW s \in Sockets, Send(t, s) PROVE JoinInv'
  BY <1>7, AsleepKeeps, Zenon DEF Send
<1>8. ASSUME NEW p \in Publishers, Begin(p) \/ Publish(p) \/ SetOverlay(p) \/ PublisherDies(p)
      PROVE JoinInv'
  <2>1. ~Waking /\ UNCHANGED <<sk, waits, listenerTask, stop, task>>
    BY <1>8 DEF Begin, Publish, SetOverlay, PublisherDies, hub, relay
  <2> QED BY <2>1, AsleepKeeps, Zenon
<1>9. CASE UNCHANGED vars
  BY <1>9 DEF vars, hub, relay, JoinInv, Over
<1> QED BY <1>1, <1>2, <1>3, <1>4, <1>6, <1>7, <1>8, <1>9 DEF Next, HandlerStep, TaskStep

\* No other handler clears the stop event under one that waits, or leaves it waiting
\* for a task nobody will stop: whoever is in the finally block waits for a task that
\* has been told to stop or is over (what LeaversReturn needs beside fairness).
THEOREM LeaversAreOwed == Spec => []JoinersWake
<1>1. Init => TypeInv /\ StopInv /\ CoverInv /\ JoinInv
  BY TypeInit DEF Init, StopInv, StopHasOwner, CoverInv, InHub, OverlayFirst, QueueBacked,
     CastCovers, RelayCovers, JoinInv
<1>2. TypeInv /\ StopInv /\ CoverInv /\ JoinInv /\ [Next]_vars
        => (TypeInv /\ StopInv /\ CoverInv /\ JoinInv)'
  BY TypeNext, StopNext, CoverNext, JoinNext
<1>3. JoinInv => JoinersWake
  BY DEF JoinInv, JoinersWake
<1> QED BY <1>1, <1>2, <1>3, PTL DEF Spec
=============================================================================
